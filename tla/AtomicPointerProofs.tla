-------------------------- MODULE AtomicPointerProofs ------------------------
(***************************************************************************)
(* Proofs about AtomicPointer, for any programs.                           *)
(***************************************************************************)
EXTENDS AtomicPointer, Integers, FiniteSetTheorems, SequenceTheorems, TLAPS

(* The code of the operations. *)

\* What a table of tables has under a name.
LEMMA FirstTable == ASSUME NEW f, NEW g, NEW name, name \in DOMAIN f
                    PROVE  With(f, g)[name] = f[name] /\ name \in DOMAIN With(f, g)
  BY DEF With

\* If the first table does not have it, it is in the others.
LEMMA NextTable == ASSUME NEW f, NEW g, NEW name, name \notin DOMAIN f, name \in DOMAIN g
                   PROVE  With(f, g)[name] = g[name] /\ name \in DOMAIN With(f, g)
  BY DEF With

C11 == test.backend = "c11"

Known == test.backend \in {"c11", "mintomic"} /\ test.kind \in {"pointer", "function"}

\* The accesses of reading, swapping and adding with either backend.
LEMMA BasicCode ==
    ASSUME Known
    PROVE  /\ Basic["read"] = IF C11 THEN <<Load("seq_cst")>> ELSE <<Load("relaxed"), Fence>>
           /\ Basic["read_relaxed"] = <<Load("relaxed")>>
           /\ Basic["weakcas"] = IF C11 THEN <<WeakCas("seq_cst")>> ELSE <<Cas("relaxed")>>
           /\ Basic["weakcas_relaxed"] = IF C11 THEN <<WeakCas("relaxed")>> ELSE <<Cas("relaxed")>>
           /\ Basic["cas"] = <<Cas(IF C11 THEN "seq_cst" ELSE "relaxed")>>
           /\ test.kind = "pointer" =>
                /\ Basic["add"] = IF C11 THEN <<Add("seq_cst")>> ELSE <<Add("relaxed"), Fence>>
                /\ Basic["add_relaxed"] = <<Add("relaxed")>>
<1> DEFINE Reads == {"read", "read_relaxed"}
           Swaps == {"weakcas", "weakcas_relaxed"}
           Strongs == {"cas"} \cup Swaps
           Adds  == {"add", "add_relaxed"}
<1>1. CASE C11 /\ test.kind = "function"
  <2>1. Basic = With(C11FunctionAccess, With(C11FunctionWeakSwap, With(C11FunctionSwap, Barrier)))
    BY <1>1 DEF Basic, C11
  <2>2. /\ Reads \subseteq DOMAIN C11FunctionAccess
        /\ \A n \in Swaps : n \notin DOMAIN C11FunctionAccess /\ n \in DOMAIN C11FunctionWeakSwap
    BY DEF C11FunctionAccess, C11FunctionWeakSwap
  <2>3. \A n \in Reads : Basic[n] = C11FunctionAccess[n]
    BY <2>1, <2>2, FirstTable
  <2>4. \A n \in Swaps : Basic[n] = C11FunctionWeakSwap[n]
    BY <2>1, <2>2, FirstTable, NextTable
  <2>5. Basic["cas"] = C11FunctionSwap["cas"]
    <3>1. /\ "cas" \notin DOMAIN C11FunctionAccess /\ "cas" \notin DOMAIN C11FunctionWeakSwap
          /\ "cas" \in DOMAIN C11FunctionSwap
      BY DEF C11FunctionAccess, C11FunctionWeakSwap, C11FunctionSwap
    <3>2. LET rest == With(C11FunctionWeakSwap, With(C11FunctionSwap, Barrier))
          IN "cas" \in DOMAIN rest /\ rest["cas"] = C11FunctionSwap["cas"]
      BY <3>1, FirstTable, NextTable
    <3> QED
      BY <2>1, <3>1, <3>2, NextTable
  <2> QED
    BY <1>1, <2>3, <2>4, <2>5 DEF C11FunctionAccess, C11FunctionWeakSwap, C11FunctionSwap
<1>2. CASE C11 /\ test.kind = "pointer"
  <2>1. Basic = With(C11Access, With(C11WeakSwap, With(C11Swap, With(C11Add, Barrier))))
    BY <1>2 DEF Basic, C11
  <2>2. /\ Reads \subseteq DOMAIN C11Access
        /\ \A n \in Swaps : n \notin DOMAIN C11Access /\ n \in DOMAIN C11WeakSwap
        /\ \A n \in Adds : /\ n \notin DOMAIN C11Access /\ n \notin DOMAIN C11WeakSwap
                           /\ n \notin DOMAIN C11Swap /\ n \in DOMAIN C11Add
    BY DEF C11Access, C11WeakSwap, C11Swap, C11Add
  <2>3. \A n \in Reads : Basic[n] = C11Access[n]
    BY <2>1, <2>2, FirstTable
  <2>4. \A n \in Swaps : Basic[n] = C11WeakSwap[n]
    BY <2>1, <2>2, FirstTable, NextTable
  <2>5. \A n \in Adds : Basic[n] = C11Add[n]
    <3>1. \A n \in Adds : n \in DOMAIN With(C11Add, Barrier) /\ With(C11Add, Barrier)[n] = C11Add[n]
      BY <2>2, FirstTable
    <3>2. \A n \in Adds : LET rest == With(C11Swap, With(C11Add, Barrier))
                          IN n \in DOMAIN rest /\ rest[n] = C11Add[n]
      BY <2>2, <3>1, NextTable
    <3>3. \A n \in Adds : LET rest == With(C11WeakSwap, With(C11Swap, With(C11Add, Barrier)))
                          IN n \in DOMAIN rest /\ rest[n] = C11Add[n]
      BY <2>2, <3>2, NextTable
    <3> QED
      BY <2>1, <2>2, <3>3, NextTable
  <2>6. Basic["cas"] = C11Swap["cas"]
    <3>1. "cas" \notin DOMAIN C11Access /\ "cas" \notin DOMAIN C11WeakSwap /\ "cas" \in DOMAIN C11Swap
      BY DEF C11Access, C11WeakSwap, C11Swap
    <3>2. LET rest == With(C11WeakSwap, With(C11Swap, With(C11Add, Barrier)))
          IN "cas" \in DOMAIN rest /\ rest["cas"] = C11Swap["cas"]
      BY <3>1, FirstTable, NextTable
    <3> QED
      BY <2>1, <3>1, <3>2, NextTable
  <2> QED
    BY <1>2, <2>3, <2>4, <2>5, <2>6 DEF C11Access, C11WeakSwap, C11Swap, C11Add
<1>3. CASE ~C11 /\ test.kind = "function"
  <2>1. Basic = With(MintomicAccess, With(MintomicSwap, Barrier))
    BY <1>3 DEF Basic, C11, Known, MintomicFunctionAccess, MintomicFunctionSwap
  <2>2. /\ Reads \subseteq DOMAIN MintomicAccess
        /\ \A n \in Strongs : n \notin DOMAIN MintomicAccess /\ n \in DOMAIN MintomicSwap
    BY DEF MintomicAccess, MintomicSwap
  <2>3. \A n \in Reads : Basic[n] = MintomicAccess[n]
    BY <2>1, <2>2, FirstTable
  <2>4. \A n \in Strongs : Basic[n] = MintomicSwap[n]
    BY <2>1, <2>2, FirstTable, NextTable
  <2> QED
    BY <1>3, <2>3, <2>4 DEF MintomicAccess, MintomicSwap
<1>4. CASE ~C11 /\ test.kind = "pointer"
  <2>1. Basic = With(MintomicAccess, With(MintomicSwap, With(MintomicAdd, Barrier)))
    BY <1>4 DEF Basic, C11, Known
  <2>2. /\ Reads \subseteq DOMAIN MintomicAccess
        /\ \A n \in Strongs : n \notin DOMAIN MintomicAccess /\ n \in DOMAIN MintomicSwap
        /\ \A n \in Adds : /\ n \notin DOMAIN MintomicAccess /\ n \notin DOMAIN MintomicSwap
                           /\ n \in DOMAIN MintomicAdd
    BY DEF MintomicAccess, MintomicSwap, MintomicAdd
  <2>3. \A n \in Reads : Basic[n] = MintomicAccess[n]
    BY <2>1, <2>2, FirstTable
  <2>4. \A n \in Strongs : Basic[n] = MintomicSwap[n]
    BY <2>1, <2>2, FirstTable, NextTable
  <2>5. \A n \in Adds : Basic[n] = MintomicAdd[n]
    <3>1. \A n \in Adds : LET rest == With(MintomicSwap, With(MintomicAdd, Barrier))
                          IN n \in DOMAIN rest /\ rest[n] = MintomicAdd[n]
      BY <2>2, FirstTable, NextTable
    <3> QED
      BY <2>1, <2>2, <3>1, NextTable
  <2> QED
    BY <1>4, <2>3, <2>4, <2>5 DEF MintomicAccess, MintomicSwap, MintomicAdd
<1> QED
  BY <1>1, <1>2, <1>3, <1>4 DEF Known

\* One access after another.
LEMMA Concatenated ==
    ASSUME NEW S, NEW x \in S, NEW y \in S, NEW z \in S
    PROVE  <<x>> \o <<y>> = <<x, y>> /\ <<x, z>> \o <<y>> = <<x, z, y>>
<1>1. /\ <<x>> \in Seq(S) /\ <<y>> \in Seq(S) /\ <<x, z>> \in Seq(S)
      /\ <<x, y>> \in Seq(S) /\ <<x, z, y>> \in Seq(S)
  OBVIOUS
<1>2. <<x>> \o <<y>> = <<x, y>>
  <2> DEFINE s == <<x>> \o <<y>>
             r == <<x, y>>
  <2>1. s \in Seq(S) /\ r \in Seq(S) /\ Len(s) = 2 /\ Len(r) = 2
    BY <1>1
  <2>2. s[1] = r[1] /\ s[2] = r[2]
    BY <1>1
  <2> HIDE DEF s, r
  <2>3. s = r
    BY <2>1, <2>2, SeqEqual
  <2> QED
    BY <2>3 DEF s, r
<1>3. <<x, z>> \o <<y>> = <<x, z, y>>
  <2> DEFINE s == <<x, z>> \o <<y>>
             r == <<x, z, y>>
  <2>1. s \in Seq(S) /\ r \in Seq(S) /\ Len(s) = 3 /\ Len(r) = 3
    BY <1>1
  <2>2. s[1] = r[1] /\ s[2] = r[2] /\ s[3] = r[3]
    BY <1>1
  <2> HIDE DEF s, r
  <2>3. s = r
    BY <2>1, <2>2, SeqEqual
  <2> QED
    BY <2>3 DEF s, r
<1> QED
  BY <1>2, <1>3

\* The loops load first and swap last, and the swap is a call's only access with set.
LEMMA LoopCode ==
    ASSUME Known
    PROVE  /\ Code("cas_increment") = IF C11 THEN <<Load("seq_cst"), WeakCas("seq_cst")>>
                                      ELSE <<Load("relaxed"), Fence, Cas("relaxed")>>
           /\ Code("relaxed_increment") = IF C11 THEN <<Load("relaxed"), WeakCas("relaxed")>>
                                          ELSE <<Load("relaxed"), Cas("relaxed")>>
           /\ Code("set") = IF C11 THEN <<WeakCas("seq_cst")>> ELSE <<Cas("relaxed")>>
<1>1. /\ Code("set") = Basic["weakcas"]
      /\ Code("cas_increment") = Basic["read"] \o Basic["weakcas"]
      /\ Code("relaxed_increment") = Basic["read_relaxed"] \o Basic["weakcas_relaxed"]
  BY DEF Code, Integer
<1> DEFINE S == {Load("seq_cst"), Load("relaxed"), WeakCas("seq_cst"), WeakCas("relaxed"), Cas("relaxed"), Fence}
<1> HIDE DEF S
<1>2. \A x, y, z \in S : <<x>> \o <<y>> = <<x, y>> /\ <<x, z>> \o <<y>> = <<x, z, y>>
  BY Concatenated
<1>3. /\ Load("seq_cst") \in S /\ Load("relaxed") \in S /\ WeakCas("seq_cst") \in S
      /\ WeakCas("relaxed") \in S /\ Cas("relaxed") \in S /\ Fence \in S
  BY DEF S
<1>4. CASE C11
  <2>1. /\ Basic["read"] = <<Load("seq_cst")>> /\ Basic["weakcas"] = <<WeakCas("seq_cst")>>
        /\ Basic["read_relaxed"] = <<Load("relaxed")>> /\ Basic["weakcas_relaxed"] = <<WeakCas("relaxed")>>
    BY <1>4, BasicCode
  <2>2. /\ Basic["read"] \o Basic["weakcas"] = <<Load("seq_cst"), WeakCas("seq_cst")>>
        /\ Basic["read_relaxed"] \o Basic["weakcas_relaxed"] = <<Load("relaxed"), WeakCas("relaxed")>>
    <3>1. /\ <<Load("seq_cst")>> \o <<WeakCas("seq_cst")>> = <<Load("seq_cst"), WeakCas("seq_cst")>>
          /\ <<Load("relaxed")>> \o <<WeakCas("relaxed")>> = <<Load("relaxed"), WeakCas("relaxed")>>
      BY <1>2, <1>3, Zenon
    <3> QED
      BY <2>1, <3>1, Zenon
  <2> QED
    BY <1>1, <1>4, <2>1, <2>2
<1>5. CASE ~C11
  <2>1. /\ Basic["read"] = <<Load("relaxed"), Fence>> /\ Basic["weakcas"] = <<Cas("relaxed")>>
        /\ Basic["read_relaxed"] = <<Load("relaxed")>> /\ Basic["weakcas_relaxed"] = <<Cas("relaxed")>>
    BY <1>5, BasicCode
  <2>2. /\ Basic["read"] \o Basic["weakcas"] = <<Load("relaxed"), Fence, Cas("relaxed")>>
        /\ Basic["read_relaxed"] \o Basic["weakcas_relaxed"] = <<Load("relaxed"), Cas("relaxed")>>
    <3>1. /\ <<Load("relaxed"), Fence>> \o <<Cas("relaxed")>> = <<Load("relaxed"), Fence, Cas("relaxed")>>
          /\ <<Load("relaxed")>> \o <<Cas("relaxed")>> = <<Load("relaxed"), Cas("relaxed")>>
      BY <1>2, <1>3, Zenon
    <3> QED
      BY <2>1, <3>1, Zenon
  <2> QED
    BY <1>1, <1>5, <2>1, <2>2
<1> QED
  BY <1>4, <1>5
-----------------------------------------------------------------------------
(* The inductive invariant of the types. *)

\* Every word has been set up, and a call that has got past its first access has a value.
InCall == /\ \A a \in Address : Len(writes[a]) >= 1
          /\ \A t \in Thread : step[t] >= 1 /\ (step[t] > 1 => reg[t] \in Value)
          /\ \A t \in Thread : Len(got[t]) <= Len(test.program[t])

IInv == TypeOK /\ InCall

\* What a word holds are the numbers below Word.
LEMMA ValueFacts == Value \subseteq Nat /\ 0 \in Value /\ 1 \in Value /\ \A n \in Nat : n % Word \in Value
  BY AtomicPointerAssumption DEF Value

\* Two views together are a view.
LEMMA JoinType == \A v, w \in View : Join(v, w) \in View
  BY DEF View, Join

\* A running thread is in a call of its program.
LEMMA CallType == ASSUME IInv, NEW t \in Thread, Running(t)
                  PROVE  Call(t) \in Calls /\ Known
<1>1. test \in Test /\ test.program \in [Thread -> Seq(Calls)] /\ Known
  BY AtomicPointerAssumption DEF IInv, TypeOK, Known
<1>2. got[t] \in Seq(Value) /\ test.program[t] \in Seq(Calls)
  BY <1>1 DEF IInv, TypeOK
<1>3. Len(got[t]) + 1 \in 1 .. Len(test.program[t])
  BY <1>2 DEF Running
<1> QED
  BY <1>1, <1>2, <1>3 DEF Call

\* Reading leaves the words alone.
LEMMA ReadType == ASSUME IInv, NEW t \in Thread, NEW a \in Address,
                         NEW i \in 1 .. Len(writes[a]), NEW order, Read(t, a, i, order)
                  PROVE  /\ writes[a][i].value \in Value /\ writes' = writes
                         /\ view' \in [Thread -> View] /\ loaded' \in [Thread -> View]
                         /\ fenced' \in [Thread -> View] /\ sc' \in View
<1>1. writes[a][i] \in [value : Value, view : View] /\ i \in Nat
  <2> DEFINE Written == [value : Value, view : View]
  <2>1. writes \in [Address -> Seq(Written)]
    BY DEF IInv, TypeOK
  <2> HIDE DEF Written
  <2>2. writes[a] \in Seq(Written)
    BY <2>1
  <2>3. writes[a][i] \in Written /\ i \in Nat
    BY <2>2
  <2> QED
    BY <2>3 DEF Written
<1>2. [view[t] EXCEPT ![a] = i] \in View /\ [sc EXCEPT ![a] = i] \in View
  BY <1>1 DEF IInv, TypeOK, View
<1>3. Join([view[t] EXCEPT ![a] = i], writes[a][i].view) \in View
  BY <1>1, <1>2, JoinType
<1>4. Join(loaded[t], Join([view[t] EXCEPT ![a] = i], writes[a][i].view)) \in View
  BY <1>3, JoinType DEF IInv, TypeOK
<1> QED
  BY <1>1, <1>2, <1>3, <1>4 DEF Read, IInv, TypeOK

\* Writing appends one value to one word.
LEMMA WriteType == ASSUME IInv, NEW t \in Thread, NEW a \in Address, NEW v \in Value,
                          NEW order, NEW from \in View, Write(t, a, v, order, from)
                   PROVE  /\ writes' \in [Address -> Seq([value : Value, view : View])]
                          /\ Len(writes'[a]) = Len(writes[a]) + 1
                          /\ writes'[a][Len(writes[a]) + 1].value = v
                          /\ \A i \in 1 .. Len(writes[a]) : writes'[a][i] = writes[a][i]
                          /\ \A b \in Address \ {a} : writes'[b] = writes[b]
                          /\ view' \in [Thread -> View] /\ loaded' \in [Thread -> View]
                          /\ fenced' \in [Thread -> View] /\ sc' \in View
<1> DEFINE n == Len(writes[a]) + 1
           joined == IF order = "relaxed" THEN view[t] ELSE Join(view[t], from)
           mine == [joined EXCEPT ![a] = n]
           passed == IF order = "relaxed" THEN fenced[t] ELSE mine
           carried == [Join(from, passed) EXCEPT ![a] = n]
<1> DEFINE Written == [value : Value, view : View]
<1>0. writes \in [Address -> Seq(Written)]
  BY DEF IInv, TypeOK
<1> HIDE DEF Written
<1>1. n \in Nat /\ writes[a] \in Seq(Written)
  BY <1>0
<1>2. joined \in View
  BY JoinType DEF IInv, TypeOK
<1>3. mine \in View /\ [sc EXCEPT ![a] = n] \in View
  BY <1>1, <1>2 DEF IInv, TypeOK, View
<1>4. passed \in View
  BY <1>3 DEF IInv, TypeOK
<1>5. carried \in View
  <2>1. Join(from, passed) \in View
    BY <1>4, JoinType
  <2> QED
    BY <1>1, <2>1 DEF View
<1>6. Join(loaded[t], Join(from, mine)) \in View
  <2>1. Join(from, mine) \in View
    BY <1>3, JoinType
  <2> QED
    BY <2>1, JoinType DEF IInv, TypeOK
<1>7. /\ writes' = [writes EXCEPT ![a] = Append(@, [value |-> v, view |-> carried])]
      /\ view' = [view EXCEPT ![t] = mine]
      /\ loaded' = [loaded EXCEPT ![t] = Join(@, Join(from, mine))]
      /\ sc' = IF order = "seq_cst" THEN [sc EXCEPT ![a] = n] ELSE sc
      /\ fenced' = fenced
  BY DEF Write
<1> HIDE DEF mine, passed, carried, joined
<1>8. view' \in [Thread -> View] /\ loaded' \in [Thread -> View] /\ fenced' \in [Thread -> View] /\ sc' \in View
  BY <1>3, <1>6, <1>7 DEF IInv, TypeOK
<1>9. writes'[a] = Append(writes[a], [value |-> v, view |-> carried]) /\ \A b \in Address \ {a} : writes'[b] = writes[b]
  BY <1>7 DEF IInv, TypeOK
<1>10. [value |-> v, view |-> carried] \in Written /\ [value |-> v, view |-> carried].value = v
  BY <1>5 DEF Written
<1> DEFINE last == [value |-> v, view |-> carried]
<1> HIDE DEF last
<1>11. writes'[a] = Append(writes[a], last) /\ last \in Written /\ last.value = v
  BY <1>9, <1>10 DEF last
<1>12. /\ Append(writes[a], last) \in Seq(Written) /\ Len(Append(writes[a], last)) = n
       /\ Append(writes[a], last)[n] = last
       /\ \A i \in 1 .. Len(writes[a]) : Append(writes[a], last)[i] = writes[a][i]
  BY <1>1, <1>11
<1>13. writes' \in [Address -> Seq(Written)]
  BY <1>0, <1>7, <1>11, <1>12 DEF last
<1> QED
  BY <1>8, <1>9, <1>11, <1>12, <1>13 DEF Written

\* A call goes on to its next access with a value, or it returns one.
LEMMA ContinueType == ASSUME IInv, NEW t \in Thread, NEW v \in Value, Running(t), Continue(t, v)
                      PROVE  /\ step' \in [Thread -> Nat] /\ reg' \in [Thread -> Value \cup {NULL}]
                             /\ got' \in [Thread -> Seq(Value)]
                             /\ \A u \in Thread : step'[u] >= 1 /\ (step'[u] > 1 => reg'[u] \in Value)
                             /\ \A u \in Thread : Len(got'[u]) <= Len(test.program[u])
<1>1. /\ step \in [Thread -> Nat] /\ reg \in [Thread -> Value \cup {NULL}] /\ got \in [Thread -> Seq(Value)]
      /\ \A u \in Thread : step[u] >= 1 /\ (step[u] > 1 => reg[u] \in Value)
      /\ \A u \in Thread : Len(got[u]) <= Len(test.program[u]) /\ test.program[u] \in Seq(Calls)
      /\ Len(got[t]) < Len(test.program[t])
  BY AtomicPointerAssumption DEF IInv, TypeOK, InCall, Running
<1>2. CASE step[t] = Len(Code(Call(t).name))
  <2>1. /\ got' = [got EXCEPT ![t] = Append(@, v)] /\ step' = [step EXCEPT ![t] = 1]
        /\ reg' = [reg EXCEPT ![t] = NULL]
    BY <1>2 DEF Continue
  <2> QED
    BY <1>1, <2>1
<1>3. CASE step[t] # Len(Code(Call(t).name))
  <2>1. got' = got /\ step' = [step EXCEPT ![t] = @ + 1] /\ reg' = [reg EXCEPT ![t] = v]
    BY <1>3 DEF Continue
  <2> QED
    BY <1>1, <2>1
<1> QED
  BY <1>2, <1>3

\* The last write to a word.
LEMMA LastType == ASSUME IInv, NEW a \in Address
                  PROVE  Last(a).value \in Value /\ Last(a).view \in View
<1> DEFINE Written == [value : Value, view : View]
<1>1. writes \in [Address -> Seq(Written)] /\ Len(writes[a]) >= 1
  BY DEF IInv, TypeOK, InCall
<1> HIDE DEF Written
<1>2. Last(a) \in Written
  BY <1>1 DEF Last
<1> QED
  BY <1>2 DEF Written

\* A swap in a loop comes after the load.
LEMMA LoopHasValue == ASSUME IInv, NEW t \in Thread, AtCas(t), Call(t).name \in Loops
                      PROVE  reg[t] \in Value
<1>1. Known
  BY CallType DEF AtCas, At
<1>2. Code(Call(t).name)[1].op = "load"
  BY <1>1, LoopCode DEF Loops, Load
<1>3. step[t] # 1
  BY <1>2 DEF AtCas, At, Access
<1> QED
  BY <1>3 DEF IInv, TypeOK, InCall

\* What an operation returns is a value of a word.
LEMMA ResultType == ASSUME NEW c \in Calls, NEW v \in Value
                    PROVE  Added(c, v) \in Value /\ \A won \in BOOLEAN : Swapped(c, won, v) \in Value
<1>1. v \in Nat /\ Diff(c) \in Nat /\ Word - Diff(c) \in Nat
  BY AtomicPointerAssumption DEF Diff, Calls, Value, Loops
<1>2. /\ (v + Diff(c)) % Word \in Value
      /\ (((v + Diff(c)) % Word) + (Word - Diff(c))) % Word \in Value
  <2>1. (v + Diff(c)) % Word \in Value
    BY <1>1, ValueFacts
  <2>2. ((v + Diff(c)) % Word) + (Word - Diff(c)) \in Nat
    <3>1. (v + Diff(c)) % Word \in Nat
      BY <2>1, ValueFacts
    <3> QED
      BY <1>1, <3>1
  <2> QED
    BY <2>1, <2>2, ValueFacts
<1> QED
  BY <1>2, ValueFacts DEF Added, Swapped, Loops

\* So is what an addition writes.
LEMMA SumType == ASSUME NEW v \in Value, NEW d \in Nat PROVE (v + d) % Word \in Value
<1>1. v + d \in Nat
  BY DEF Value
<1> QED
  BY <1>1, ValueFacts

\* A swap writes a value of a word.
LEMMA NewType == ASSUME IInv, NEW t \in Thread, AtCas(t) PROVE New(t) \in Value
<1>1. Call(t).value \in Value
  BY CallType DEF AtCas, At, Calls
<1>2. CASE Call(t).name \in Loops
  <2>1. reg[t] \in Nat
    BY <1>2, LoopHasValue, ValueFacts
  <2> QED
    BY <1>2, <2>1, ValueFacts DEF New
<1>3. CASE Call(t).name \notin Loops
  BY <1>1, <1>3 DEF New
<1> QED
  BY <1>2, <1>3

\* Every step keeps the types and what is known within a call.
LEMMA IInvStep == IInv /\ [Next]_vars => IInv'
<1> SUFFICES ASSUME IInv, [Next]_vars PROVE IInv'
  OBVIOUS
<1>1. CASE UNCHANGED vars
  BY <1>1 DEF vars, IInv, TypeOK, InCall, View
<1>2. ASSUME NEW t \in Thread, LoadWord(t) PROVE IInv'
  <2>1. Call(t).at \in Address /\ Running(t)
    BY <1>2, CallType DEF LoadWord, At, Calls
  <2>2. PICK i \in 1 .. Len(writes[Call(t).at]) :
          /\ Read(t, Call(t).at, i, Access(t).order)
          /\ Continue(t, writes[Call(t).at][i].value)
    BY <1>2 DEF LoadWord
  <2>3. writes[Call(t).at][i].value \in Value
    BY <2>1, <2>2, ReadType
  <2> QED
    BY <1>2, <2>1, <2>2, <2>3, ReadType, ContinueType DEF LoadWord, IInv, TypeOK, InCall
<1>3. ASSUME NEW t \in Thread, NEW a \in Address, NEW v \in Value, NEW order, NEW from \in View,
             NEW r \in Value, Write(t, a, v, order, from), Running(t), Continue(t, r), test' = test
      PROVE  IInv'
  <2>1. \A b \in Address : Len(writes'[b]) >= 1
    BY <1>3, WriteType DEF IInv, InCall
  <2> QED
    BY <1>3, <2>1, WriteType, ContinueType DEF IInv, TypeOK, InCall
<1>4. ASSUME NEW t \in Thread, StoreWord(t) PROVE IInv'
  <2>1. Call(t) \in Calls /\ Running(t) /\ NoView \in View
    BY <1>4, CallType DEF StoreWord, At, NoView, View
  <2> QED
    BY <1>3, <1>4, <2>1, ValueFacts DEF StoreWord, Calls
<1>5. ASSUME NEW t \in Thread, AddWord(t) PROVE IInv'
  <2>1. Call(t) \in Calls /\ Running(t)
    BY <1>5, CallType DEF AddWord, At
  <2>2. Call(t).at \in Address /\ Diff(Call(t)) \in Nat
    BY <2>1, AtomicPointerAssumption DEF Calls, Diff, Value
  <2>3. Last(Call(t).at).value \in Value /\ Last(Call(t).at).view \in View
    BY <2>2, LastType
  <2>4. (Last(Call(t).at).value + Diff(Call(t))) % Word \in Value
    BY <2>2, <2>3, SumType
  <2> QED
    BY <1>3, <1>5, <2>1, <2>2, <2>3, <2>4, ResultType DEF AddWord
<1>6. ASSUME NEW t \in Thread, FenceMemory(t) PROVE IInv'
  <2> DEFINE all == IF Access(t).order = "acquire" THEN loaded[t] ELSE Join(loaded[t], sc)
             v == IF reg[t] = NULL THEN 0 ELSE reg[t]
  <2>1. all \in View
    BY JoinType DEF IInv, TypeOK
  <2>2. v \in Value
    BY ValueFacts DEF IInv, TypeOK
  <2>3. /\ view' = [view EXCEPT ![t] = all] /\ loaded' = [loaded EXCEPT ![t] = all]
        /\ \/ UNCHANGED <<fenced, sc>>
           \/ fenced' = [fenced EXCEPT ![t] = all] /\ sc' = all
        /\ Running(t) /\ Continue(t, v) /\ UNCHANGED <<test, writes>>
    BY <1>6 DEF FenceMemory, At
  <2> HIDE DEF all, v
  <2> QED
    BY <2>1, <2>2, <2>3, ContinueType DEF IInv, TypeOK, InCall
<1>7. ASSUME NEW t \in Thread, CasSucceeds(t) PROVE IInv'
  <2>1. Call(t) \in Calls /\ Running(t) /\ AtCas(t)
    BY <1>7, CallType DEF CasSucceeds, AtCas, At
  <2>2. Call(t).at \in Address /\ Call(t).value \in Value
    BY <2>1 DEF Calls
  <2>3. Last(Call(t).at).value \in Value /\ Last(Call(t).at).view \in View
    BY <2>2, LastType
  <2>4. New(t) \in Value
    BY <2>1, NewType
  <2>5. Expect(t) \in Value
    BY <1>7, <2>3 DEF CasSucceeds
  <2> QED
    BY <1>3, <1>7, <2>1, <2>2, <2>3, <2>4, <2>5, ResultType DEF CasSucceeds
<1>8. ASSUME NEW t \in Thread, CasFails(t) PROVE IInv'
  <2>1. Call(t) \in Calls /\ Running(t) /\ AtCas(t)
    BY <1>8, CallType DEF CasFails, AtCas, At
  <2>2. Call(t).at \in Address
    BY <2>1 DEF Calls
  <2>3. PICK i \in 1 .. Len(writes[Call(t).at]) :
          /\ Read(t, Call(t).at, i, Access(t).order)
          /\ Retry(t, writes[Call(t).at][i].value)
    BY <1>8 DEF CasFails
  <2> DEFINE v == writes[Call(t).at][i].value
  <2>4. v \in Value
    BY <2>2, <2>3, ReadType
  <2> HIDE DEF v
  <2>5. Again(t) \/ AgainWith(t, v) \/ Continue(t, Swapped(Call(t), FALSE, v))
    BY <2>3 DEF Retry, v
  <2>6. /\ step' \in [Thread -> Nat] /\ reg' \in [Thread -> Value \cup {NULL}]
        /\ got' \in [Thread -> Seq(Value)]
        /\ \A u \in Thread : step'[u] >= 1 /\ (step'[u] > 1 => reg'[u] \in Value)
        /\ \A u \in Thread : Len(got'[u]) <= Len(test.program[u])
    <3>1. /\ step \in [Thread -> Nat] /\ reg \in [Thread -> Value \cup {NULL}] /\ got \in [Thread -> Seq(Value)]
          /\ \A u \in Thread : step[u] >= 1 /\ (step[u] > 1 => reg[u] \in Value)
          /\ \A u \in Thread : Len(got[u]) <= Len(test.program[u])
      BY DEF IInv, TypeOK, InCall
    <3>2. CASE Again(t)
      BY <3>1, <3>2 DEF Again
    <3>3. CASE AgainWith(t, v)
      BY <2>4, <3>1, <3>3 DEF AgainWith
    <3>4. CASE Continue(t, Swapped(Call(t), FALSE, v))
      BY <2>1, <2>4, <3>4, ResultType, ContinueType
    <3> QED
      BY <2>5, <3>2, <3>3, <3>4
  <2> QED
    BY <1>8, <2>2, <2>3, <2>6, ReadType DEF CasFails, IInv, TypeOK, InCall
<1> QED
  BY <1>1, <1>2, <1>4, <1>5, <1>6, <1>7, <1>8 DEF Next

\* The invariant holds before the first call.
LEMMA IInvInit == Init => IInv
  BY ValueFacts, AtomicPointerAssumption DEF Init, IInv, TypeOK, InCall, NoView, View

\* The types hold in every behaviour, for any programs.
THEOREM Invariance == Spec => []IInv
  BY IInvInit, IInvStep, PTL DEF Spec

\* The words, what was written to them and what the calls have returned keep their types.
THEOREM TypeCorrect == Spec => []TypeOK
<1>1. IInv => TypeOK
  BY DEF IInv
<1> QED
  BY <1>1, Invariance, PTL

-----------------------------------------------------------------------------
(* The set loop around a strong swap. *)

\* Programs that call set run on mintomic, whose weak swap is the strong one.
Strong == \A x \in Test : \/ x.backend = "mintomic"
                          \/ \A t \in Thread : \A k \in 1 .. Len(x.program[t]) : x.program[t][k].name # "set"

\* A thread in a set is at its swap.
InSet == \A t \in Thread : Running(t) /\ Call(t).name = "set" => step[t] = 1

SetInv == IInv /\ InSet /\ SetReplaces

\* The pairs of a thread and a place in what it has got.
LEMMA Positions ==
    ASSUME NEW g, NEW d
    PROVE  d \in UNION {{t} \X (1 .. Len(g[t])) : t \in Thread}
              <=> d \in Thread \X Nat /\ d[2] \in 1 .. Len(g[d[1]])
<1>1. ASSUME NEW t \in Thread, d \in {t} \X (1 .. Len(g[t]))
      PROVE  d \in Thread \X Nat /\ d[2] \in 1 .. Len(g[d[1]])
  BY <1>1
<1>2. ASSUME d \in Thread \X Nat, d[2] \in 1 .. Len(g[d[1]])
      PROVE  d \in {d[1]} \X (1 .. Len(g[d[1]])) /\ d[1] \in Thread
  BY <1>2
<1> QED
  BY <1>1, <1>2

LEMMA NothingReturned == ASSUME Init, NEW names PROVE Done(names) = {}
<1>1. \A t \in Thread : Len(got[t]) = 0
  BY DEF Init
<1>2. \A d : d \notin Returned
  BY <1>1, Positions DEF Returned
<1> QED
  BY <1>2 DEF Done

\* What has been written stays.
Extends == /\ test' = test
           /\ \A a \in Address : /\ Len(writes'[a]) >= Len(writes[a])
                                 /\ \A i \in 1 .. Len(writes[a]) : writes'[a][i] = writes[a][i]

\* A write takes nothing away that was written before.
LEMMA WriteExtends == ASSUME IInv, NEW t \in Thread, NEW a \in Address, NEW v \in Value, NEW order,
                             NEW from \in View, Write(t, a, v, order, from), test' = test
                      PROVE  Extends
<1>1. \A b \in Address : Len(writes[b]) \in Nat
  BY DEF IInv, TypeOK
<1>2. Len(writes'[a]) >= Len(writes[a]) /\ \A i \in 1 .. Len(writes[a]) : writes'[a][i] = writes[a][i]
  BY <1>1, WriteType
<1>3. \A b \in Address \ {a} : writes'[b] = writes[b]
  BY WriteType
<1> QED
  BY <1>1, <1>2, <1>3 DEF Extends

\* Neither does a step that writes nothing take anything away.
LEMMA ReadExtends == ASSUME IInv, writes' = writes, test' = test PROVE Extends
  BY DEF Extends, IInv, TypeOK

\* A set is all at its swap.
LEMMA SetAccess == ASSUME IInv, InSet, Strong, NEW t \in Thread, Running(t), Call(t).name = "set"
                   PROVE  step[t] = 1 /\ Access(t) = Cas("relaxed") /\ Len(Code(Call(t).name)) = 1
<1>1. Known /\ ~C11 /\ step[t] = 1
  <2>1. Known /\ step[t] = 1
    BY CallType DEF InSet
  <2>2. test \in Test /\ test.program[t] \in Seq(Calls) /\ got[t] \in Seq(Value)
    BY AtomicPointerAssumption DEF IInv, TypeOK
  <2>3. Len(got[t]) + 1 \in 1 .. Len(test.program[t])
    BY <2>2 DEF Running
  <2>4. test.backend = "mintomic"
    BY <2>2, <2>3 DEF Strong, Call
  <2> QED
    BY <2>1, <2>4 DEF C11
<1>2. Code(Call(t).name) = <<Cas("relaxed")>>
  BY <1>1, LoopCode
<1> QED
  BY <1>1, <1>2 DEF Access

\* A step that goes on or returns r keeps the results, if a set returns what it replaced.
LEMMA SetContinues ==
    ASSUME SetInv, Strong, NEW t \in Thread, Running(t), NEW r \in Value, Continue(t, r), Extends,
           Call(t).name = "set" =>
              \E i \in 1 .. Len(writes'[Call(t).at]) - 1 :
                 /\ writes'[Call(t).at][i].value = r
                 /\ writes'[Call(t).at][i + 1].value = Call(t).value
    PROVE  InSet' /\ SetReplaces'
<1>1. /\ step \in [Thread -> Nat] /\ got \in [Thread -> Seq(Value)]
      /\ writes \in [Address -> Seq([value : Value, view : View])] /\ test' = test
  BY DEF SetInv, IInv, TypeOK, Extends
<1>2. /\ \A u \in Thread \ {t} : step'[u] = step[u] /\ got'[u] = got[u]
      /\ \/ step'[t] = 1 /\ got'[t] = Append(got[t], r)
         \/ step[t] # Len(Code(Call(t).name)) /\ got'[t] = got[t]
  BY <1>1 DEF Continue
<1>3. InSet'
  <2> SUFFICES ASSUME NEW u \in Thread, Running(u)', (Call(u).name)' = "set" PROVE step'[u] = 1
    BY DEF InSet
  <2>1. CASE got'[u] = got[u]
    <3>1. Running(u) /\ Call(u).name = "set"
      BY <1>1, <2>1 DEF Running, Call
    <3>2. step[u] = 1 /\ (u = t => step[t] = Len(Code(Call(t).name)))
      BY <3>1, SetAccess DEF SetInv
    <3> QED
      BY <1>1, <1>2, <2>1, <3>2
  <2>2. CASE got'[u] # got[u]
    BY <1>2, <2>2
  <2> QED
    BY <2>1, <2>2
<1>4. SetReplaces'
  <2> SUFFICES ASSUME NEW d \in Done({"set"})'
               PROVE  \E i \in 1 .. Len(writes'[CallOf(d)'.at]) - 1 :
                         /\ writes'[CallOf(d)'.at][i].value = got'[d[1]][d[2]]
                         /\ writes'[CallOf(d)'.at][i + 1].value = CallOf(d)'.value
    BY DEF SetReplaces, Result
  <2>1. PICK c : c = CallOf(d) /\ c = CallOf(d)'
    BY <1>1 DEF CallOf
  <2>2. d[1] \in Thread /\ d \in Thread \X Nat /\ d[2] \in 1 .. Len(got'[d[1]]) /\ c.name = "set"
    BY <2>1, Positions DEF Done, Returned
  <2>3. CASE d[2] <= Len(got[d[1]])
    <3>1. d[2] \in 1 .. Len(got[d[1]]) /\ Len(got[d[1]]) \in Nat
      BY <1>1, <2>2, <2>3
    <3>2. d \in Done({"set"})
      BY <2>1, <2>2, <3>1, Positions DEF Done, Returned
    <3>3. PICK i \in 1 .. Len(writes[c.at]) - 1 : /\ writes[c.at][i].value = got[d[1]][d[2]]
                                                  /\ writes[c.at][i + 1].value = c.value
      BY <2>1, <3>2 DEF SetInv, SetReplaces, Result
    <3>4. c.at \in Address
      <4>1. test.program[d[1]] \in Seq(Calls) /\ Len(got[d[1]]) <= Len(test.program[d[1]])
        BY <2>2, AtomicPointerAssumption DEF SetInv, IInv, TypeOK, InCall
      <4>2. PICK p : p = test.program[d[1]]
        OBVIOUS
      <4>3. p \in Seq(Calls) /\ Len(p) \in Nat /\ Len(got[d[1]]) <= Len(p)
        BY <4>1, <4>2
      <4>4. d[2] \in 1 .. Len(p)
        BY <3>1, <4>3
      <4>5. c \in Calls
        <5>1. c = p[d[2]]
          BY <2>1, <4>2 DEF CallOf
        <5> QED
          BY <4>3, <4>4, <5>1
      <4> QED
        BY <4>5 DEF Calls
    <3>5. PICK old, new : old = writes[c.at] /\ new = writes'[c.at]
      OBVIOUS
    <3>6. Len(old) \in Nat /\ Len(new) >= Len(old) /\ \A k \in 1 .. Len(old) : new[k] = old[k]
      BY <1>1, <3>4, <3>5 DEF Extends
    <3>7. Len(new) \in Nat
      BY <1>1, <3>4, <3>5 DEF SetInv, IInv, TypeOK
    <3>8. new[i] = old[i] /\ new[i + 1] = old[i + 1] /\ i \in 1 .. Len(new) - 1
      BY <3>3, <3>5, <3>6, <3>7
    <3>9. got'[d[1]][d[2]] = got[d[1]][d[2]]
      <4>1. CASE d[1] = t
        <5>1. got[t] \in Seq(Value) /\ d[2] \in 1 .. Len(got[t])
          BY <1>1, <3>1, <4>1
        <5>2. Append(got[t], r)[d[2]] = got[t][d[2]]
          BY <5>1
        <5> QED
          BY <1>2, <4>1, <5>2
      <4>2. CASE d[1] # t
        BY <1>2, <2>2, <4>2
      <4> QED
        BY <4>1, <4>2
    <3> QED
      BY <2>1, <3>3, <3>5, <3>8, <3>9
  <2>4. CASE ~(d[2] <= Len(got[d[1]]))
    <3>1. got'[d[1]] # got[d[1]] /\ d[1] = t /\ got'[t] = Append(got[t], r)
      BY <1>1, <1>2, <2>2, <2>4
    <3>2. got[t] \in Seq(Value) /\ d[2] \in 1 .. Len(Append(got[t], r)) /\ ~(d[2] <= Len(got[t]))
      BY <1>1, <2>2, <2>4, <3>1
    <3>3. d[2] = Len(got[t]) + 1 /\ Append(got[t], r)[d[2]] = r
      BY <3>2, SMTT(20)
    <3>4. c = Call(t) /\ got'[d[1]][d[2]] = r
      BY <2>1, <3>1, <3>3 DEF Call, CallOf
    <3> QED
      BY <2>1, <2>2, <3>4
  <2> QED
    BY <2>3, <2>4
<1> QED
  BY <1>3, <1>4

\* Every step keeps what set has returned.
LEMMA SetStep == Strong /\ SetInv /\ [Next]_vars => SetInv'
<1> SUFFICES ASSUME Strong, SetInv, [Next]_vars PROVE InSet' /\ SetReplaces'
  <2>1. SetInv /\ [Next]_vars => IInv'
    BY IInvStep, Zenon DEF SetInv
  <2> QED
    BY <2>1, Zenon DEF SetInv
<1>1. CASE UNCHANGED vars
  BY <1>1 DEF vars, SetInv, InSet, SetReplaces, Running, Call, Done, Returned, CallOf, Result
<1> USE DEF SetInv
<1>2. ASSUME NEW t \in Thread, LoadWord(t) PROVE InSet' /\ SetReplaces'
  <2>1. Call(t).at \in Address /\ Running(t) /\ Call(t).name # "set"
    BY <1>2, CallType, SetAccess DEF LoadWord, At, Calls, Cas
  <2>2. PICK i \in 1 .. Len(writes[Call(t).at]) :
          /\ Read(t, Call(t).at, i, Access(t).order)
          /\ Continue(t, writes[Call(t).at][i].value)
    BY <1>2 DEF LoadWord
  <2>3. writes[Call(t).at][i].value \in Value /\ Extends
    BY <1>2, <2>1, <2>2, ReadType, ReadExtends DEF LoadWord
  <2> QED
    BY <2>1, <2>2, <2>3, SetContinues
<1>3. ASSUME NEW t \in Thread, StoreWord(t) PROVE InSet' /\ SetReplaces'
  <2>1. Call(t) \in Calls /\ NoView \in View /\ Running(t) /\ Call(t).name # "set"
    BY <1>3, CallType, SetAccess DEF StoreWord, At, NoView, View, Cas
  <2>2. Extends
    BY <1>3, <2>1, WriteExtends DEF StoreWord, Calls
  <2> QED
    BY <1>3, <2>1, <2>2, ValueFacts, SetContinues DEF StoreWord
<1>4. ASSUME NEW t \in Thread, AddWord(t) PROVE InSet' /\ SetReplaces'
  <2>1. Call(t) \in Calls /\ Running(t) /\ Call(t).name # "set"
    BY <1>4, CallType, SetAccess DEF AddWord, At, Cas
  <2>2. Call(t).at \in Address /\ Diff(Call(t)) \in Nat
    BY <2>1, AtomicPointerAssumption DEF Calls, Diff, Value
  <2>3. Last(Call(t).at).value \in Value /\ Last(Call(t).at).view \in View
    BY <2>2, LastType
  <2>4. (Last(Call(t).at).value + Diff(Call(t))) % Word \in Value
    BY <2>2, <2>3, SumType
  <2>5. Extends
    BY <1>4, <2>1, <2>2, <2>3, <2>4, WriteExtends DEF AddWord
  <2> QED
    BY <1>4, <2>1, <2>3, <2>5, ResultType, SetContinues DEF AddWord
<1>5. ASSUME NEW t \in Thread, FenceMemory(t) PROVE InSet' /\ SetReplaces'
  <2>1. Running(t) /\ Call(t).name # "set"
    BY <1>5, SetAccess DEF FenceMemory, At, Cas
  <2>2. Extends
    BY <1>5, ReadExtends DEF FenceMemory
  <2>3. (IF reg[t] = NULL THEN 0 ELSE reg[t]) \in Value
    BY ValueFacts DEF IInv, TypeOK
  <2> QED
    BY <1>5, <2>1, <2>2, <2>3, SetContinues DEF FenceMemory
<1>6. ASSUME NEW t \in Thread, CasSucceeds(t) PROVE InSet' /\ SetReplaces'
  <2>1. Call(t) \in Calls /\ Running(t) /\ AtCas(t)
    BY <1>6, CallType DEF CasSucceeds, AtCas, At
  <2>2. Call(t).at \in Address /\ Call(t).value \in Value
    BY <2>1 DEF Calls
  <2>3. Last(Call(t).at).value \in Value /\ Last(Call(t).at).view \in View
    BY <2>2, LastType
  <2>4. New(t) \in Value
    BY <2>1, NewType
  <2>5. /\ Write(t, Call(t).at, New(t), Access(t).order, Last(Call(t).at).view) /\ test' = test
        /\ Last(Call(t).at).value = Expect(t) /\ Continue(t, Swapped(Call(t), TRUE, Expect(t)))
    BY <1>6 DEF CasSucceeds
  <2>6. Extends
    BY <2>2, <2>3, <2>4, <2>5, WriteExtends
  <2>7. ASSUME Call(t).name = "set"
        PROVE  \E i \in 1 .. Len(writes'[Call(t).at]) - 1 :
                 /\ writes'[Call(t).at][i].value = Swapped(Call(t), TRUE, Expect(t))
                 /\ writes'[Call(t).at][i + 1].value = Call(t).value
    <3> DEFINE n == Len(writes[Call(t).at])
    <3>1. Swapped(Call(t), TRUE, Expect(t)) = Expect(t) /\ New(t) = Call(t).value
      BY <2>7 DEF Swapped, New, Loops
    <3>2. n \in Nat /\ n >= 1 /\ Len(writes'[Call(t).at]) = n + 1
      BY <2>2, <2>3, <2>4, <2>5, WriteType DEF IInv, InCall
    <3>3. writes'[Call(t).at][n + 1].value = New(t) /\ writes'[Call(t).at][n] = writes[Call(t).at][n]
      BY <2>2, <2>3, <2>4, <2>5, <3>2, WriteType
    <3>4. writes[Call(t).at][n].value = Expect(t)
      BY <2>5 DEF Last
    <3> HIDE DEF n
    <3>5. n \in 1 .. Len(writes'[Call(t).at]) - 1
      BY <3>2
    <3>6. /\ writes'[Call(t).at][n].value = Swapped(Call(t), TRUE, Expect(t))
          /\ writes'[Call(t).at][n + 1].value = Call(t).value
      BY <3>1, <3>3, <3>4 DEF n
    <3> QED
      BY <3>5, <3>6
  <2>8. Swapped(Call(t), TRUE, Expect(t)) \in Value
    BY <2>1, <2>3, <2>5, ResultType
  <2> QED
    BY <2>1, <2>5, <2>6, <2>7, <2>8, SetContinues
<1>7. ASSUME NEW t \in Thread, CasFails(t) PROVE InSet' /\ SetReplaces'
  <2>1. Call(t) \in Calls /\ Running(t) /\ AtCas(t) /\ Call(t).at \in Address
    BY <1>7, CallType DEF CasFails, AtCas, At, Calls
  <2>2. PICK i \in 1 .. Len(writes[Call(t).at]) :
          /\ writes[Call(t).at][i].value # Expect(t) \/ Access(t).op = "weakcas"
          /\ Read(t, Call(t).at, i, Access(t).order)
          /\ Retry(t, writes[Call(t).at][i].value)
    BY <1>7 DEF CasFails
  <2> DEFINE v == writes[Call(t).at][i].value
  <2>3. v \in Value /\ writes' = writes /\ test' = test
    BY <1>7, <2>1, <2>2, ReadType DEF CasFails
  <2>4. Extends
    BY <2>3, ReadExtends
  <2>5. Call(t).name = "set" => v # Expect(t)
    BY <2>1, <2>2, SetAccess DEF Cas
  <2> HIDE DEF v
  <2>6. \/ Again(t) \/ AgainWith(t, v)
        \/ Continue(t, Swapped(Call(t), FALSE, v)) /\ Call(t).name # "set"
    BY <2>2, <2>5 DEF Retry, v, Loops
  <2>7. CASE Again(t) \/ AgainWith(t, v)
    <3>1. UNCHANGED <<test, writes, got>> /\ \A u \in Thread : step'[u] = step[u] \/ step'[u] = 1
      BY <2>3, <2>7 DEF Again, AgainWith, IInv, TypeOK
    <3> QED
      BY <3>1 DEF InSet, SetReplaces, Running, Call, Done, Returned, CallOf, Result
  <2>8. CASE Continue(t, Swapped(Call(t), FALSE, v)) /\ Call(t).name # "set"
    BY <2>1, <2>3, <2>4, <2>8, ResultType, SetContinues
  <2> QED
    BY <2>6, <2>7, <2>8
<1> QED
  BY <1>1, <1>2, <1>3, <1>4, <1>5, <1>6, <1>7 DEF Next

\* "Spins in a CAS loop until the store succeeds; returns the previous value": so it does for
\* all programs whose sets run on mintomic, where a swap does not fail spuriously.
THEOREM SetReplacesTheorem == Strong => (Spec => []SetReplaces)
<1> SUFFICES ASSUME Strong PROVE Spec => []SetReplaces
  OBVIOUS
<1>1. Init => SetInv
  BY IInvInit, NothingReturned DEF Init, SetInv, InSet, SetReplaces
<1>2. SetInv /\ [Next]_vars => SetInv'
  BY SetStep
<1>3. SetInv => SetReplaces
  BY DEF SetInv
<1> QED
  BY <1>1, <1>2, <1>3, PTL DEF Spec

-----------------------------------------------------------------------------
(* Numbers that are given out. *)

All == {d \in Thread \X Nat : d[2] \in 1 .. Len(test.program[d[1]])}

\* The programs do nothing but add 1 to one counter, no more often than it can count.
Counting == \A x \in Test : x.name = "numbers" =>
    /\ x.kind = "pointer"
    /\ \E a \in Address : \A t \in Thread : \A k \in 1 .. Len(x.program[t]) :
          /\ x.program[t][k].at = a
          /\ x.program[t][k].name \in Adders /\ Diff(x.program[t][k]) = 1
    /\ LET all == {d \in Thread \X Nat : d[2] \in 1 .. Len(x.program[d[1]])}
       IN IsFiniteSet(all) /\ Cardinality(all) <= Word

\* The calls whose addition has been made: they are over, or at the fence behind it.
Pending(t) == Running(t) /\ step[t] = 2 /\ Call(t).name \notin Loops

Made == {d \in All : \/ d[2] <= Len(got[d[1]])
                     \/ d[2] = Len(got[d[1]]) + 1 /\ Pending(d[1])}

\* The value that the addition of d has found.
Given(d) == LET r == IF d[2] <= Len(got[d[1]]) THEN got[d[1]][d[2]] ELSE reg[d[1]]
            IN IF CallOf(d).name \in {"add", "add_relaxed"} THEN (r + Word - 1) % Word ELSE r

InCode == \A t \in Thread : Running(t) => step[t] <= Len(Code(Call(t).name))

\* All calls are at a.
Counter(a) == /\ test.kind = "pointer" /\ IsFiniteSet(All) /\ Cardinality(All) <= Word
              /\ \A d \in All : CallOf(d).at = a /\ CallOf(d).name \in Adders /\ Diff(CallOf(d)) = 1

\* The counter counts the additions, and each has found a value of its own.
Numbered(a) == /\ Cardinality(Made) = Len(writes[a]) - 1
               /\ \A i \in 1 .. Len(writes[a]) : i <= Word => writes[a][i].value = i - 1
               /\ \A d \in Made : Given(d) \in 0 .. Len(writes[a]) - 2
               /\ \A d, e \in Made : d # e => Given(d) # Given(e)

NumbersInv == /\ IInv
              /\ test.name = "numbers" =>
                    InCode /\ \E a \in Address : Counter(a) /\ Numbered(a)

\* Adding without a loop is one access, with a fence behind it or not.
LEMMA AdderCode ==
    ASSUME Known, test.kind = "pointer", NEW name \in Adders \ Loops
    PROVE  /\ Code(name)[1].op = "add" /\ Len(Code(name)) \in {1, 2}
           /\ Len(Code(name)) = 2 => Code(name)[2].op = "fence"
<1>1. Code(name) = Basic["add"] \/ Code(name) = Basic["add_relaxed"]
  BY DEF Code, Integer, Adders, Loops
<1>2. CASE C11
  BY <1>1, <1>2, BasicCode DEF Add
<1>3. CASE ~C11
  BY <1>1, <1>3, BasicCode DEF Add, Fence
<1> QED
  BY <1>2, <1>3

\* What an addition of 1 that has found n returns, brought back to n.
LEMMA FoundBack ==
    ASSUME NEW n \in Nat, n < Word, NEW c, Diff(c) = 1
    PROVE  /\ (n + Diff(c)) % Word = IF n + 1 = Word THEN 0 ELSE n + 1
           /\ c.name \in {"add", "add_relaxed"} => (Added(c, n) + Word - 1) % Word = n
           /\ c.name \notin {"add", "add_relaxed"} => Added(c, n) = n
<1>1. Word \in Nat \ {0, 1}
  BY AtomicPointerAssumption
<1>2. (n + 1) % Word = IF n + 1 = Word THEN 0 ELSE n + 1
  <2>1. CASE n + 1 < Word
    BY <1>1, <2>1
  <2>2. CASE n + 1 = Word
    BY <1>1, <2>2
  <2> QED
    BY <1>1, <2>1, <2>2
<1>3. (((n + 1) % Word) + (Word - 1)) % Word = n
  <2>1. CASE n + 1 < Word
    BY <1>1, <1>2, <2>1
  <2>2. CASE n + 1 = Word
    BY <1>1, <1>2, <2>2
  <2> QED
    BY <1>1, <2>1, <2>2
<1>4. (((n + 1) % Word) + Word - 1) % Word = n
  BY <1>1, <1>2, <1>3
<1> QED
  BY <1>1, <1>2, <1>3, <1>4 DEF Added

\* Where a running call of an addition is.
LEMMA AdderSteps ==
    ASSUME Known, test.kind = "pointer", NEW t \in Thread, Call(t).name \in Adders,
           step[t] \in Nat, step[t] >= 1, step[t] <= Len(Code(Call(t).name))
    PROVE  /\ Call(t).name \in Loops =>
                \/ Access(t).op \in {"load", "fence"} /\ step[t] < Len(Code(Call(t).name))
                \/ Access(t).op \in {"cas", "weakcas"} /\ step[t] = Len(Code(Call(t).name))
           /\ Call(t).name \notin Loops =>
                \/ step[t] = 1 /\ Access(t).op = "add" /\ Len(Code(Call(t).name)) \in {1, 2}
                \/ step[t] = 2 /\ Access(t).op = "fence" /\ Len(Code(Call(t).name)) = 2
<1>6. ASSUME Call(t).name \in Loops
      PROVE  \/ Access(t).op \in {"load", "fence"} /\ step[t] < Len(Code(Call(t).name))
             \/ Access(t).op \in {"cas", "weakcas"} /\ step[t] = Len(Code(Call(t).name))
  <2> DEFINE code == Code(Call(t).name)
  <2>1. \/ code[1].op = "load" /\ Len(code) = 2 /\ code[2].op \in {"cas", "weakcas"}
        \/ code[1].op = "load" /\ Len(code) = 3 /\ code[2].op = "fence" /\ code[3].op \in {"cas", "weakcas"}
    <3>1. CASE C11
      BY <1>6, <3>1, LoopCode DEF Loops, Load, WeakCas
    <3>2. CASE ~C11
      BY <1>6, <3>2, LoopCode DEF Loops, Load, Cas, Fence
    <3> QED
      BY <3>1, <3>2
  <2>2. Access(t) = code[step[t]]
    BY DEF Access
  <2> HIDE DEF code
  <2>3. step[t] \in 1 .. Len(code)
    BY DEF code
  <2>4. CASE Len(code) = 2
    BY <2>1, <2>2, <2>3, <2>4 DEF code
  <2>5. CASE Len(code) = 3
    BY <2>1, <2>2, <2>3, <2>5 DEF code
  <2> QED
    BY <2>1, <2>4, <2>5
<1>7. ASSUME Call(t).name \notin Loops
      PROVE  \/ step[t] = 1 /\ Access(t).op = "add" /\ Len(Code(Call(t).name)) \in {1, 2}
             \/ step[t] = 2 /\ Access(t).op = "fence" /\ Len(Code(Call(t).name)) = 2
  <2> DEFINE code == Code(Call(t).name)
  <2>1. code[1].op = "add" /\ Len(code) \in {1, 2} /\ (Len(code) = 2 => code[2].op = "fence")
    BY <1>7, AdderCode
  <2>2. Access(t) = code[step[t]] /\ step[t] \in 1 .. Len(code)
    BY DEF Access
  <2> HIDE DEF code
  <2>3. step[t] \in {1, 2}
    BY <2>1, <2>2
  <2> QED
    BY <2>1, <2>2, <2>3 DEF code
<1> QED
  BY <1>6, <1>7

\* No code of an addition is empty.
LEMMA AdderCodes == ASSUME Known, test.kind = "pointer", NEW name \in Adders
                      PROVE  Len(Code(name)) \in Nat /\ Len(Code(name)) >= 1
<1>1. CASE name \in Loops
  <2>1. CASE C11
    BY <1>1, <2>1, LoopCode, SMTT(20) DEF Loops
  <2>2. CASE ~C11
    BY <1>1, <2>2, LoopCode, SMTT(20) DEF Loops
  <2> QED
    BY <2>1, <2>2
<1>2. CASE name \notin Loops
  BY <1>2, AdderCode
<1> QED
  BY <1>1, <1>2

\* Where a running thread is in its call.
LEMMA AdderAccess ==
    ASSUME IInv, InCode, NEW a \in Address, Counter(a), NEW t \in Thread, Running(t)
    PROVE  /\ <<t, Len(got[t]) + 1>> \in All
           /\ Call(t) \in Calls /\ Call(t).at = a /\ Call(t).name \in Adders /\ Diff(Call(t)) = 1
           /\ Call(t).name \in Loops =>
                \/ Access(t).op \in {"load", "fence"} /\ step[t] < Len(Code(Call(t).name))
                \/ Access(t).op \in {"cas", "weakcas"} /\ step[t] = Len(Code(Call(t).name))
           /\ Call(t).name \notin Loops =>
                \/ step[t] = 1 /\ Access(t).op = "add" /\ Len(Code(Call(t).name)) \in {1, 2}
                \/ step[t] = 2 /\ Access(t).op = "fence" /\ Len(Code(Call(t).name)) = 2
<1>1. Call(t) \in Calls /\ Known
  BY CallType
<1>2. Len(got[t]) \in Nat /\ Len(test.program[t]) \in Nat
  <2>1. got[t] \in Seq(Value) /\ test.program[t] \in Seq(Calls)
    BY AtomicPointerAssumption DEF IInv, TypeOK
  <2> QED
    BY <2>1
<1>3. <<t, Len(got[t]) + 1>> \in All
  BY <1>2 DEF All, Running
<1>4. Call(t).at = a /\ Call(t).name \in Adders /\ Diff(Call(t)) = 1 /\ test.kind = "pointer"
  BY <1>3 DEF Counter, CallOf, Call
<1>5. step[t] \in Nat /\ step[t] >= 1 /\ step[t] <= Len(Code(Call(t).name))
  BY DEF IInv, TypeOK, InCall, InCode
<1> QED
  BY <1>1, <1>3, <1>4, <1>5, AdderSteps

\* An access leads to the next, to the next call, or back to the first.
LEMMA InCodeStep ==
    ASSUME IInv, InCode, IInv', NEW a \in Address, Counter(a), NEW t \in Thread, Running(t), test' = test,
           (\E r \in Value : Continue(t, r)) \/ Again(t)
    PROVE  InCode'
<1> SUFFICES ASSUME NEW u \in Thread, Running(u)' PROVE step'[u] <= Len(Code(Call(u).name)')
  BY DEF InCode
<1>1. /\ step \in [Thread -> Nat] /\ got \in [Thread -> Seq(Value)]
      /\ \A name : Code(name)' = Code(name)
  BY DEF IInv, TypeOK, Code, Basic
<1>2. <<u, Len(got'[u]) + 1>> \in All /\ Call(u)' = CallOf(<<u, Len(got'[u]) + 1>>) /\ Known
  <2>1. got'[u] \in Seq(Value) /\ test.program[u] \in Seq(Calls) /\ Known
    BY AtomicPointerAssumption DEF IInv, TypeOK, Known
  <2>2. Len(got'[u]) < Len(test.program[u])
    BY DEF Running
  <2> QED
    BY <2>1, <2>2 DEF All, Call, CallOf
<1>3. CASE step'[u] = 1
  <2>1. test.kind = "pointer" /\ CallOf(<<u, Len(got'[u]) + 1>>).name \in Adders
    BY <1>2 DEF Counter
  <2> QED
    BY <1>1, <1>2, <1>3, <2>1, AdderCodes
<1>4. CASE step'[u] # 1
  <2>1. \/ u # t /\ step'[u] = step[u] /\ got'[u] = got[u]
        \/ u = t /\ step'[u] = step[u] + 1 /\ got'[u] = got[u] /\ step[u] # Len(Code(Call(u).name))
    BY <1>1, <1>4 DEF Continue, Again
  <2>2. Running(u) /\ Call(u)' = Call(u)
    BY <2>1 DEF Running, Call
  <2>3. step[u] \in Nat /\ step[u] <= Len(Code(Call(u).name)) /\ Len(Code(Call(u).name)) \in Nat
    BY <1>1, <2>2 DEF InCode
  <2> QED
    BY <1>1, <2>1, <2>2, <2>3
<1> QED
  BY <1>3, <1>4

\* A step without an addition changes nothing of what was given out.
LEMMA NothingMade ==
    ASSUME IInv, NEW a \in Address, Counter(a), Numbered(a), writes' = writes, Made' = Made, test' = test,
           \A d \in Made : Given(d)' = Given(d)
    PROVE  Counter(a)' /\ Numbered(a)'
  BY DEF Counter, Numbered, All, CallOf

\* An addition that finds as many as there were before gives that number to its call.
LEMMA OneMade ==
    ASSUME IInv, NEW a \in Address, Counter(a), Numbered(a), test' = test,
           NEW d \in All, d \notin Made, Made' = Made \cup {d},
           NEW t \in Thread, NEW v \in Value, NEW order, NEW from \in View, Write(t, a, v, order, from),
           Len(writes[a]) <= Word =>
              /\ v = (IF Len(writes[a]) = Word THEN 0 ELSE Len(writes[a]))
              /\ Given(d)' = Len(writes[a]) - 1,
           \A e \in Made : Given(e)' = Given(e)
    PROVE  Counter(a)' /\ Numbered(a)'
<1> DEFINE n == Len(writes[a])
<1>1. n \in Nat /\ n >= 1 /\ Word \in Nat
  BY AtomicPointerAssumption DEF IInv, TypeOK, InCall
<1>2. /\ Len(writes'[a]) = n + 1 /\ writes'[a][n + 1].value = v
      /\ \A i \in 1 .. n : writes'[a][i] = writes[a][i]
  BY WriteType
<1>3. IsFiniteSet(Made) /\ IsFiniteSet(Made') /\ Cardinality(Made') = n /\ n <= Word
  <2>1. IsFiniteSet(Made) /\ Made \cup {d} \subseteq All
    BY FS_Subset DEF Counter, Made
  <2>2. Cardinality(Made) = n - 1 /\ Cardinality(Made) \in Nat
    BY <2>1, FS_CardinalityType DEF Numbered
  <2>3. IsFiniteSet(Made \cup {d}) /\ Cardinality(Made \cup {d}) = Cardinality(Made) + 1
    BY <2>1, FS_AddElement
  <2>4. Cardinality(Made \cup {d}) <= Cardinality(All) /\ Cardinality(All) \in Nat /\ Cardinality(All) <= Word
    BY <2>1, FS_Subset, FS_CardinalityType DEF Counter
  <2> QED
    BY <1>1, <2>1, <2>2, <2>3, <2>4
<1>4. v = (IF n = Word THEN 0 ELSE n) /\ Given(d)' = n - 1
  BY <1>3
<1>5. Counter(a)'
  BY DEF Counter, All, CallOf
<1> HIDE DEF n
<1>6. Cardinality(Made') = Len(writes'[a]) - 1
  BY <1>1, <1>2, <1>3
<1>7. ASSUME NEW i \in 1 .. Len(writes'[a]), i <= Word PROVE writes'[a][i].value = i - 1
  <2>1. CASE i \in 1 .. n
    BY <1>2, <1>7, <2>1 DEF Numbered, n
  <2>2. CASE i = n + 1
    BY <1>1, <1>2, <1>4, <1>7, <2>2
  <2> QED
    BY <1>1, <1>2, <2>1, <2>2
<1>8. \A e \in Made : Given(e)' \in 0 .. n - 2 /\ \A f \in Made : e # f => Given(e)' # Given(f)'
  BY DEF Numbered, n
<1>9. \A e \in Made' : Given(e)' \in 0 .. Len(writes'[a]) - 2
  BY <1>1, <1>2, <1>4, <1>8
<1>10. ASSUME NEW e \in Made', NEW f \in Made', e # f PROVE Given(e)' # Given(f)'
  BY <1>1, <1>4, <1>8, <1>10
<1> QED
  BY <1>5, <1>6, <1>7, <1>9, <1>10 DEF Numbered

\* What the last write to the counter has is the number of the additions.
LEMMA LastNumber == ASSUME IInv, NEW a \in Address, Numbered(a), Len(writes[a]) <= Word
                    PROVE  Last(a).value = Len(writes[a]) - 1
<1>1. Len(writes[a]) \in 1 .. Len(writes[a])
  BY DEF IInv, TypeOK, InCall
<1> QED
  BY <1>1 DEF Numbered, Last

\* The calls that are over, and the pending ones, before and after thread t goes on or returns r.
LEMMA MadeBy ==
    ASSUME IInv, NEW t \in Thread, Running(t), NEW r \in Value, Continue(t, r), test' = test,
           NEW me, me = <<t, Len(got[t]) + 1>>
    PROVE  LET returns == step[t] = Len(Code(Call(t).name))
               after == returns \/ (step[t] = 1 /\ Call(t).name \notin Loops)
           IN /\ me \in All => me \in Made <=> Pending(t)
              /\ me \in All /\ after => Made' = Made \cup {me}
              /\ ~after /\ ~Pending(t) => Made' = Made
              /\ \A e \in Made : e # me => Given(e)' = Given(e)
              /\ after => Given(me)' = IF Call(t).name \in {"add", "add_relaxed"}
                                       THEN (r + Word - 1) % Word ELSE r
              /\ Pending(t) => Given(me) = IF Call(t).name \in {"add", "add_relaxed"}
                                           THEN (reg[t] + Word - 1) % Word ELSE reg[t]
<1> DEFINE returns == step[t] = Len(Code(Call(t).name))
           after == returns \/ (step[t] = 1 /\ Call(t).name \notin Loops)
<1>1. /\ step \in [Thread -> Nat] /\ got \in [Thread -> Seq(Value)] /\ reg \in [Thread -> Value \cup {NULL}]
      /\ \A u \in Thread : Len(got[u]) \in Nat
  BY DEF IInv, TypeOK
<1>2. /\ \A u \in Thread \ {t} : step'[u] = step[u] /\ got'[u] = got[u] /\ reg'[u] = reg[u]
      /\ returns => step'[t] = 1 /\ got'[t] = Append(got[t], r)
      /\ ~returns => step'[t] = step[t] + 1 /\ got'[t] = got[t] /\ reg'[t] = r
  BY <1>1 DEF Continue
<1>3. \A u \in Thread \ {t} : Pending(u)' = Pending(u)
  BY <1>2 DEF Pending, Running, Call
<1>4. /\ returns => ~Pending(t)'
      /\ ~returns => (Pending(t)' <=> step[t] = 1 /\ Call(t).name \notin Loops)
  BY <1>1, <1>2 DEF Pending, Running, Call
<1>5. CallOf(me) = Call(t) /\ \A e : CallOf(e)' = CallOf(e)
  BY DEF CallOf, Call
<1>6. All' = All
  BY DEF All
<1>7. returns => Len(got'[t]) = Len(got[t]) + 1 /\ got'[t][Len(got[t]) + 1] = r
                 /\ \A k \in 1 .. Len(got[t]) : got'[t][k] = got[t][k]
  <2>1. got[t] \in Seq(Value)
    BY <1>1
  <2>2. /\ Len(Append(got[t], r)) = Len(got[t]) + 1 /\ Append(got[t], r)[Len(got[t]) + 1] = r
        /\ \A k \in 1 .. Len(got[t]) : Append(got[t], r)[k] = got[t][k]
    BY <2>1
  <2> QED
    BY <1>2, <2>2
<1>8. me \in All => (me \in Made <=> Pending(t))
  BY <1>1 DEF Made
<1>9. ASSUME NEW d \in All, d # me
      PROVE  d \in Made' <=> d \in Made
  <2>1. d \in Thread \X Nat /\ (d[1] = t => d[2] # Len(got[t]) + 1)
    BY <1>9 DEF All
  <2>2. CASE d[1] = t
    BY <1>1, <1>2, <1>4, <1>6, <1>7, <2>1, <2>2 DEF Made
  <2>3. CASE d[1] # t
    BY <1>2, <1>3, <1>6, <2>1, <2>3 DEF Made
  <2> QED
    BY <2>2, <2>3
<1>10. me \in All => (me \in Made' <=> after)
  BY <1>1, <1>2, <1>4, <1>6, <1>7 DEF Made
<1>11. Made \subseteq All /\ Made' \subseteq All
  BY <1>6 DEF Made
<1>12. ASSUME NEW e \in Made, e # me PROVE Given(e)' = Given(e)
  <2>1. e \in Thread \X Nat /\ e[2] >= 1 /\ (e[1] = t => e[2] # Len(got[t]) + 1)
    BY <1>12, <1>11 DEF All
  <2>2. CASE e[1] = t
    <3>1. e[2] \in 1 .. Len(got[t]) /\ e[2] <= Len(got'[t])
      BY <1>1, <1>2, <1>7, <1>12, <2>1, <2>2 DEF Made
    <3>2. got'[t][e[2]] = got[t][e[2]]
      BY <1>2, <1>7, <3>1
    <3> QED
      BY <1>5, <2>2, <3>1, <3>2 DEF Given
  <2>3. CASE e[1] # t
    BY <1>2, <1>5, <2>1, <2>3 DEF Given
  <2> QED
    BY <2>2, <2>3
<1>13. ASSUME after
       PROVE  Given(me)' = IF Call(t).name \in {"add", "add_relaxed"} THEN (r + Word - 1) % Word ELSE r
  <2>1. (IF me[2] <= Len(got'[me[1]]) THEN got'[me[1]][me[2]] ELSE reg'[me[1]]) = r
    <3>1. me[1] = t /\ me[2] = Len(got[t]) + 1 /\ Len(got[t]) \in Nat
      BY <1>1
    <3>2. CASE returns
      BY <1>2, <1>7, <3>1, <3>2
    <3>3. CASE ~returns
      BY <1>2, <3>1, <3>3
    <3> QED
      BY <3>2, <3>3
  <2> QED
    BY <1>5, <2>1 DEF Given
<1>14. Given(me) = IF Call(t).name \in {"add", "add_relaxed"} THEN (reg[t] + Word - 1) % Word ELSE reg[t]
  BY <1>1, <1>5 DEF Given
<1> HIDE DEF after
<1>15. me \in All /\ after => Made' = Made \cup {me}
  BY <1>9, <1>10, <1>11
<1>16. ASSUME ~after, ~Pending(t) PROVE Made' = Made
  <2>1. \A d \in All : d \in Made' <=> d \in Made
    BY <1>8, <1>9, <1>10, <1>16
  <2> QED
    BY <1>11, <2>1
<1> QED
  BY <1>8, <1>12, <1>13, <1>14, <1>15, <1>16 DEF after

\* Every step keeps what was given out.
LEMMA NumbersStep == NumbersInv /\ [Next]_vars => NumbersInv'
<1> SUFFICES ASSUME NumbersInv, [Next]_vars, test.name = "numbers"
             PROVE  InCode' /\ \E a \in Address : Counter(a)' /\ Numbered(a)'
  <2>1. NumbersInv /\ [Next]_vars => IInv' /\ test' = test
    BY IInvStep DEF NumbersInv, Next, vars, LoadWord, StoreWord, AddWord, FenceMemory, CasSucceeds, CasFails
  <2> QED
    BY <2>1 DEF NumbersInv
<1>1. IInv /\ IInv' /\ InCode
  BY IInvStep DEF NumbersInv
<1>2. PICK a \in Address : Counter(a) /\ Numbered(a)
  BY DEF NumbersInv
<1>3. CASE UNCHANGED vars
  <2>1. InCode'
    <3>1. \A name : Code(name)' = Code(name)
      BY <1>3 DEF vars, Code, Basic
    <3>2. \A u \in Thread : (Running(u)' <=> Running(u)) /\ Call(u)' = Call(u) /\ step'[u] = step[u]
      BY <1>3 DEF vars, Running, Call
    <3> QED
      BY <1>1, <3>1, <3>2 DEF InCode
  <2>2. Made' = Made /\ \A d \in Made : Given(d)' = Given(d)
    BY <1>3 DEF vars, Made, All, Pending, Running, Call, Given, CallOf
  <2> QED
    BY <1>1, <1>2, <1>3, <2>1, <2>2, NothingMade DEF vars
\* Going on, or returning, without an addition.
<1>4. ASSUME NEW t \in Thread, Running(t), NEW r \in Value, Continue(t, r), test' = test, writes' = writes,
             \/ Call(t).name \in Loops /\ step[t] < Len(Code(Call(t).name))
             \/ Call(t).name \notin Loops /\ step[t] = 2 /\ Len(Code(Call(t).name)) = 2 /\ r = reg[t]
      PROVE  InCode' /\ Counter(a)' /\ Numbered(a)'
  <2>1. InCode'
    BY <1>1, <1>2, <1>4, InCodeStep
  <2>2. PICK me : me = <<t, Len(got[t]) + 1>>
    OBVIOUS
  <2>3. me \in All
    BY <1>1, <1>2, <1>4, <2>2, AdderAccess
  <2>4. CASE Call(t).name \in Loops
    <3>1. ~Pending(t) /\ step[t] # Len(Code(Call(t).name))
      BY <1>1, <1>4, <2>4 DEF Pending, InCode
    <3>2. Made' = Made /\ me \notin Made
      BY <1>1, <1>4, <2>2, <2>3, <2>4, <3>1, MadeBy
    <3>3. \A e \in Made : Given(e)' = Given(e)
      BY <1>1, <1>4, <2>2, <3>2, MadeBy
    <3> QED
      BY <1>1, <1>2, <1>4, <2>1, <3>2, <3>3, NothingMade
  <2>5. CASE Call(t).name \notin Loops
    <3>1. Pending(t) /\ step[t] = Len(Code(Call(t).name))
      BY <1>4, <2>5 DEF Pending
    <3>2. me \in Made /\ Made' = Made \cup {me}
      BY <1>1, <1>4, <2>2, <2>3, <3>1, MadeBy
    <3>3. Given(me)' = Given(me) /\ \A e \in Made : e # me => Given(e)' = Given(e)
      BY <1>1, <1>4, <2>2, <2>5, <3>1, MadeBy
    <3>4. Made' = Made /\ \A e \in Made : Given(e)' = Given(e)
      BY <3>2, <3>3
    <3> QED
      BY <1>1, <1>2, <1>4, <2>1, <3>4, NothingMade
  <2> QED
    BY <2>4, <2>5
\* An addition that finds v.
<1>5. ASSUME NEW t \in Thread, Running(t), NEW r \in Value, Continue(t, r), test' = test,
             NEW w \in Value, NEW order, NEW from \in View, Write(t, a, w, order, from),
             Len(writes[a]) <= Word =>
               /\ w = (IF Len(writes[a]) = Word THEN 0 ELSE Len(writes[a]))
               /\ (IF Call(t).name \in {"add", "add_relaxed"} THEN (r + Word - 1) % Word ELSE r)
                     = Len(writes[a]) - 1,
             \/ Call(t).name \in Loops /\ step[t] = Len(Code(Call(t).name))
             \/ Call(t).name \notin Loops /\ step[t] = 1
      PROVE  InCode' /\ Counter(a)' /\ Numbered(a)'
  <2>1. InCode'
    BY <1>1, <1>2, <1>5, InCodeStep
  <2>2. PICK me : me = <<t, Len(got[t]) + 1>>
    OBVIOUS
  <2>3. me \in All /\ ~Pending(t)
    BY <1>1, <1>2, <1>5, <2>2, AdderAccess DEF Pending
  <2>4. me \notin Made /\ Made' = Made \cup {me}
    BY <1>1, <1>5, <2>2, <2>3, MadeBy
  <2>5. \A e \in Made : Given(e)' = Given(e)
    BY <1>1, <1>5, <2>2, <2>4, MadeBy
  <2>6. Given(me)' = IF Call(t).name \in {"add", "add_relaxed"} THEN (r + Word - 1) % Word ELSE r
    BY <1>1, <1>5, <2>2, MadeBy
  <2>7. Counter(a)' /\ Numbered(a)'
    BY <1>1, <1>2, <1>5, <2>3, <2>4, <2>5, <2>6, OneMade
  <2> QED
    BY <2>1, <2>7
<1>6. ASSUME NEW t \in Thread, LoadWord(t) PROVE InCode' /\ Counter(a)' /\ Numbered(a)'
  <2>1. /\ Call(t).at \in Address /\ Running(t) /\ Call(t).name \in Loops
        /\ step[t] < Len(Code(Call(t).name))
    BY <1>1, <1>2, <1>6, AdderAccess DEF LoadWord, At
  <2>2. PICK i \in 1 .. Len(writes[Call(t).at]) :
          /\ Read(t, Call(t).at, i, Access(t).order)
          /\ Continue(t, writes[Call(t).at][i].value)
    BY <1>6 DEF LoadWord
  <2>3. writes[Call(t).at][i].value \in Value /\ writes' = writes /\ test' = test
    BY <1>1, <1>6, <2>1, <2>2, ReadType DEF LoadWord
  <2> QED
    BY <1>4, <2>1, <2>2, <2>3
<1>7. ASSUME NEW t \in Thread, StoreWord(t) PROVE FALSE
  BY <1>1, <1>2, <1>7, AdderAccess DEF StoreWord, At
<1>8. ASSUME NEW t \in Thread, AddWord(t) PROVE InCode' /\ Counter(a)' /\ Numbered(a)'
  <2>1. /\ Call(t) \in Calls /\ Running(t) /\ Call(t).at = a /\ Diff(Call(t)) = 1
        /\ Call(t).name \notin Loops /\ step[t] = 1
    BY <1>1, <1>2, <1>8, AdderAccess DEF AddWord, At
  <2> DEFINE last == Last(a)
             r == Added(Call(t), last.value)
             w == (last.value + Diff(Call(t))) % Word
  <2>2. Last(a).value \in Value /\ Last(a).view \in View
    BY <1>1, LastType
  <2>3. Write(t, a, w, Access(t).order, Last(a).view) /\ Continue(t, r) /\ test' = test
    BY <1>8, <2>1 DEF AddWord
  <2>4. w \in Value /\ r \in Value
    BY <2>1, <2>2, SumType, ResultType
  <2>5. ASSUME Len(writes[a]) <= Word
        PROVE  /\ w = (IF Len(writes[a]) = Word THEN 0 ELSE Len(writes[a]))
               /\ (IF Call(t).name \in {"add", "add_relaxed"} THEN (r + Word - 1) % Word ELSE r)
                     = Len(writes[a]) - 1
    <3>1. Last(a).value = Len(writes[a]) - 1 /\ Len(writes[a]) \in Nat /\ Len(writes[a]) >= 1 /\ Word \in Nat
      <4>1. Len(writes[a]) \in Nat /\ Len(writes[a]) >= 1
        BY <1>1 DEF IInv, TypeOK, InCall
      <4>2. Last(a).value = Len(writes[a]) - 1
        BY <1>1, <1>2, <2>5, LastNumber
      <4> QED
        BY <4>1, <4>2, AtomicPointerAssumption
    <3>2. Last(a).value \in Nat /\ Last(a).value < Word
      BY <2>5, <3>1
    <3>3. /\ w = IF Last(a).value + 1 = Word THEN 0 ELSE Last(a).value + 1
          /\ Call(t).name \in {"add", "add_relaxed"} => (r + Word - 1) % Word = Last(a).value
          /\ Call(t).name \notin {"add", "add_relaxed"} => r = Last(a).value
      BY <2>1, <3>2, FoundBack
    <3> HIDE DEF w, r
    <3> QED
      BY <3>1, <3>3
  <2> HIDE DEF w, r
  <2> QED
    BY <1>5, <2>1, <2>2, <2>3, <2>4, <2>5
<1>9. ASSUME NEW t \in Thread, FenceMemory(t) PROVE InCode' /\ Counter(a)' /\ Numbered(a)'
  <2> DEFINE r == IF reg[t] = NULL THEN 0 ELSE reg[t]
  <2>1. Running(t) /\ Continue(t, r) /\ writes' = writes /\ test' = test
    BY <1>9 DEF FenceMemory, At
  <2>2. \/ Call(t).name \in Loops /\ step[t] < Len(Code(Call(t).name))
        \/ Call(t).name \notin Loops /\ step[t] = 2 /\ Len(Code(Call(t).name)) = 2
    BY <1>1, <1>2, <1>9, AdderAccess DEF FenceMemory, At
  <2>3. r \in Value /\ (step[t] = 2 => r = reg[t])
    <3>1. reg[t] \in Value \cup {NULL} /\ (step[t] = 2 => reg[t] \in Value)
      BY <1>1 DEF IInv, TypeOK, InCall
    <3> QED
      BY <3>1, ValueFacts, AtomicPointerAssumption
  <2> HIDE DEF r
  <2> QED
    BY <1>4, <2>1, <2>2, <2>3
<1>10. ASSUME NEW t \in Thread, CasSucceeds(t) PROVE InCode' /\ Counter(a)' /\ Numbered(a)'
  <2>1. /\ Call(t) \in Calls /\ Running(t) /\ AtCas(t) /\ Call(t).at = a /\ Call(t).name \in Loops
        /\ step[t] = Len(Code(Call(t).name))
    BY <1>1, <1>2, <1>10, AdderAccess DEF CasSucceeds, AtCas, At
  <2>2. Last(a).value \in Value /\ Last(a).view \in View
    BY <1>1, LastType
  <2>3. /\ Expect(t) = reg[t] /\ New(t) = (reg[t] + 1) % Word
        /\ Swapped(Call(t), TRUE, Expect(t)) = reg[t] /\ Last(a).value = reg[t]
    BY <1>10, <2>1 DEF CasSucceeds, Expect, New, Swapped, Loops
  <2>4. Write(t, a, New(t), Access(t).order, Last(a).view) /\ Continue(t, reg[t]) /\ test' = test
    BY <1>10, <2>1, <2>3 DEF CasSucceeds
  <2>5. New(t) \in Value
    BY <1>1, <2>1, NewType
  <2>6. ASSUME Len(writes[a]) <= Word
        PROVE  /\ New(t) = (IF Len(writes[a]) = Word THEN 0 ELSE Len(writes[a]))
               /\ reg[t] = Len(writes[a]) - 1
    <3>1. Last(a).value = Len(writes[a]) - 1 /\ Len(writes[a]) \in Nat /\ Len(writes[a]) >= 1 /\ Word \in Nat
      <4>1. Len(writes[a]) \in Nat /\ Len(writes[a]) >= 1
        BY <1>1 DEF IInv, TypeOK, InCall
      <4>2. Last(a).value = Len(writes[a]) - 1
        BY <1>1, <1>2, <2>6, LastNumber
      <4> QED
        BY <4>1, <4>2, AtomicPointerAssumption
    <3>2. reg[t] \in Nat /\ reg[t] < Word /\ reg[t] = Len(writes[a]) - 1
      BY <2>3, <2>6, <3>1
    <3>3. Diff(Call(t)) = 1
      BY <1>1, <1>2, <2>1, AdderAccess
    <3>4. (reg[t] + 1) % Word = IF reg[t] + 1 = Word THEN 0 ELSE reg[t] + 1
      BY <3>2, <3>3, FoundBack
    <3>5. (reg[t] + 1) % Word = IF Len(writes[a]) = Word THEN 0 ELSE Len(writes[a])
      <4>1. reg[t] + 1 = Len(writes[a])
        BY <3>1, <3>2
      <4> QED
        BY <3>4, <4>1
    <3> QED
      BY <2>3, <3>2, <3>5
  <2>7. Call(t).name \notin {"add", "add_relaxed"}
    BY <2>1 DEF Loops
  <2> QED
    BY <1>5, <2>1, <2>2, <2>3, <2>4, <2>5, <2>6, <2>7
<1>11. ASSUME NEW t \in Thread, CasFails(t) PROVE InCode' /\ Counter(a)' /\ Numbered(a)'
  <2>1. Running(t) /\ Call(t).at \in Address /\ Call(t).name \in Loops
    BY <1>1, <1>2, <1>11, AdderAccess DEF CasFails, AtCas, At
  <2>2. PICK i \in 1 .. Len(writes[Call(t).at]) :
          /\ Read(t, Call(t).at, i, Access(t).order)
          /\ Retry(t, writes[Call(t).at][i].value)
    BY <1>11 DEF CasFails
  <2>3. writes' = writes /\ test' = test
    BY <1>1, <1>11, <2>1, <2>2, ReadType DEF CasFails
  <2>4. Again(t)
    BY <2>1, <2>2 DEF Retry, Loops
  <2>5. InCode'
    BY <1>1, <1>2, <2>1, <2>3, <2>4, InCodeStep
  <2>6. /\ got' = got /\ ~Pending(t) /\ ~Pending(t)'
        /\ \A u \in Thread \ {t} : (Pending(u)' <=> Pending(u)) /\ reg'[u] = reg[u]
    BY <1>1, <2>1, <2>3, <2>4 DEF Again, Pending, Running, Call, IInv, TypeOK
  <2>7. Made' = Made
    BY <2>3, <2>6 DEF Made, All
  <2>8. \A d \in Made : Given(d)' = Given(d)
    BY <2>3, <2>6 DEF Made, All, Given, CallOf
  <2> QED
    BY <1>1, <1>2, <2>3, <2>5, <2>7, <2>8, NothingMade
<1> QED
  BY <1>2, <1>3, <1>6, <1>7, <1>8, <1>9, <1>10, <1>11 DEF Next

\* At first nothing has been given out.
LEMMA NumbersInit == Counting /\ Init => NumbersInv
<1> SUFFICES ASSUME Counting, Init, test.name = "numbers"
             PROVE  InCode /\ \E a \in Address : Counter(a) /\ Numbered(a)
  BY IInvInit DEF NumbersInv
<1>1. IInv /\ Known /\ test \in Test
  BY IInvInit, AtomicPointerAssumption DEF Init, Known
<1>2. PICK a \in Address : Counter(a)
  BY <1>1 DEF Counting, Counter, All, CallOf
<1>3. InCode
  <2> SUFFICES ASSUME NEW t \in Thread, Running(t) PROVE step[t] <= Len(Code(Call(t).name))
    BY DEF InCode
  <2>1. <<t, 1>> \in All /\ Call(t) = CallOf(<<t, 1>>) /\ step[t] = 1
    <3>1. test.program[t] \in Seq(Calls) /\ got[t] = <<>> /\ step[t] = 1
      BY <1>1, AtomicPointerAssumption DEF Init
    <3>2. Len(got[t]) + 1 = 1 /\ 1 \in 1 .. Len(test.program[t])
      BY <3>1 DEF Running
    <3> QED
      BY <3>1, <3>2 DEF All, Call, CallOf
  <2> QED
    BY <1>1, <1>2, <2>1, AdderCodes DEF Counter
<1>4. Made = {}
  BY DEF Init, Made, All, Pending
<1>5. Len(writes[a]) = 1 /\ writes[a][1].value = 0
  BY DEF Init
<1>6. Numbered(a)
  BY <1>4, <1>5, FS_EmptySet DEF Numbered
<1> QED
  BY <1>2, <1>3, <1>6

\* Threads that add 1 to a counter are all given different numbers, however many they are and
\* by whichever operation or loop they do it, as long as the counter does not wrap around.
THEOREM NumbersDifferTheorem == Counting => (Spec => []NumbersDiffer)
<1> SUFFICES ASSUME Counting PROVE Spec => []NumbersDiffer
  OBVIOUS
<1>1. Init => NumbersInv
  BY NumbersInit
<1>2. NumbersInv /\ [Next]_vars => NumbersInv'
  BY NumbersStep
<1>3. NumbersInv => NumbersDiffer
  <2> SUFFICES ASSUME NumbersInv, test.name = "numbers",
                      NEW d \in Done(Adders), NEW e \in Done(Adders), d # e
               PROVE  (IF CallOf(d).name \in {"add", "add_relaxed"} THEN (Result(d) + Word - 1) % Word
                       ELSE Result(d))
                      # IF CallOf(e).name \in {"add", "add_relaxed"} THEN (Result(e) + Word - 1) % Word
                        ELSE Result(e)
    BY DEF NumbersDiffer
  <2>1. PICK a \in Address : Numbered(a)
    BY DEF NumbersInv
  <2>2. ASSUME NEW c \in Done(Adders)
        PROVE  /\ c \in Made
               /\ Given(c) = IF CallOf(c).name \in {"add", "add_relaxed"} THEN (Result(c) + Word - 1) % Word
                             ELSE Result(c)
    <3>1. c \in Thread \X Nat /\ c[2] \in 1 .. Len(got[c[1]])
      BY <2>2, Positions DEF Done, Returned
    <3>2. Len(got[c[1]]) \in Nat /\ Len(test.program[c[1]]) \in Nat /\ Len(got[c[1]]) <= Len(test.program[c[1]])
      <4>1. test.program[c[1]] \in Seq(Calls) /\ got[c[1]] \in Seq(Value)
        BY <3>1, AtomicPointerAssumption DEF NumbersInv, IInv, TypeOK
      <4> QED
        BY <3>1, <4>1 DEF NumbersInv, IInv, InCall
    <3> QED
      BY <3>1, <3>2 DEF Made, All, Given, Result
  <2> QED
    BY <2>1, <2>2 DEF Numbered
<1> QED
  BY <1>1, <1>2, <1>3, PTL DEF Spec

-----------------------------------------------------------------------------
(* Swaps of 0 for something else. *)

\* The words of the programs are only written by such swaps.
Swapping == \A x \in Test : x.name = "swap" =>
    \A t \in Thread : \A k \in 1 .. Len(x.program[t]) :
       LET c == x.program[t][k] IN c.name = "cas_actual" /\ c.expect = 0 /\ c.value # 0

\* A word that was swapped is never 0 again, and there is one call that found it so.
SwapInv ==
    /\ IInv
    /\ test.name = "swap" =>
         /\ \A t \in Thread : Running(t) =>
               Call(t).name = "cas_actual" /\ Call(t).expect = 0 /\ Call(t).value # 0 /\ step[t] = 1
         /\ \A a \in Address : \A i \in 2 .. Len(writes[a]) : writes[a][i].value # 0
         /\ \A d \in Done({"cas_actual"}) : Result(d) = 0 => Len(writes[CallOf(d).at]) >= 2
         /\ OneSwapWins

\* A strong swap is one access.
LEMMA SwapCode == ASSUME Known
                  PROVE  Len(Code("cas_actual")) = 1 /\ Code("cas_actual")[1].op = "cas"
<1>1. Code("cas_actual") = Basic["cas"]
  BY DEF Code, Integer
<1> QED
  BY <1>1, BasicCode DEF Cas

\* Every step keeps the swaps apart.
LEMMA SwapStep == Swapping /\ SwapInv /\ [Next]_vars => SwapInv'
<1> SUFFICES ASSUME Swapping, SwapInv, [Next]_vars, test.name = "swap"
             PROVE  /\ \A t \in Thread : Running(t)' =>
                          /\ Call(t)'.name = "cas_actual" /\ Call(t)'.expect = 0 /\ Call(t)'.value # 0
                          /\ step'[t] = 1
                    /\ \A a \in Address : \A i \in 2 .. Len(writes'[a]) : writes'[a][i].value # 0
                    /\ \A d \in Done({"cas_actual"})' : Result(d)' = 0 => Len(writes'[CallOf(d)'.at]) >= 2
                    /\ OneSwapWins'
  <2>1. SwapInv /\ [Next]_vars => IInv' /\ test' = test
    BY IInvStep DEF SwapInv, Next, vars, LoadWord, StoreWord, AddWord, FenceMemory, CasSucceeds, CasFails
  <2> QED
    BY <2>1 DEF SwapInv
<1>1. CASE UNCHANGED vars
  BY <1>1 DEF vars, SwapInv, Running, Call, Done, Returned, Result, CallOf, OneSwapWins
<1>2. /\ IInv /\ Known /\ step \in [Thread -> Nat] /\ got \in [Thread -> Seq(Value)]
      /\ \A u \in Thread : test.program[u] \in Seq(Calls) /\ Len(got[u]) \in Nat
                           /\ Len(got[u]) <= Len(test.program[u]) /\ Len(test.program[u]) \in Nat
      /\ \A a \in Address : Len(writes[a]) \in Nat /\ Len(writes[a]) >= 1
  <2>1. test \in Test /\ \A u \in Thread : test.program[u] \in Seq(Calls)
    BY AtomicPointerAssumption DEF SwapInv, IInv, TypeOK
  <2>2. \A a \in Address : Len(writes[a]) \in Nat /\ Len(writes[a]) >= 1
    BY DEF SwapInv, IInv, TypeOK, InCall
  <2>3. /\ step \in [Thread -> Nat] /\ got \in [Thread -> Seq(Value)] /\ IInv
        /\ \A u \in Thread : Len(got[u]) <= Len(test.program[u])
    BY DEF SwapInv, IInv, TypeOK, InCall
  <2>4. \A u \in Thread : Len(got[u]) \in Nat /\ Len(test.program[u]) \in Nat
    BY <2>1, <2>3
  <2>5. Known
    BY <2>1, AtomicPointerAssumption DEF Known
  <2> QED
    BY <2>1, <2>2, <2>3, <2>4, <2>5
<1>3. \A u \in Thread : \A k \in 1 .. Len(test.program[u]) :
         LET c == test.program[u][k] IN c.name = "cas_actual" /\ c.expect = 0 /\ c.value # 0 /\ c.at \in Address
  <2>1. \A u \in Thread : \A k \in 1 .. Len(test.program[u]) : test.program[u][k] \in Calls
    BY <1>2
  <2> QED
    BY <2>1 DEF Swapping, SwapInv, IInv, TypeOK, Calls
<1>4. ASSUME NEW t \in Thread, Running(t)
      PROVE  /\ Call(t) \in Calls /\ Call(t).name = "cas_actual" /\ Call(t).expect = 0 /\ Call(t).value # 0
             /\ step[t] = 1 /\ Access(t).op = "cas" /\ Len(Code(Call(t).name)) = 1
  BY <1>2, <1>4, CallType, SwapCode DEF SwapInv, Access
<1>5. ASSUME NEW t \in Thread, Running(t), NEW r \in Value, Continue(t, r), test' = test,
             \A a \in Address : /\ Len(writes'[a]) \in Nat /\ Len(writes'[a]) >= Len(writes[a])
                                /\ \A i \in 2 .. Len(writes'[a]) : writes'[a][i].value # 0,
             r = 0 => Len(writes[Call(t).at]) = 1 /\ Len(writes'[Call(t).at]) = 2
      PROVE  /\ \A u \in Thread : Running(u)' =>
                   /\ Call(u)'.name = "cas_actual" /\ Call(u)'.expect = 0 /\ Call(u)'.value # 0
                   /\ step'[u] = 1
             /\ \A a \in Address : \A i \in 2 .. Len(writes'[a]) : writes'[a][i].value # 0
             /\ \A d \in Done({"cas_actual"})' : Result(d)' = 0 => Len(writes'[CallOf(d)'.at]) >= 2
             /\ OneSwapWins'
  <2>1. /\ step'[t] = 1 /\ got'[t] = Append(got[t], r)
        /\ \A u \in Thread \ {t} : step'[u] = step[u] /\ got'[u] = got[u]
    BY <1>2, <1>4, <1>5 DEF Continue
  <2>2. Len(got'[t]) = Len(got[t]) + 1 /\ got'[t][Len(got[t]) + 1] = r
        /\ \A k \in 1 .. Len(got[t]) : got'[t][k] = got[t][k]
    <3>1. got[t] \in Seq(Value)
      BY <1>2
    <3>2. /\ Len(Append(got[t], r)) = Len(got[t]) + 1 /\ Append(got[t], r)[Len(got[t]) + 1] = r
          /\ \A k \in 1 .. Len(got[t]) : Append(got[t], r)[k] = got[t][k]
      BY <3>1
    <3> QED
      BY <2>1, <3>2
  <2>3. ASSUME NEW u \in Thread, Running(u)'
        PROVE  /\ Call(u)'.name = "cas_actual" /\ Call(u)'.expect = 0 /\ Call(u)'.value # 0
               /\ step'[u] = 1
    <3>1. Len(got'[u]) \in Nat /\ Len(got'[u]) < Len(test.program[u])
      BY <1>2, <1>5, <2>1, <2>2, <2>3 DEF Running
    <3>2. Call(u)' = test.program[u][Len(got'[u]) + 1] /\ Len(got'[u]) + 1 \in 1 .. Len(test.program[u])
      BY <1>2, <1>5, <3>1 DEF Call
    <3>3. step'[u] = 1
      <4>1. CASE u = t
        BY <2>1, <4>1
      <4>2. CASE u # t
        BY <1>4, <1>5, <2>1, <2>3, <4>2 DEF Running
      <4> QED
        BY <4>1, <4>2
    <3> QED
      BY <1>3, <3>2, <3>3
  <2>4. PICK me : me = <<t, Len(got[t]) + 1>>
    OBVIOUS
  <2>5. CallOf(me) = Call(t) /\ \A d : CallOf(d)' = CallOf(d)
    BY <1>5, <2>4 DEF CallOf, Call
  <2>6. ASSUME NEW d \in Done({"cas_actual"})'
        PROVE  /\ CallOf(d).at \in Address
               /\ \/ d \in Done({"cas_actual"}) /\ Result(d)' = Result(d) /\ d # me
                  \/ d = me /\ Result(d)' = r
    <3>1. d \in Thread \X Nat /\ d[2] \in 1 .. Len(got'[d[1]]) /\ CallOf(d).name = "cas_actual"
      BY <2>5, <2>6, Positions DEF Done, Returned
    <3>2. CASE d[2] <= Len(got[d[1]])
      <4>1. d[2] \in 1 .. Len(got[d[1]]) /\ d[2] \in 1 .. Len(test.program[d[1]])
        BY <1>2, <3>1, <3>2
      <4>2. got'[d[1]][d[2]] = got[d[1]][d[2]]
        <5>1. CASE d[1] = t
          BY <2>2, <4>1, <5>1
        <5>2. CASE d[1] # t
          BY <2>1, <3>1, <5>2
        <5> QED
          BY <5>1, <5>2
      <4>3. d # me
        BY <1>2, <2>4, <3>2
      <4> QED
        BY <1>3, <3>1, <4>1, <4>2, <4>3, Positions DEF Done, Returned, Result, CallOf
    <3>3. CASE d[2] > Len(got[d[1]])
      <4>1. d[1] = t /\ d[2] = Len(got[t]) + 1
        BY <1>2, <2>1, <2>2, <3>1, <3>3
      <4>2. d = me
        BY <2>4, <3>1, <4>1
      <4>3. Result(d)' = r
        BY <2>2, <4>1 DEF Result
      <4> QED
        BY <1>4, <1>5, <2>5, <4>2, <4>3 DEF Calls
    <3> QED
      BY <1>2, <3>1, <3>2, <3>3
  <2>7. ASSUME NEW d \in Done({"cas_actual"})', Result(d)' = 0 PROVE Len(writes'[CallOf(d).at]) >= 2
    <3>1. CASE d \in Done({"cas_actual"}) /\ Result(d)' = Result(d)
      <4>1. Len(writes[CallOf(d).at]) >= 2
        BY <2>7, <3>1 DEF SwapInv
      <4> QED
        BY <1>2, <1>5, <2>6, <4>1
    <3>2. CASE d = me /\ Result(d)' = r
      BY <1>5, <2>5, <2>7, <3>2
    <3> QED
      BY <2>6, <3>1, <3>2
  <2>8. ASSUME NEW d \in Done({"cas_actual"}), Result(d) = 0, r = 0, CallOf(d).at = CallOf(me).at PROVE FALSE
    <3>1. Len(writes[CallOf(d).at]) >= 2
      BY <2>8 DEF SwapInv
    <3>2. Len(writes[CallOf(d).at]) = 1
      BY <1>5, <2>5, <2>8
    <3> QED
      BY <3>1, <3>2
  <2>9. OneSwapWins'
    <3> SUFFICES ASSUME NEW d \in Done({"cas_actual"})', NEW e \in Done({"cas_actual"})', d # e,
                        CallOf(d).at = CallOf(e).at, Result(d)' = 0, Result(e)' = 0
                 PROVE  FALSE
      BY <2>5 DEF OneSwapWins
    <3>1. CASE d = me
      BY <2>6, <2>8, <3>1
    <3>2. CASE e = me
      BY <2>6, <2>8, <3>2
    <3>3. CASE d # me /\ e # me
      BY <2>6, <3>3 DEF SwapInv, OneSwapWins
    <3> QED
      BY <3>1, <3>2, <3>3
  <2> QED
    BY <1>5, <2>3, <2>5, <2>7, <2>9
<1>6. ASSUME NEW t \in Thread, LoadWord(t) \/ StoreWord(t) \/ AddWord(t) \/ FenceMemory(t) PROVE FALSE
  BY <1>4, <1>6 DEF LoadWord, StoreWord, AddWord, FenceMemory, At
<1>7. ASSUME NEW t \in Thread, CasSucceeds(t)
      PROVE  \E r \in Value :
         /\ Running(t) /\ Continue(t, r) /\ test' = test
         /\ \A a \in Address : /\ Len(writes'[a]) \in Nat /\ Len(writes'[a]) >= Len(writes[a])
                               /\ \A i \in 2 .. Len(writes'[a]) : writes'[a][i].value # 0
         /\ (r = 0 => Len(writes[Call(t).at]) = 1 /\ Len(writes'[Call(t).at]) = 2)
  <2>1. /\ Running(t) /\ AtCas(t) /\ Call(t) \in Calls /\ Call(t).name = "cas_actual" /\ Call(t).expect = 0
        /\ Call(t).value # 0 /\ Call(t).at \in Address
    BY <1>4, <1>7 DEF CasSucceeds, AtCas, At, Calls
  <2>2. Expect(t) = 0 /\ New(t) = Call(t).value /\ Swapped(Call(t), TRUE, Expect(t)) = 0
    BY <2>1 DEF Expect, New, Swapped, Loops
  <2>3. /\ Write(t, Call(t).at, New(t), Access(t).order, Last(Call(t).at).view) /\ test' = test
        /\ Last(Call(t).at).value = 0 /\ Continue(t, 0)
    BY <1>7, <2>2 DEF CasSucceeds
  <2>4. New(t) \in Value /\ Last(Call(t).at).view \in View
    BY <1>2, <2>1, LastType, NewType
  <2>5. Len(writes[Call(t).at]) = 1
    <3> DEFINE n == Len(writes[Call(t).at])
    <3>1. n \in Nat /\ n >= 1
      BY <1>2, <2>1
    <3>2. writes[Call(t).at][n].value = 0
      BY <2>3 DEF Last
    <3>3. n \notin 2 .. n
      BY <2>1, <3>2 DEF SwapInv
    <3> HIDE DEF n
    <3>4. n = 1
      BY <3>1, <3>3
    <3> QED
      BY <3>4 DEF n
  <2>6. /\ Len(writes'[Call(t).at]) = 2 /\ writes'[Call(t).at][2].value # 0
        /\ \A b \in Address \ {Call(t).at} : writes'[b] = writes[b]
    <3>1. /\ Len(writes'[Call(t).at]) = Len(writes[Call(t).at]) + 1
          /\ writes'[Call(t).at][Len(writes[Call(t).at]) + 1].value = New(t)
          /\ \A b \in Address \ {Call(t).at} : writes'[b] = writes[b]
      BY <1>2, <2>1, <2>3, <2>4, WriteType
    <3> QED
      BY <2>1, <2>2, <2>5, <3>1
  <2>7. ASSUME NEW a \in Address
        PROVE  /\ Len(writes'[a]) \in Nat /\ Len(writes'[a]) >= Len(writes[a])
               /\ \A i \in 2 .. Len(writes'[a]) : writes'[a][i].value # 0
    <3>1. CASE a = Call(t).at
      <4>1. Len(writes'[a]) = 2 /\ Len(writes[a]) = 1 /\ writes'[a][2].value # 0
        BY <2>5, <2>6, <3>1
      <4>2. \A i \in 2 .. 2 : i = 2
        OBVIOUS
      <4> QED
        BY <4>1, <4>2
    <3>2. CASE a # Call(t).at
      BY <1>2, <2>6, <3>2 DEF SwapInv
    <3> QED
      BY <3>1, <3>2
  <2> QED
    BY <2>1, <2>3, <2>5, <2>6, <2>7, ValueFacts
<1>8. ASSUME NEW t \in Thread, CasFails(t)
      PROVE  \E r \in Value : Running(t) /\ Continue(t, r) /\ test' = test /\ writes' = writes /\ r # 0
  <2>1. /\ Running(t) /\ Call(t).name = "cas_actual" /\ Call(t).expect = 0 /\ Access(t).op = "cas"
        /\ Call(t).at \in Address
    BY <1>4, <1>8 DEF CasFails, AtCas, At, Calls
  <2>2. PICK i \in 1 .. Len(writes[Call(t).at]) :
          /\ writes[Call(t).at][i].value # Expect(t) \/ Access(t).op = "weakcas"
          /\ Read(t, Call(t).at, i, Access(t).order)
          /\ Retry(t, writes[Call(t).at][i].value)
    BY <1>8 DEF CasFails
  <2> DEFINE v == writes[Call(t).at][i].value
  <2>3. v \in Value /\ writes' = writes /\ test' = test
    BY <1>2, <1>8, <2>1, <2>2, ReadType DEF CasFails
  <2>4. v # 0
    BY <2>1, <2>2 DEF Expect, Loops
  <2> HIDE DEF v
  <2>5. Continue(t, v)
    BY <2>1, <2>2 DEF Retry, Swapped, Loops, v
  <2> QED
    BY <2>1, <2>3, <2>4, <2>5
<1>9. ASSUME NEW t \in Thread, CasSucceeds(t) \/ CasFails(t)
      PROVE  /\ \A u \in Thread : Running(u)' =>
                   /\ Call(u)'.name = "cas_actual" /\ Call(u)'.expect = 0 /\ Call(u)'.value # 0
                   /\ step'[u] = 1
             /\ \A a \in Address : \A i \in 2 .. Len(writes'[a]) : writes'[a][i].value # 0
             /\ \A d \in Done({"cas_actual"})' : Result(d)' = 0 => Len(writes'[CallOf(d)'.at]) >= 2
             /\ OneSwapWins'
  <2>1. CASE CasSucceeds(t)
    <3>1. PICK r \in Value :
         /\ Running(t) /\ Continue(t, r) /\ test' = test
         /\ \A a \in Address : /\ Len(writes'[a]) \in Nat /\ Len(writes'[a]) >= Len(writes[a])
                               /\ \A i \in 2 .. Len(writes'[a]) : writes'[a][i].value # 0
         /\ (r = 0 => Len(writes[Call(t).at]) = 1 /\ Len(writes'[Call(t).at]) = 2)
      BY <1>7, <2>1
    <3> QED
      BY <1>5, <3>1
  <2>2. CASE CasFails(t)
    <3>1. PICK r \in Value : Running(t) /\ Continue(t, r) /\ test' = test /\ writes' = writes /\ r # 0
      BY <1>2, <1>8, <2>2
    <3>2. \A a \in Address : /\ Len(writes'[a]) \in Nat /\ Len(writes'[a]) >= Len(writes[a])
                              /\ \A i \in 2 .. Len(writes'[a]) : writes'[a][i].value # 0
      BY <1>2, <3>1 DEF SwapInv
    <3> QED
      BY <1>5, <3>1, <3>2
  <2> QED
    BY <1>9, <2>1, <2>2
<1> QED
  BY <1>1, <1>6, <1>9 DEF Next

\* Of any number of threads that swap 0 for something else in a word, whichever backend they
\* use, at most one is told that it found 0: so only one thread initialises a once flag.
THEOREM OneSwapWinsTheorem == Swapping => (Spec => []OneSwapWins)
<1> SUFFICES ASSUME Swapping PROVE Spec => []OneSwapWins
  OBVIOUS
<1>1. Init => SwapInv
  <2> SUFFICES ASSUME Init, test.name = "swap"
               PROVE  /\ \A t \in Thread : Running(t) =>
                            Call(t).name = "cas_actual" /\ Call(t).expect = 0 /\ Call(t).value # 0 /\ step[t] = 1
                      /\ \A a \in Address : \A i \in 2 .. Len(writes[a]) : writes[a][i].value # 0
                      /\ Done({"cas_actual"}) = {}
    BY IInvInit DEF SwapInv, OneSwapWins
  <2>1. ASSUME NEW t \in Thread, Running(t)
        PROVE  Call(t).name = "cas_actual" /\ Call(t).expect = 0 /\ Call(t).value # 0 /\ step[t] = 1
    <3>1. test.program[t] \in Seq(Calls) /\ Len(got[t]) = 0 /\ test \in Test /\ step[t] = 1
      BY AtomicPointerAssumption DEF Init
    <3>2. 1 \in 1 .. Len(test.program[t]) /\ Call(t) = test.program[t][1]
      BY <2>1, <3>1 DEF Running, Call
    <3> QED
      BY <3>1, <3>2 DEF Swapping
  <2>2. \A a \in Address : Len(writes[a]) = 1
    BY DEF Init
  <2>3. Done({"cas_actual"}) = {}
    BY NothingReturned
  <2> QED
    BY <2>1, <2>2, <2>3
<1>2. SwapInv /\ [Next]_vars => SwapInv'
  BY SwapStep
<1>3. SwapInv => OneSwapWins
  BY DEF SwapInv, OneSwapWins
<1> QED
  BY <1>1, <1>2, <1>3, PTL DEF Spec

-----------------------------------------------------------------------------
(* What threads are ordered after. *)

\* What w is ordered after, v is not behind.
Before(v, w) == \A a \in Address : v[a] <= w[a]

\* The views are positions of writes that there are.
Bounded(v) == \A a \in Address : v[a] \in 1 .. Len(writes[a])

\* A thread's last fence is not ahead of its view, nor that of what it has loaded.
ViewInv ==
    /\ \A t \in Thread : /\ Bounded(view[t]) /\ Bounded(loaded[t]) /\ Bounded(fenced[t])
                         /\ Before(fenced[t], view[t]) /\ Before(view[t], loaded[t])
    /\ Bounded(sc)
    /\ \A a \in Address : \A i \in 1 .. Len(writes[a]) : Bounded(writes[a][i].view)

\* What a thread was ordered after it stays ordered after.
Grows == /\ \A t \in Thread : /\ Before(view[t], view'[t]) /\ Before(loaded[t], loaded'[t])
                              /\ Before(fenced[t], fenced'[t])
         /\ Before(sc, sc')

\* Positions are numbers.
LEMMA ViewNat == ASSUME NEW v \in View PROVE \A a \in Address : v[a] \in Nat
  BY DEF View

\* Two views together are behind neither.
LEMMA JoinGrows == ASSUME NEW v \in View, NEW w \in View
                   PROVE  /\ Join(v, w) \in View /\ Before(v, Join(v, w)) /\ Before(w, Join(v, w))
                          /\ \A x \in View : Before(v, x) /\ Before(w, x) => Before(Join(v, w), x)
                          /\ \A a \in Address : Join(v, w)[a] \in {v[a], w[a]}
  BY ViewNat DEF View, Join, Before

\* Being ordered is transitive and reflexive.
LEMMA BeforeAll == ASSUME NEW u \in View, NEW v \in View, NEW w \in View, Before(u, v), Before(v, w)
                   PROVE  Before(u, w)
  BY ViewNat DEF Before

LEMMA BeforeSelf == ASSUME NEW v \in View PROVE Before(v, v)
  BY ViewNat DEF Before

\* Every view the state has is one.
LEMMA Views == ASSUME IInv
               PROVE  /\ \A t \in Thread : view[t] \in View /\ loaded[t] \in View /\ fenced[t] \in View
                      /\ sc \in View
                      /\ \A a \in Address : /\ Len(writes[a]) \in Nat /\ Len(writes[a]) >= 1
                                            /\ \A i \in 1 .. Len(writes[a]) : writes[a][i].view \in View
<1> DEFINE Written == [value : Value, view : View]
<1>1. \A a \in Address : writes[a] \in Seq(Written)
  BY DEF IInv, TypeOK
<1> HIDE DEF Written
<1>2. \A a \in Address : /\ Len(writes[a]) \in Nat
                         /\ \A i \in 1 .. Len(writes[a]) : writes[a][i] \in Written
  BY <1>1
<1>3. \A a \in Address : \A i \in 1 .. Len(writes[a]) : writes[a][i].view \in View
  BY <1>2 DEF Written
<1> QED
  BY <1>2, <1>3 DEF IInv, TypeOK, InCall

\* A read takes over, when it acquires, what the write passes on, and an acquire fence will.
LEMMA ReadViews ==
    ASSUME IInv, ViewInv, NEW t \in Thread, NEW a \in Address, NEW i \in 1 .. Len(writes[a]), NEW order,
           Read(t, a, i, order)
    PROVE  /\ view' \in [Thread -> View] /\ loaded' \in [Thread -> View] /\ fenced' = fenced /\ sc' \in View
           /\ writes' = writes /\ writes[a][i].view \in View
           /\ \A u \in Thread \ {t} : view'[u] = view[u] /\ loaded'[u] = loaded[u]
           /\ Before(view[t], view'[t]) /\ Before(loaded[t], loaded'[t]) /\ Before(view'[t], loaded'[t])
           /\ Before(sc, sc')
           /\ Before(writes[a][i].view, loaded'[t])
           /\ order # "relaxed" => Before(writes[a][i].view, view'[t])
           /\ Bounded(view'[t]) /\ Bounded(loaded'[t]) /\ Bounded(sc')
<1> DEFINE seen == [view[t] EXCEPT ![a] = i]
           passed == writes[a][i].view
<1>1. /\ view[t] \in View /\ loaded[t] \in View /\ sc \in View /\ passed \in View /\ i \in Nat
      /\ view \in [Thread -> View] /\ loaded \in [Thread -> View]
  <2>1. passed \in View /\ Len(writes[a]) \in Nat
    BY Views
  <2>2. i \in Nat
    BY <2>1
  <2> HIDE DEF passed
  <2> QED
    BY <2>1, <2>2, Views DEF IInv, TypeOK
<1>2. /\ Bounded(view[t]) /\ Bounded(loaded[t]) /\ Bounded(sc) /\ Bounded(passed)
      /\ Before(view[t], loaded[t])
  BY DEF ViewInv
<1>3. /\ view' = [view EXCEPT ![t] = IF order = "relaxed" THEN seen ELSE Join(seen, passed)]
      /\ loaded' = [loaded EXCEPT ![t] = Join(@, Join(seen, passed))]
      /\ sc' = IF order = "seq_cst" THEN [sc EXCEPT ![a] = i] ELSE sc
      /\ writes' = writes /\ fenced' = fenced
      /\ view[t][a] <= i /\ (order = "seq_cst" => i >= sc[a])
  BY DEF Read
<1>4. seen \in View /\ Before(view[t], seen) /\ Bounded(seen)
  BY <1>1, <1>2, <1>3, ViewNat DEF View, Before, Bounded
<1>5. sc' \in View /\ Before(sc, sc') /\ Bounded(sc')
  BY <1>1, <1>2, <1>3, ViewNat DEF View, Before, Bounded
<1> HIDE DEF seen, passed
<1> DEFINE joined == Join(seen, passed)
<1>6. joined \in View /\ Before(seen, joined) /\ Before(passed, joined) /\ Bounded(joined)
  <2>1. \A b \in Address : joined[b] \in {seen[b], passed[b]}
    BY <1>1, <1>4, JoinGrows
  <2> QED
    BY <1>1, <1>2, <1>4, <2>1, JoinGrows DEF Bounded
<1> HIDE DEF joined
<1> DEFINE all == Join(loaded[t], joined)
<1>7. all \in View /\ Before(loaded[t], all) /\ Before(joined, all) /\ Bounded(all)
  <2>1. \A b \in Address : all[b] \in {loaded[t][b], joined[b]}
    BY <1>1, <1>6, JoinGrows
  <2> QED
    BY <1>1, <1>2, <1>6, <2>1, JoinGrows DEF Bounded
<1>8. /\ view'[t] = (IF order = "relaxed" THEN seen ELSE joined) /\ loaded'[t] = all
      /\ view' \in [Thread -> View] /\ loaded' \in [Thread -> View]
      /\ \A u \in Thread \ {t} : view'[u] = view[u] /\ loaded'[u] = loaded[u]
  BY <1>1, <1>3, <1>4, <1>6, <1>7 DEF joined
<1> HIDE DEF all
<1>9. /\ Before(view[t], joined) /\ Before(seen, all) /\ Before(passed, all)
  BY <1>1, <1>4, <1>6, <1>7, BeforeAll
<1> QED
  BY <1>1, <1>3, <1>4, <1>5, <1>6, <1>7, <1>8, <1>9 DEF passed

\* A write passes on what its thread is ordered after, or, when it is relaxed, what it was at
\* its last fence, and in either case what was passed on to the write that it has read.
LEMMA WriteViews ==
    ASSUME IInv, ViewInv, NEW t \in Thread, NEW a \in Address, NEW v \in Value, NEW order,
           NEW from \in View, Bounded(from), Write(t, a, v, order, from)
    PROVE  /\ view' \in [Thread -> View] /\ loaded' \in [Thread -> View] /\ fenced' = fenced /\ sc' \in View
           /\ \A u \in Thread \ {t} : view'[u] = view[u] /\ loaded'[u] = loaded[u]
           /\ Before(view[t], view'[t]) /\ Before(loaded[t], loaded'[t]) /\ Before(view'[t], loaded'[t])
           /\ Before(sc, sc')
           /\ order # "relaxed" => Before(from, view'[t])
           /\ view'[t][a] = Len(writes[a]) + 1
           /\ order = "seq_cst" => sc'[a] = Len(writes[a]) + 1
           /\ LET carried == writes'[a][Len(writes[a]) + 1].view
              IN /\ carried \in View
                 /\ \A b \in Address \ {a} : /\ carried[b] >= fenced[t][b] /\ carried[b] >= from[b]
                                             /\ order # "relaxed" => carried[b] >= view[t][b]
                 /\ \A b \in Address : carried[b] \in 1 .. Len(writes'[b])
           /\ Bounded(view[t])' /\ Bounded(loaded[t])' /\ Bounded(sc)'
<1> DEFINE n == Len(writes[a]) + 1
           joined == IF order = "relaxed" THEN view[t] ELSE Join(view[t], from)
           mine == [joined EXCEPT ![a] = n]
           passed == IF order = "relaxed" THEN fenced[t] ELSE mine
           both == Join(from, passed)
           carried == [both EXCEPT ![a] = n]
<1>1. /\ view[t] \in View /\ loaded[t] \in View /\ fenced[t] \in View /\ sc \in View
      /\ view \in [Thread -> View] /\ loaded \in [Thread -> View] /\ writes[a] \in Seq([value : Value, view : View])
      /\ \A b \in Address : Len(writes[b]) \in Nat /\ Len(writes[b]) >= 1
  BY Views DEF IInv, TypeOK
<1>2. /\ Bounded(view[t]) /\ Bounded(loaded[t]) /\ Bounded(fenced[t]) /\ Bounded(sc)
      /\ Before(fenced[t], view[t]) /\ Before(view[t], loaded[t])
  BY DEF ViewInv
<1>3. /\ writes' = [writes EXCEPT ![a] = Append(@, [value |-> v, view |-> carried])]
      /\ view' = [view EXCEPT ![t] = mine]
      /\ loaded' = [loaded EXCEPT ![t] = Join(@, Join(from, mine))]
      /\ sc' = IF order = "seq_cst" THEN [sc EXCEPT ![a] = n] ELSE sc
      /\ fenced' = fenced
  BY DEF Write
<1>4. Len(writes'[a]) = n /\ \A b \in Address \ {a} : Len(writes'[b]) = Len(writes[b])
  BY WriteType
<1>5. n \in Nat /\ \A b \in Address : 1 .. Len(writes[b]) \subseteq 1 .. Len(writes'[b])
  BY <1>1, <1>4
<1> DEFINE In(x) == \A b \in Address : x[b] \in 1 .. Len(writes'[b])
<1>6. \A x : Bounded(x) => In(x)
  BY <1>5 DEF Bounded
<1>7. writes'[a][n].view = carried
  <2> DEFINE last == [value |-> v, view |-> carried]
  <2>1. last.view = carried
    OBVIOUS
  <2> HIDE DEF last
  <2>2. writes'[a] = Append(writes[a], last)
    BY <1>3 DEF IInv, TypeOK, last
  <2>3. writes'[a][n] = last
    BY <1>1, <2>2
  <2> HIDE DEF n
  <2> QED
    BY <2>1, <2>3
<1>8. /\ joined \in View /\ Before(view[t], joined) /\ In(joined)
      /\ order # "relaxed" => Before(from, joined)
  <2>1. CASE order = "relaxed"
    BY <1>1, <1>2, <1>6, <2>1, BeforeSelf
  <2>2. CASE order # "relaxed"
    <3>1. \A b \in Address : joined[b] \in {view[t][b], from[b]}
      BY <1>1, <2>2, JoinGrows
    <3>2. In(joined)
      BY <1>2, <1>6, <3>1
    <3> QED
      BY <1>1, <2>2, <3>2, JoinGrows
  <2> QED
    BY <2>1, <2>2
<1> HIDE DEF joined
<1>9. \A b \in Address : 1 <= joined[b] /\ joined[b] <= Len(writes'[b]) /\ n \in 1 .. Len(writes'[a])
  BY <1>1, <1>4, <1>8, ViewNat
<1>10. /\ mine \in View /\ Before(joined, mine) /\ In(mine) /\ mine[a] = n
       /\ \A b \in Address \ {a} : mine[b] = joined[b]
  BY <1>4, <1>5, <1>8, <1>9, ViewNat DEF View, Before
<1> HIDE DEF mine
<1>11. /\ Before(view[t], mine) /\ (order # "relaxed" => Before(from, mine))
  BY <1>1, <1>8, <1>10, BeforeAll
<1>12. passed \in View /\ In(passed) /\ (order # "relaxed" => passed = mine) /\ Before(fenced[t], passed)
  <2>1. CASE order = "relaxed"
    BY <1>1, <1>2, <1>6, <2>1, BeforeSelf
  <2>2. CASE order # "relaxed"
    BY <1>1, <1>2, <1>10, <1>11, <2>2, BeforeAll
  <2> QED
    BY <2>1, <2>2
<1> HIDE DEF passed
<1>13. both \in View /\ Before(from, both) /\ Before(passed, both) /\ In(both)
  <2>1. \A b \in Address : both[b] \in {from[b], passed[b]}
    BY <1>12, JoinGrows
  <2>2. In(both)
    BY <1>6, <1>12, <2>1
  <2> QED
    BY <1>12, <2>2, JoinGrows
<1> HIDE DEF both
<1>14. carried \in View /\ In(carried) /\ \A b \in Address \ {a} : carried[b] = both[b]
  BY <1>5, <1>9, <1>13 DEF View
<1> HIDE DEF carried
<1>15. \A b \in Address \ {a} : /\ carried[b] >= fenced[t][b] /\ carried[b] >= from[b]
                                /\ order # "relaxed" => carried[b] >= view[t][b]
  <2>1. Before(fenced[t], both) /\ (order # "relaxed" => Before(view[t], both))
    BY <1>1, <1>10, <1>11, <1>12, <1>13, BeforeAll
  <2> QED
    BY <1>1, <1>13, <1>14, <2>1, ViewNat DEF Before
<1> DEFINE all == Join(loaded[t], Join(from, mine))
<1>16. all \in View /\ Before(loaded[t], all) /\ Before(mine, all) /\ In(all)
  <2> DEFINE taken == Join(from, mine)
  <2>1. taken \in View /\ Before(mine, taken) /\ \A b \in Address : taken[b] \in {from[b], mine[b]}
    BY <1>10, JoinGrows
  <2>2. In(taken)
    BY <1>6, <1>10, <2>1
  <2> HIDE DEF taken
  <2> DEFINE more == Join(loaded[t], taken)
  <2>3. more \in View /\ Before(loaded[t], more) /\ Before(taken, more)
        /\ \A b \in Address : more[b] \in {loaded[t][b], taken[b]}
    BY <1>1, <2>1, JoinGrows
  <2>4. In(loaded[t])
    BY <1>2, <1>6
  <2>5. In(more)
    BY <2>2, <2>3, <2>4
  <2> HIDE DEF more
  <2>6. Before(mine, more)
    BY <1>10, <2>1, <2>3, BeforeAll
  <2> QED
    BY <2>3, <2>5, <2>6 DEF more, taken
<1> HIDE DEF all
<1>17. /\ view'[t] = mine /\ loaded'[t] = all
       /\ view' \in [Thread -> View] /\ loaded' \in [Thread -> View]
       /\ \A u \in Thread \ {t} : view'[u] = view[u] /\ loaded'[u] = loaded[u]
  BY <1>1, <1>3, <1>10, <1>16 DEF all
<1>18. sc' \in View /\ Before(sc, sc') /\ In(sc') /\ (order = "seq_cst" => sc'[a] = n)
  <2>1. \A b \in Address : 1 <= sc[b] /\ sc[b] <= Len(writes[b]) /\ sc[b] \in Nat
    BY <1>1, <1>2, ViewNat DEF Bounded
  <2>2. n \in 1 .. Len(writes'[a])
    BY <1>1, <1>4
  <2>3. In(sc)
    BY <1>2, <1>6
  <2>4. CASE order = "seq_cst"
    <3>1. sc' = [sc EXCEPT ![a] = n] /\ n \in Nat /\ sc \in View /\ sc[a] <= n
      BY <1>1, <1>3, <2>1, <2>4
    <3> HIDE DEF n
    <3>2. /\ sc'[a] = n /\ sc' \in View /\ \A b \in Address \ {a} : sc'[b] = sc[b]
      BY <3>1 DEF View
    <3> QED
      BY <2>1, <2>2, <2>3, <3>1, <3>2 DEF Before
  <2>5. CASE order # "seq_cst"
    BY <1>1, <1>3, <2>3, <2>5, BeforeSelf
  <2> QED
    BY <2>4, <2>5
<1>19. Bounded(view[t])' /\ Bounded(loaded[t])' /\ Bounded(sc)'
  BY <1>10, <1>16, <1>17, <1>18 DEF Bounded
<1> QED
  BY <1>3, <1>7, <1>10, <1>11, <1>14, <1>15, <1>16, <1>17, <1>18, <1>19

\* A full fence makes seen, and passes on, all that was loaded; an acquire fence makes it seen.
LEMMA FenceViews ==
    ASSUME IInv, ViewInv, NEW t \in Thread, FenceMemory(t)
    PROVE  /\ view' \in [Thread -> View] /\ loaded' \in [Thread -> View] /\ fenced' \in [Thread -> View]
           /\ sc' \in View /\ writes' = writes
           /\ \A u \in Thread \ {t} : view'[u] = view[u] /\ loaded'[u] = loaded[u] /\ fenced'[u] = fenced[u]
           /\ Before(loaded[t], view'[t]) /\ loaded'[t] = view'[t]
           /\ Before(fenced[t], fenced'[t]) /\ Before(fenced'[t], view'[t]) /\ Before(sc, sc')
           /\ Access(t).order # "acquire" => Before(loaded[t], fenced'[t])
           /\ Bounded(view'[t]) /\ Bounded(fenced'[t]) /\ Bounded(sc')
<1> DEFINE both == Join(loaded[t], sc)
           all == IF Access(t).order = "acquire" THEN loaded[t] ELSE both
<1>1. /\ view \in [Thread -> View] /\ loaded \in [Thread -> View] /\ fenced \in [Thread -> View]
      /\ view[t] \in View /\ loaded[t] \in View /\ fenced[t] \in View /\ sc \in View
  BY DEF IInv, TypeOK
<1>2. /\ Bounded(loaded[t]) /\ Bounded(fenced[t]) /\ Bounded(sc)
      /\ Before(fenced[t], view[t]) /\ Before(view[t], loaded[t])
  BY DEF ViewInv
<1>3. /\ view' = [view EXCEPT ![t] = all] /\ loaded' = [loaded EXCEPT ![t] = all] /\ writes' = writes
      /\ IF Access(t).order = "acquire" THEN UNCHANGED <<fenced, sc>>
         ELSE fenced' = [fenced EXCEPT ![t] = all] /\ sc' = all
  BY DEF FenceMemory
<1>4. both \in View /\ Before(loaded[t], both) /\ Before(sc, both) /\ Bounded(both)
  BY <1>1, <1>2, JoinGrows DEF Bounded
<1> HIDE DEF both
<1>5. /\ all \in View /\ Bounded(all) /\ Before(loaded[t], all)
      /\ Access(t).order # "acquire" => Before(sc, all)
  BY <1>1, <1>2, <1>4, BeforeSelf
<1>6. Before(fenced[t], all)
  BY <1>1, <1>2, <1>5, BeforeAll
<1> HIDE DEF all
<1>7. /\ view'[t] = all /\ loaded'[t] = all /\ view' \in [Thread -> View] /\ loaded' \in [Thread -> View]
      /\ \A u \in Thread \ {t} : view'[u] = view[u] /\ loaded'[u] = loaded[u]
  BY <1>1, <1>3, <1>5
<1>8. CASE Access(t).order = "acquire"
  BY <1>1, <1>2, <1>3, <1>5, <1>6, <1>7, <1>8, BeforeSelf
<1>9. CASE Access(t).order # "acquire"
  <2>1. /\ fenced'[t] = all /\ fenced' \in [Thread -> View] /\ sc' = all
        /\ \A u \in Thread \ {t} : fenced'[u] = fenced[u]
    BY <1>1, <1>3, <1>5, <1>9
  <2> QED
    BY <1>3, <1>5, <1>6, <1>7, <1>9, <2>1, BeforeSelf
<1> QED
  BY <1>8, <1>9

\* An action reads, writes or is a fence; a written value is one of the word's.
LEMMA Accesses ==
    ASSUME IInv, ViewInv, [Next]_vars
    PROVE  \/ UNCHANGED <<writes, view, loaded, fenced, sc>>
           \/ \E t \in Thread, a \in Address : \E i \in 1 .. Len(writes[a]) : \E order : Read(t, a, i, order)
           \/ \E t \in Thread, a \in Address, v \in Value, from \in View : \E order :
                 Bounded(from) /\ Write(t, a, v, order, from)
           \/ \E t \in Thread : FenceMemory(t)
<1>1. CASE UNCHANGED vars
  BY <1>1 DEF vars
<1>2. ASSUME NEW t \in Thread, LoadWord(t) \/ CasFails(t)
      PROVE  \E a \in Address : \E i \in 1 .. Len(writes[a]) : \E order : Read(t, a, i, order)
  <2>1. Running(t)
    BY <1>2 DEF LoadWord, CasFails, AtCas, At
  <2>2. Call(t).at \in Address
    BY <2>1, CallType DEF Calls
  <2> QED
    BY <1>2, <2>2 DEF LoadWord, CasFails
<1>3. ASSUME NEW t \in Thread, StoreWord(t)
      PROVE  \E a \in Address, v \in Value, from \in View : \E order :
                 Bounded(from) /\ Write(t, a, v, order, from)
  <2>1. Running(t)
    BY <1>3 DEF StoreWord, At
  <2>2. Call(t).at \in Address /\ Call(t).value \in Value
    BY <2>1, CallType DEF Calls
  <2>3. NoView \in View /\ Bounded(NoView)
    BY Views DEF NoView, View, Bounded
  <2> QED
    BY <1>3, <2>2, <2>3 DEF StoreWord
<1>4. ASSUME NEW t \in Thread, AddWord(t) \/ CasSucceeds(t)
      PROVE  \E a \in Address, v \in Value, from \in View : \E order :
                 Bounded(from) /\ Write(t, a, v, order, from)
  <2>1. Running(t) /\ (CasSucceeds(t) => AtCas(t))
    BY <1>4 DEF AddWord, CasSucceeds, AtCas, At
  <2>2. Call(t) \in Calls /\ Call(t).at \in Address
    BY <2>1, CallType DEF Calls
  <2>3. PICK last : last = Last(Call(t).at)
    OBVIOUS
  <2>4. last.value \in Value /\ last.view \in View /\ Bounded(last.view)
    <3>1. Len(writes[Call(t).at]) \in 1 .. Len(writes[Call(t).at])
      BY <2>2, Views
    <3> QED
      BY <2>2, <2>3, <3>1, LastType DEF ViewInv, Last
  <2>5. CASE AddWord(t)
    <3>1. Diff(Call(t)) \in Nat
      BY <2>2, AtomicPointerAssumption DEF Calls, Diff, Value
    <3>2. (last.value + Diff(Call(t))) % Word \in Value
      BY <2>4, <3>1, SumType
    <3>3. Write(t, Call(t).at, (last.value + Diff(Call(t))) % Word, Access(t).order, last.view)
      BY <2>3, <2>5 DEF AddWord
    <3> QED
      BY <2>2, <2>4, <3>2, <3>3
  <2>6. CASE CasSucceeds(t)
    <3>1. New(t) \in Value
      BY <2>1, <2>6, NewType
    <3>2. Write(t, Call(t).at, New(t), Access(t).order, last.view)
      BY <2>3, <2>6 DEF CasSucceeds
    <3> QED
      BY <2>2, <2>4, <3>1, <3>2
  <2> QED
    BY <1>4, <2>5, <2>6
<1> QED
  BY <1>1, <1>2, <1>3, <1>4 DEF Next

\* Every step keeps the views within what has been written, and none falls back.
LEMMA ViewStep == IInv /\ ViewInv /\ [Next]_vars => ViewInv' /\ Grows
<1> SUFFICES ASSUME IInv, ViewInv, [Next]_vars PROVE ViewInv' /\ Grows
  OBVIOUS
<1> USE DEF ViewInv, Grows
<1>1. \A u \in Thread : /\ Before(view[u], view[u]) /\ Before(loaded[u], loaded[u])
                         /\ Before(fenced[u], fenced[u]) /\ Before(sc, sc)
  BY Views, BeforeSelf
<1>2. CASE UNCHANGED <<writes, view, loaded, fenced, sc>>
  BY <1>1, <1>2 DEF Bounded, Before
<1>3. ASSUME NEW t \in Thread, NEW a \in Address, NEW i \in 1 .. Len(writes[a]), NEW order, Read(t, a, i, order)
      PROVE  ViewInv' /\ Grows
  <2>1. writes' = writes /\ fenced' = fenced
    BY <1>3, ReadViews
  <2>2. /\ Before(sc, sc') /\ Bounded(sc)'
        /\ \A b \in Address : \A k \in 1 .. Len(writes'[b]) : Bounded(writes[b][k].view)'
    BY <1>3, <2>1, ReadViews DEF Bounded
  <2>3. ASSUME NEW u \in Thread
        PROVE  /\ Bounded(view[u])' /\ Bounded(loaded[u])' /\ Bounded(fenced[u])'
               /\ Before(fenced'[u], view'[u]) /\ Before(view'[u], loaded'[u])
               /\ Before(view[u], view'[u]) /\ Before(loaded[u], loaded'[u]) /\ Before(fenced[u], fenced'[u])
    <3>1. CASE u = t
      <4>1. /\ Before(view[t], view'[t]) /\ Before(loaded[t], loaded'[t]) /\ Before(view'[t], loaded'[t])
            /\ Bounded(view'[t]) /\ Bounded(loaded'[t]) /\ view'[t] \in View
        BY <1>3, ReadViews
      <4>2. Bounded(view[t])' /\ Bounded(loaded[t])' /\ Bounded(fenced[t])'
        BY <2>1, <4>1 DEF Bounded
      <4>3. Before(fenced[t], view'[t])
        BY <4>1, Views, BeforeAll
      <4> QED
        BY <1>1, <2>1, <3>1, <4>1, <4>2, <4>3
    <3>2. CASE u # t
      <4>1. view'[u] = view[u] /\ loaded'[u] = loaded[u]
        BY <1>3, <3>2, ReadViews
      <4> QED
        BY <1>1, <2>1, <4>1 DEF Bounded
    <3> QED
      BY <3>1, <3>2
  <2> QED
    BY <2>2, <2>3
<1>4. ASSUME NEW t \in Thread, NEW a \in Address, NEW v \in Value, NEW from \in View, NEW order,
             Bounded(from), Write(t, a, v, order, from)
      PROVE  ViewInv' /\ Grows
  <2>1. /\ Len(writes'[a]) = Len(writes[a]) + 1 /\ \A b \in Address \ {a} : writes'[b] = writes[b]
        /\ \A k \in 1 .. Len(writes[a]) : writes'[a][k] = writes[a][k]
    BY <1>4, WriteType
  <2>2. \A b \in Address : 1 .. Len(writes[b]) \subseteq 1 .. Len(writes'[b])
    BY <2>1, Views
  <2>3. \A x : Bounded(x) => \A b \in Address : x[b] \in 1 .. Len(writes'[b])
    BY <2>2 DEF Bounded
  <2>4. ASSUME NEW b \in Address, NEW k \in 1 .. Len(writes'[b]) PROVE Bounded(writes[b][k].view)'
    <3>1. CASE b = a /\ k = Len(writes[a]) + 1
      BY <1>4, <3>1, WriteViews DEF Bounded
    <3>2. CASE ~(b = a /\ k = Len(writes[a]) + 1)
      <4>1. k \in 1 .. Len(writes[b]) /\ writes'[b][k] = writes[b][k]
        BY <2>1, <3>2, Views
      <4> QED
        BY <2>3, <4>1 DEF Bounded
    <3> QED
      BY <3>1, <3>2
  <2>5. fenced' = fenced /\ Before(sc, sc') /\ Bounded(sc)'
    BY <1>4, WriteViews
  <2>6. ASSUME NEW u \in Thread
        PROVE  /\ Bounded(view[u])' /\ Bounded(loaded[u])' /\ Bounded(fenced[u])'
               /\ Before(fenced'[u], view'[u]) /\ Before(view'[u], loaded'[u])
               /\ Before(view[u], view'[u]) /\ Before(loaded[u], loaded'[u]) /\ Before(fenced[u], fenced'[u])
    <3>1. Bounded(fenced[u])'
      BY <2>3, <2>5 DEF Bounded
    <3>2. CASE u = t
      <4>1. /\ Before(view[t], view'[t]) /\ Before(loaded[t], loaded'[t]) /\ Before(view'[t], loaded'[t])
            /\ Bounded(view[t])' /\ Bounded(loaded[t])' /\ view'[t] \in View
        BY <1>4, WriteViews
      <4>2. Before(fenced[t], view'[t])
        BY <4>1, Views, BeforeAll
      <4> QED
        BY <1>1, <2>5, <3>1, <3>2, <4>1, <4>2
    <3>3. CASE u # t
      <4>1. view'[u] = view[u] /\ loaded'[u] = loaded[u]
        BY <1>4, <3>3, WriteViews
      <4>2. Bounded(view[u])' /\ Bounded(loaded[u])'
        BY <2>3, <4>1 DEF Bounded
      <4> QED
        BY <1>1, <2>5, <3>1, <4>1, <4>2
    <3> QED
      BY <3>2, <3>3
  <2> QED
    BY <2>4, <2>5, <2>6
<1>5. ASSUME NEW t \in Thread, FenceMemory(t) PROVE ViewInv' /\ Grows
  <2>1. writes' = writes
    BY <1>5, FenceViews
  <2>2. /\ Before(sc, sc') /\ Bounded(sc)'
        /\ \A b \in Address : \A k \in 1 .. Len(writes'[b]) : Bounded(writes[b][k].view)'
    BY <1>5, <2>1, FenceViews DEF Bounded
  <2>3. ASSUME NEW u \in Thread
        PROVE  /\ Bounded(view[u])' /\ Bounded(loaded[u])' /\ Bounded(fenced[u])'
               /\ Before(fenced'[u], view'[u]) /\ Before(view'[u], loaded'[u])
               /\ Before(view[u], view'[u]) /\ Before(loaded[u], loaded'[u]) /\ Before(fenced[u], fenced'[u])
    <3>1. CASE u = t
      <4>1. /\ Before(loaded[t], view'[t]) /\ loaded'[t] = view'[t] /\ view'[t] \in View
            /\ Before(fenced[t], fenced'[t]) /\ Before(fenced'[t], view'[t])
            /\ Bounded(view'[t]) /\ Bounded(fenced'[t])
        BY <1>5, FenceViews
      <4>2. Bounded(view[t])' /\ Bounded(loaded[t])' /\ Bounded(fenced[t])'
        BY <2>1, <4>1 DEF Bounded
      <4>3. Before(view[t], view'[t]) /\ Before(view'[t], view'[t])
        BY <4>1, Views, BeforeAll, BeforeSelf
      <4> QED
        BY <3>1, <4>1, <4>2, <4>3
    <3>2. CASE u # t
      <4>1. view'[u] = view[u] /\ loaded'[u] = loaded[u] /\ fenced'[u] = fenced[u]
        BY <1>5, <3>2, FenceViews
      <4> QED
        BY <1>1, <2>1, <4>1 DEF Bounded
    <3> QED
      BY <3>1, <3>2
  <2> QED
    BY <2>2, <2>3
<1> QED
  BY <1>2, <1>3, <1>4, <1>5, Accesses

\* At the start nobody is ahead of the first writes.
LEMMA ViewInit == Init => ViewInv
  BY DEF Init, ViewInv, Bounded, Before, NoView

\* No thread ever falls behind what it was ordered after, and neither does the order of all
\* fences and sequentially consistent accesses: having read a write to a word, a thread never
\* again reads an older one, whatever the programs and whichever the backend.
THEOREM ViewsGrow == Spec => [][Grows]_vars
<1>1. Init => IInv /\ ViewInv
  BY IInvInit, ViewInit
<1>2. IInv /\ ViewInv /\ [Next]_vars => (IInv /\ ViewInv)' /\ Grows
  BY IInvStep, ViewStep
<1> QED
  BY <1>1, <1>2, PTL DEF Spec

\* The accesses of writing, of reading with other orders, of relaxed swaps and of the barrier.
LEMMA MoreBasicCode ==
    ASSUME Known
    PROVE  /\ Basic["write"] = IF C11 THEN <<Store("seq_cst")>> ELSE <<Fence, Store("relaxed")>>
           /\ Basic["write_nonatomic"] = <<Store("relaxed")>> /\ Basic["read_nonatomic"] = <<Load("relaxed")>>
           /\ Basic["read_acquire"] = IF C11 THEN <<Load("acquire")>> ELSE <<Load("relaxed"), AcquireFence>>
           /\ Basic["cas_relaxed"] = <<Cas("relaxed")>>
           /\ Basic["barrier"] = <<Fence>>
<1> DEFINE Accesses4 == {"write", "write_nonatomic", "read_nonatomic", "read_acquire"}
<1>1. /\ Accesses4 \subseteq DOMAIN C11Access /\ Accesses4 \subseteq DOMAIN MintomicAccess
      /\ C11FunctionAccess = C11Access
      /\ "cas_relaxed" \notin DOMAIN C11Access /\ "barrier" \notin DOMAIN C11Access
      /\ "cas_relaxed" \notin DOMAIN MintomicAccess /\ "barrier" \notin DOMAIN MintomicAccess
  BY DEF C11Access, C11FunctionAccess, MintomicAccess
<1>2. /\ C11FunctionWeakSwap = C11WeakSwap /\ C11FunctionSwap = C11Swap
      /\ "cas_relaxed" \notin DOMAIN C11WeakSwap /\ "barrier" \notin DOMAIN C11WeakSwap
      /\ "cas_relaxed" \in DOMAIN C11Swap /\ "barrier" \notin DOMAIN C11Swap
      /\ "cas_relaxed" \in DOMAIN MintomicSwap /\ "barrier" \notin DOMAIN MintomicSwap
      /\ "barrier" \notin DOMAIN C11Add /\ "barrier" \notin DOMAIN MintomicAdd /\ "barrier" \in DOMAIN Barrier
  BY DEF C11FunctionWeakSwap, C11WeakSwap, C11FunctionSwap, C11Swap, MintomicSwap, C11Add, MintomicAdd, Barrier
<1>3. CASE C11
  <2>1. \/ Basic = With(C11Access, With(C11WeakSwap, With(C11Swap, Barrier)))
        \/ Basic = With(C11Access, With(C11WeakSwap, With(C11Swap, With(C11Add, Barrier))))
    BY <1>1, <1>2, <1>3 DEF Basic, C11, Known
  <2>2. PICK rest : /\ Basic = With(C11Access, With(C11WeakSwap, With(C11Swap, rest)))
                    /\ "barrier" \in DOMAIN rest /\ rest["barrier"] = Barrier["barrier"]
    BY <1>2, <2>1, NextTable
  <2>3. \A n \in Accesses4 : Basic[n] = C11Access[n]
    BY <1>1, <2>2, FirstTable
  <2>4. PICK swaps : swaps = With(C11Swap, rest)
    OBVIOUS
  <2>5. /\ "cas_relaxed" \in DOMAIN swaps /\ swaps["cas_relaxed"] = C11Swap["cas_relaxed"]
        /\ "barrier" \in DOMAIN swaps /\ swaps["barrier"] = Barrier["barrier"]
    BY <1>2, <2>2, <2>4, FirstTable, NextTable
  <2>6. LET all == With(C11WeakSwap, swaps)
        IN /\ "cas_relaxed" \in DOMAIN all /\ all["cas_relaxed"] = C11Swap["cas_relaxed"]
           /\ "barrier" \in DOMAIN all /\ all["barrier"] = Barrier["barrier"]
    BY <1>2, <2>5, NextTable
  <2>7. Basic["cas_relaxed"] = C11Swap["cas_relaxed"] /\ Basic["barrier"] = Barrier["barrier"]
    BY <1>1, <2>2, <2>4, <2>6, NextTable
  <2> QED
    BY <1>3, <2>3, <2>7 DEF C11Access, C11Swap, Barrier
<1>4. CASE ~C11
  <2>1. \/ Basic = With(MintomicAccess, With(MintomicSwap, Barrier))
        \/ Basic = With(MintomicAccess, With(MintomicSwap, With(MintomicAdd, Barrier)))
    BY <1>4 DEF Basic, C11, Known, MintomicFunctionAccess, MintomicFunctionSwap
  <2>2. PICK rest : /\ Basic = With(MintomicAccess, With(MintomicSwap, rest))
                    /\ "barrier" \in DOMAIN rest /\ rest["barrier"] = Barrier["barrier"]
    BY <1>2, <2>1, NextTable
  <2>3. \A n \in Accesses4 : Basic[n] = MintomicAccess[n]
    BY <1>1, <2>2, FirstTable
  <2>4. PICK swaps : swaps = With(MintomicSwap, rest)
    OBVIOUS
  <2>5. /\ "cas_relaxed" \in DOMAIN swaps /\ swaps["cas_relaxed"] = MintomicSwap["cas_relaxed"]
        /\ "barrier" \in DOMAIN swaps /\ swaps["barrier"] = Barrier["barrier"]
    BY <1>2, <2>2, <2>4, FirstTable, NextTable
  <2>6. Basic["cas_relaxed"] = MintomicSwap["cas_relaxed"] /\ Basic["barrier"] = Barrier["barrier"]
    BY <1>1, <2>2, <2>4, <2>5, NextTable
  <2> QED
    BY <1>4, <2>3, <2>6 DEF MintomicAccess, MintomicSwap, Barrier
<1> QED
  BY <1>3, <1>4

\* The programs and the results so far.
LEMMA Programs ==
    ASSUME IInv
    PROVE  /\ test \in Test /\ Known /\ step \in [Thread -> Nat] /\ reg \in [Thread -> Value \cup {NULL}]
           /\ got \in [Thread -> Seq(Value)]
           /\ \A u \in Thread : /\ test.program[u] \in Seq(Calls) /\ Len(test.program[u]) \in Nat
                                /\ got[u] \in Seq(Value) /\ Len(got[u]) \in Nat
                                /\ Len(got[u]) <= Len(test.program[u])
                                /\ step[u] >= 1 /\ (step[u] > 1 => reg[u] \in Value)
<1>1. /\ test \in Test /\ Known /\ \A u \in Thread : test.program[u] \in Seq(Calls)
  BY AtomicPointerAssumption DEF IInv, TypeOK, Known
<1>2. got \in [Thread -> Seq(Value)] /\ step \in [Thread -> Nat] /\ reg \in [Thread -> Value \cup {NULL}]
  BY DEF IInv, TypeOK
<1>3. \A u \in Thread : got[u] \in Seq(Value) /\ Len(got[u]) \in Nat /\ Len(test.program[u]) \in Nat
  BY <1>1, <1>2
<1> QED
  BY <1>1, <1>2, <1>3 DEF IInv, InCall

\* The last access of a call returns from it, another one leads to the next.
LEMMA Goes ==
    ASSUME IInv, NEW t \in Thread, NEW r \in Value, Continue(t, r)
    PROVE  /\ \A u \in Thread \ {t} : got'[u] = got[u] /\ step'[u] = step[u] /\ reg'[u] = reg[u]
           /\ \A u \in Thread : /\ Len(got'[u]) \in Nat /\ Len(got'[u]) >= Len(got[u])
                                /\ \A k \in 1 .. Len(got[u]) : got'[u][k] = got[u][k]
           /\ step[t] = Len(Code(Call(t).name)) =>
                 /\ Len(got'[t]) = Len(got[t]) + 1 /\ got'[t][Len(got[t]) + 1] = r
                 /\ step'[t] = 1
           /\ step[t] # Len(Code(Call(t).name)) =>
                 got'[t] = got[t] /\ step'[t] = step[t] + 1 /\ reg'[t] = r
<1>1. /\ step \in [Thread -> Nat] /\ reg \in [Thread -> Value \cup {NULL}] /\ got \in [Thread -> Seq(Value)]
      /\ \A u \in Thread : got[u] \in Seq(Value) /\ Len(got[u]) \in Nat
  BY Programs
<1>2. /\ Len(Append(got[t], r)) = Len(got[t]) + 1 /\ Append(got[t], r)[Len(got[t]) + 1] = r
      /\ \A k \in 1 .. Len(got[t]) : Append(got[t], r)[k] = got[t][k]
  BY <1>1
<1>3. CASE step[t] = Len(Code(Call(t).name))
  <2>1. /\ got'[t] = Append(got[t], r) /\ step'[t] = 1
        /\ \A u \in Thread \ {t} : got'[u] = got[u] /\ step'[u] = step[u] /\ reg'[u] = reg[u]
    BY <1>1, <1>3 DEF Continue
  <2>2. ASSUME NEW u \in Thread
        PROVE  /\ Len(got'[u]) \in Nat /\ Len(got'[u]) >= Len(got[u])
               /\ \A k \in 1 .. Len(got[u]) : got'[u][k] = got[u][k]
    <3>1. CASE u = t
      BY <1>1, <1>2, <2>1, <3>1
    <3>2. CASE u # t
      BY <1>1, <2>1, <3>2
    <3> QED
      BY <3>1, <3>2
  <2> QED
    BY <1>2, <1>3, <2>1, <2>2
<1>4. CASE step[t] # Len(Code(Call(t).name))
  <2>1. /\ got' = got /\ step'[t] = step[t] + 1 /\ reg'[t] = r
        /\ \A u \in Thread \ {t} : got'[u] = got[u] /\ step'[u] = step[u] /\ reg'[u] = reg[u]
    BY <1>1, <1>4 DEF Continue
  <2> QED
    BY <1>1, <1>4, <2>1
<1> QED
  BY <1>3, <1>4

\* A step of thread t.
Acts(t) == \/ LoadWord(t) \/ StoreWord(t) \/ AddWord(t) \/ FenceMemory(t)
           \/ CasSucceeds(t) \/ CasFails(t)

\* A step leaves alone all words but that of its thread's call, and all other threads.
LEMMA ActsAlone ==
    ASSUME IInv, NEW t \in Thread, Acts(t)
    PROVE  /\ Running(t) /\ Call(t) \in Calls /\ test' = test
           /\ \A a \in Address : a # Call(t).at => writes'[a] = writes[a]
           /\ Access(t).op \in {"load", "fence"} => writes' = writes
           /\ Access(t).op = "load" => LoadWord(t)
           /\ Access(t).op = "store" => StoreWord(t)
           /\ Access(t).op = "add" => AddWord(t)
           /\ Access(t).op = "fence" => FenceMemory(t)
           /\ Access(t).op \in {"cas", "weakcas"} => CasSucceeds(t) \/ CasFails(t)
           /\ Access(t).op \in {"load", "store", "add", "fence", "cas", "weakcas"}
           /\ \A u \in Thread \ {t} : /\ got'[u] = got[u] /\ step'[u] = step[u] /\ reg'[u] = reg[u]
                                     /\ view'[u] = view[u] /\ loaded'[u] = loaded[u] /\ fenced'[u] = fenced[u]
           /\ \A u \in Thread : /\ Len(got'[u]) \in Nat /\ Len(got'[u]) >= Len(got[u])
                                /\ \A k \in 1 .. Len(got[u]) : got'[u][k] = got[u][k]
           /\ got'[t] = got[t] \/ (step'[t] = 1 /\ \E r : got'[t] = Append(got[t], r))
<1> DEFINE op == Access(t).op
<1>1. Running(t) /\ test' = test
  BY DEF Acts, LoadWord, StoreWord, AddWord, FenceMemory, CasSucceeds, CasFails, AtCas, At
<1>2. Call(t) \in Calls /\ Call(t).at \in Address
  BY <1>1, CallType DEF Calls
<1>3. /\ LoadWord(t) => op = "load"
      /\ StoreWord(t) => op = "store"
      /\ AddWord(t) => op = "add"
      /\ FenceMemory(t) => op = "fence"
      /\ CasSucceeds(t) \/ CasFails(t) => op \in {"cas", "weakcas"}
  BY DEF LoadWord, StoreWord, AddWord, FenceMemory, CasSucceeds, CasFails, AtCas, At
<1>4. /\ \A a \in Address : a # Call(t).at => writes'[a] = writes[a]
      /\ LoadWord(t) \/ FenceMemory(t) => writes' = writes
  <2>1. CASE LoadWord(t) \/ FenceMemory(t) \/ CasFails(t)
    BY <2>1 DEF LoadWord, FenceMemory, CasFails, Read
  <2>2. ASSUME NEW v, NEW order, NEW from, Write(t, Call(t).at, v, order, from)
        PROVE  \A a \in Address : a # Call(t).at => writes'[a] = writes[a]
    BY <1>2, <2>2 DEF Write, IInv, TypeOK
  <2>3. CASE StoreWord(t) \/ AddWord(t) \/ CasSucceeds(t)
    <3>1. ~(LoadWord(t) \/ FenceMemory(t))
      BY <1>3, <2>3
    <3> QED
      BY <2>2, <2>3, <3>1 DEF StoreWord, AddWord, CasSucceeds
  <2> QED
    BY <2>1, <2>3 DEF Acts
<1>5. /\ step \in [Thread -> Nat] /\ reg \in [Thread -> Value \cup {NULL}] /\ got \in [Thread -> Seq(Value)]
      /\ \A u \in Thread : got[u] \in Seq(Value) /\ Len(got[u]) \in Nat
  BY Programs
<1>6. (\E r : Continue(t, r)) \/ Again(t) \/ (\E v : AgainWith(t, v))
  BY DEF Acts, LoadWord, StoreWord, AddWord, FenceMemory, CasSucceeds, CasFails, Retry
<1>7. /\ \A u \in Thread \ {t} : got'[u] = got[u] /\ step'[u] = step[u] /\ reg'[u] = reg[u]
      /\ got'[t] = got[t] \/ (step'[t] = 1 /\ \E r : got'[t] = Append(got[t], r))
  <2>1. CASE \E r : Continue(t, r)
    <3>1. PICK r : Continue(t, r)
      BY <2>1
    <3> QED
      BY <1>5, <3>1 DEF Continue
  <2>2. CASE Again(t) \/ \E v : AgainWith(t, v)
    BY <1>5, <2>2 DEF Again, AgainWith
  <2> QED
    BY <1>6, <2>1, <2>2
<1>8. ASSUME NEW u \in Thread
      PROVE  /\ Len(got'[u]) \in Nat /\ Len(got'[u]) >= Len(got[u])
             /\ \A k \in 1 .. Len(got[u]) : got'[u][k] = got[u][k]
  <2>1. CASE got'[u] = got[u]
    BY <1>5, <2>1
  <2>2. CASE got'[u] # got[u]
    <3>1. PICK r : u = t /\ got'[u] = Append(got[u], r)
      BY <1>7, <2>2
    <3> QED
      BY <1>5, <3>1
  <2> QED
    BY <2>1, <2>2
<1>9. \A u \in Thread \ {t} : view'[u] = view[u] /\ loaded'[u] = loaded[u] /\ fenced'[u] = fenced[u]
  <2> SUFFICES ASSUME NEW u \in Thread \ {t}
               PROVE  view'[u] = view[u] /\ loaded'[u] = loaded[u] /\ fenced'[u] = fenced[u]
    OBVIOUS
  <2>1. view \in [Thread -> View] /\ loaded \in [Thread -> View] /\ fenced \in [Thread -> View]
    BY DEF IInv, TypeOK
  <2>2. ASSUME NEW a, NEW i, NEW order, Read(t, a, i, order)
        PROVE  view'[u] = view[u] /\ loaded'[u] = loaded[u] /\ fenced'[u] = fenced[u]
    BY <2>1, <2>2 DEF Read
  <2>3. ASSUME NEW a, NEW v, NEW order, NEW from, Write(t, a, v, order, from)
        PROVE  view'[u] = view[u] /\ loaded'[u] = loaded[u] /\ fenced'[u] = fenced[u]
    BY <2>1, <2>3 DEF Write
  <2>4. CASE FenceMemory(t)
    BY <2>1, <2>4 DEF FenceMemory
  <2>5. CASE LoadWord(t) \/ CasFails(t)
    BY <2>2, <2>5 DEF LoadWord, CasFails
  <2>6. CASE StoreWord(t) \/ AddWord(t) \/ CasSucceeds(t)
    BY <2>3, <2>6 DEF StoreWord, AddWord, CasSucceeds
  <2> QED
    BY <2>4, <2>5, <2>6 DEF Acts
<1> HIDE DEF op
<1>10. /\ op = "load" => LoadWord(t)
       /\ op = "store" => StoreWord(t)
       /\ op = "add" => AddWord(t)
       /\ op = "fence" => FenceMemory(t)
       /\ op \in {"cas", "weakcas"} => CasSucceeds(t) \/ CasFails(t)
       /\ op \in {"load", "store", "add", "fence", "cas", "weakcas"}
       /\ op \in {"load", "fence"} => writes' = writes
  <2>1. /\ op = "load" => LoadWord(t)
        /\ op = "store" => StoreWord(t)
        /\ op = "add" => AddWord(t)
        /\ op = "fence" => FenceMemory(t)
        /\ op \in {"cas", "weakcas"} => CasSucceeds(t) \/ CasFails(t)
        /\ op \in {"load", "store", "add", "fence", "cas", "weakcas"}
    BY <1>3 DEF Acts
  <2> QED
    BY <1>4, <2>1
<1>11. /\ Access(t).op \in {"load", "fence"} => writes' = writes
       /\ Access(t).op = "load" => LoadWord(t)
       /\ Access(t).op = "store" => StoreWord(t)
       /\ Access(t).op = "add" => AddWord(t)
       /\ Access(t).op = "fence" => FenceMemory(t)
       /\ Access(t).op \in {"cas", "weakcas"} => CasSucceeds(t) \/ CasFails(t)
       /\ Access(t).op \in {"load", "store", "add", "fence", "cas", "weakcas"}
  BY <1>10, Zenon DEF op
<1>12. \A u \in Thread \ {t} : /\ got'[u] = got[u] /\ step'[u] = step[u] /\ reg'[u] = reg[u]
                                /\ view'[u] = view[u] /\ loaded'[u] = loaded[u] /\ fenced'[u] = fenced[u]
  BY <1>7, <1>9
<1>13. \A a \in Address : a # Call(t).at => writes'[a] = writes[a]
  BY <1>4
<1> QED
  BY <1>1, <1>2, <1>7, <1>8, <1>11, <1>12, <1>13

\* A step is one thread's.
LEMMA NextActs == [Next]_vars <=> UNCHANGED vars \/ \E t \in Thread : Acts(t)
  BY DEF Next, Acts

-----------------------------------------------------------------------------
(* Two flags. *)

\* Thread t of test x raises the flag a and looks at b.
Raises(x, t, a, b) == LET p == x.program[t]
                      IN /\ Len(p) = 2 /\ p[1].name = "write" /\ p[1].at = a /\ p[1].value # 0
                         /\ p[2].name = "read" /\ p[2].at = b

\* Nobody else does anything with the two flags.
FlagsOf(x, t, u, a, b) ==
    /\ t # u /\ a # b /\ Raises(x, t, a, b) /\ Raises(x, u, b, a)
    /\ \A s \in Thread \ {t, u} : \A k \in 1 .. Len(x.program[s]) : x.program[s][k].at \notin {a, b}

\* Flags are raised and looked at with C11.
Flagging == \A x \in Test : x.name = "flags" =>
    x.backend = "c11" /\ \E t, u \in Thread, a, b \in Address : FlagsOf(x, t, u, a, b)

\* A flag that has been raised stays so, and is before all that is ordered.
Raised(t, a) == /\ step[t] = 1
                /\ \A i \in 2 .. Len(writes[a]) : writes[a][i].value # 0
                /\ Len(got[t]) >= 1 => sc[a] >= 2

OneSees(t, u) == Len(got[t]) = 2 /\ Len(got[u]) = 2 => got[t][2] # 0 \/ got[u][2] # 0

FlagsInv == /\ IInv /\ ViewInv
            /\ test.name = "flags" => C11 /\ \E t, u \in Thread, a, b \in Address :
                  FlagsOf(test, t, u, a, b) /\ Raised(t, a) /\ Raised(u, b) /\ OneSees(t, u)

\* With C11 a read or a write is one access.
LEMMA PlainCode == ASSUME Known, C11
                   PROVE  Code("write") = <<Store("seq_cst")>> /\ Code("read") = <<Load("seq_cst")>>
<1>1. Code("write") = Basic["write"] /\ Code("read") = Basic["read"]
  BY DEF Code, Integer
<1> QED
  BY <1>1, BasicCode, MoreBasicCode

\* Where a thread is that raises and looks.
LEMMA RaiserAccess ==
    ASSUME IInv, C11, NEW t \in Thread, NEW a, NEW b, Raises(test, t, a, b), step[t] = 1, Running(t)
    PROVE  /\ \/ /\ Len(got[t]) = 0 /\ Access(t) = Store("seq_cst") /\ Call(t).at = a /\ Call(t).value # 0
              \/ Len(got[t]) = 1 /\ Access(t) = Load("seq_cst") /\ Call(t).at = b
           /\ step[t] = Len(Code(Call(t).name))
<1>1. Len(got[t]) \in Nat /\ Len(test.program[t]) = 2 /\ Known
  BY Programs DEF Raises
<1>2. Len(got[t]) \in {0, 1}
  <2>1. Len(got[t]) < 2
    BY <1>1 DEF Running
  <2>2. \A n \in Nat : n < 2 => n \in {0, 1}
    OBVIOUS
  <2> QED
    BY <1>1, <2>1, <2>2
<1>3. CASE Len(got[t]) = 0
  <2>1. Call(t) = test.program[t][1]
    BY <1>3 DEF Call
  <2> QED
    BY <1>1, <1>3, <2>1, PlainCode DEF Raises, Access
<1>4. CASE Len(got[t]) = 1
  <2>1. Call(t) = test.program[t][2]
    BY <1>4 DEF Call
  <2> QED
    BY <1>1, <1>4, <2>1, PlainCode DEF Raises, Access
<1> QED
  BY <1>2, <1>3, <1>4

\* The last access of a call, a store, returns 0.
LEMMA StoreOnce ==
    ASSUME IInv, ViewInv, NEW t \in Thread, StoreWord(t), step[t] = Len(Code(Call(t).name))
    PROVE  /\ Len(got'[t]) = Len(got[t]) + 1 /\ got'[t][Len(got[t]) + 1] = 0 /\ step'[t] = 1
           /\ Write(t, Call(t).at, Call(t).value, Access(t).order, NoView)
           /\ Call(t).at \in Address /\ Call(t).value \in Value /\ NoView \in View /\ Bounded(NoView)
<1>1. Running(t) /\ Continue(t, 0) /\ Write(t, Call(t).at, Call(t).value, Access(t).order, NoView)
  BY DEF StoreWord, At
<1>2. Call(t).at \in Address /\ Call(t).value \in Value
  BY <1>1, CallType DEF Calls
<1>3. NoView \in View /\ Bounded(NoView)
  BY Views DEF NoView, View, Bounded
<1> QED
  BY <1>1, <1>2, <1>3, Goes, ValueFacts

\* The last access of a call, a load, returns what it has read.
LEMMA LoadOnce ==
    ASSUME IInv, ViewInv, NEW t \in Thread, LoadWord(t), step[t] = Len(Code(Call(t).name))
    PROVE  /\ Len(got'[t]) = Len(got[t]) + 1 /\ step'[t] = 1 /\ writes' = writes
           /\ Call(t).at \in Address
           /\ \E i \in 1 .. Len(writes[Call(t).at]) :
                 /\ Read(t, Call(t).at, i, Access(t).order)
                 /\ got'[t][Len(got[t]) + 1] = writes[Call(t).at][i].value
<1>1. Running(t) /\ Call(t).at \in Address
  BY CallType DEF LoadWord, At, Calls
<1>2. PICK i \in 1 .. Len(writes[Call(t).at]) :
         Read(t, Call(t).at, i, Access(t).order) /\ Continue(t, writes[Call(t).at][i].value)
  BY DEF LoadWord
<1>3. writes[Call(t).at][i].value \in Value /\ writes' = writes
  BY <1>1, <1>2, ReadType
<1>4. /\ Len(got'[t]) = Len(got[t]) + 1 /\ step'[t] = 1
      /\ got'[t][Len(got[t]) + 1] = writes[Call(t).at][i].value
  BY <1>2, <1>3, Goes
<1> QED
  BY <1>1, <1>2, <1>3, <1>4

\* A flag stays raised.
LEMMA RaisedStep ==
    ASSUME IInv, ViewInv, C11, NEW t \in Thread, NEW u \in Thread, NEW a \in Address, NEW b \in Address,
           FlagsOf(test, t, u, a, b), Raised(t, a), Raised(u, b), NEW s \in Thread, Acts(s)
    PROVE  Raised(t, a)'
<1>1. /\ Running(s) /\ \A v \in Thread \ {s} : got'[v] = got[v] /\ step'[v] = step[v]
      /\ Call(s).at # a => writes'[a] = writes[a]
  BY ActsAlone
<1>2. sc'[a] >= sc[a] /\ sc[a] \in Nat /\ sc'[a] \in Nat
  <2>1. Grows /\ IInv'
    BY ViewStep, IInvStep, NextActs
  <2>2. sc \in View /\ sc' \in View
    BY <2>1 DEF IInv, TypeOK
  <2> QED
    BY <2>1, <2>2, ViewNat DEF Grows, Before
<1>3. CASE s = t
  <2>1. /\ \/ /\ Len(got[t]) = 0 /\ Access(t) = Store("seq_cst") /\ Call(t).at = a /\ Call(t).value # 0
           \/ Len(got[t]) = 1 /\ Access(t) = Load("seq_cst") /\ Call(t).at = b
        /\ step[t] = Len(Code(Call(t).name))
    BY <1>1, <1>3, RaiserAccess DEF FlagsOf, Raised
  <2>2. CASE Len(got[t]) = 0
    <3>1. StoreWord(t) /\ Access(t).order = "seq_cst"
      BY <1>3, <2>1, <2>2, ActsAlone DEF Store
    <3>2. /\ step'[t] = 1 /\ Write(t, a, Call(t).value, "seq_cst", NoView)
          /\ Call(t).value \in Value /\ NoView \in View /\ Bounded(NoView)
      BY <2>1, <2>2, <3>1, StoreOnce
    <3>3. sc'[a] = Len(writes[a]) + 1 /\ Len(writes[a]) \in Nat /\ Len(writes[a]) >= 1
      BY <3>2, WriteViews, Views
    <3>4. /\ Len(writes'[a]) = Len(writes[a]) + 1
          /\ writes'[a][Len(writes[a]) + 1].value = Call(t).value
          /\ \A i \in 1 .. Len(writes[a]) : writes'[a][i] = writes[a][i]
      BY <3>2, WriteType
    <3>5. ASSUME NEW i \in 2 .. Len(writes'[a]) PROVE writes'[a][i].value # 0
      <4>1. CASE i = Len(writes[a]) + 1
        BY <2>1, <2>2, <3>4, <4>1
      <4>2. CASE i # Len(writes[a]) + 1
        <5>1. i \in 2 .. Len(writes[a]) /\ i \in 1 .. Len(writes[a])
          BY <3>3, <3>4, <4>2
        <5> QED
          BY <3>4, <5>1 DEF Raised
      <4> QED
        BY <4>1, <4>2
    <3> QED
      BY <3>2, <3>3, <3>5 DEF Raised
  <2>3. CASE Len(got[t]) = 1
    <3>1. LoadWord(t)
      BY <1>3, <2>1, <2>3, ActsAlone DEF Load
    <3>2. step'[t] = 1 /\ writes' = writes
      BY <2>1, <3>1, LoadOnce
    <3> QED
      BY <1>2, <2>3, <3>2 DEF Raised
  <2> QED
    BY <2>1, <2>2, <2>3
<1>4. CASE s # t
  <2>1. writes'[a] = writes[a]
    <3>1. CASE s = u
      <4>1. Call(u).at = b \/ Access(u) = Load("seq_cst")
        BY <1>1, <3>1, RaiserAccess DEF FlagsOf, Raised
      <4>2. CASE Call(u).at = b
        BY <1>1, <3>1, <4>2 DEF FlagsOf
      <4>3. CASE Access(u) = Load("seq_cst")
        BY <3>1, <4>3, ActsAlone DEF Load
      <4> QED
        BY <4>1, <4>2, <4>3
    <3>2. CASE s # u
      <4>1. Len(got[s]) + 1 \in 1 .. Len(test.program[s])
        BY <1>1, Programs DEF Running
      <4>2. Call(s).at # a
        BY <1>4, <3>2, <4>1 DEF FlagsOf, Call
      <4> QED
        BY <1>1, <4>2
    <3> QED
      BY <3>1, <3>2
  <2> QED
    BY <1>1, <1>2, <1>4, <2>1 DEF Raised
<1> QED
  BY <1>3, <1>4

\* Who looks when the other flag has been raised sees it.
LEMMA LooksAfter ==
    ASSUME IInv, ViewInv, C11, NEW t \in Thread, NEW u \in Thread, NEW a \in Address, NEW b \in Address,
           FlagsOf(test, t, u, a, b), Raised(t, a), Raised(u, b), Acts(t), Len(got'[t]) = 2, Len(got[u]) >= 1
    PROVE  got'[t][2] # 0
<1>1. Running(t) /\ Len(got[t]) < 2
  BY ActsAlone DEF FlagsOf, Raises, Running
<1>2. /\ \/ /\ Len(got[t]) = 0 /\ Access(t) = Store("seq_cst")
         \/ Len(got[t]) = 1 /\ Access(t) = Load("seq_cst") /\ Call(t).at = b
      /\ step[t] = Len(Code(Call(t).name))
  BY <1>1, RaiserAccess DEF FlagsOf, Raised
<1>3. CASE Len(got[t]) = 0
  <2>1. StoreWord(t)
    BY <1>2, <1>3, ActsAlone DEF Store
  <2> QED
    BY <1>2, <1>3, <2>1, StoreOnce
<1>4. CASE Len(got[t]) = 1
  <2>1. LoadWord(t) /\ Access(t).order = "seq_cst" /\ Call(t).at = b
    BY <1>2, <1>4, ActsAlone DEF Load
  <2>2. PICK i \in 1 .. Len(writes[b]) :
           Read(t, b, i, "seq_cst") /\ got'[t][Len(got[t]) + 1] = writes[b][i].value
    BY <1>2, <2>1, LoadOnce
  <2>3. i >= sc[b] /\ sc[b] >= 2 /\ sc[b] \in Nat
    BY <2>2, Views, ViewNat DEF Read, Raised
  <2>4. i \in 2 .. Len(writes[b])
    BY <2>3, Views
  <2> QED
    BY <1>4, <2>2, <2>4 DEF Raised
<1> QED
  BY <1>2, <1>3, <1>4

\* Every step keeps the flags raised and what was seen of them.
LEMMA FlagsStep == FlagsInv /\ [Next]_vars => FlagsInv'
<1> SUFFICES ASSUME FlagsInv, [Next]_vars, test.name = "flags"
             PROVE  C11' /\ \E t, u \in Thread, a, b \in Address :
                       FlagsOf(test', t, u, a, b) /\ Raised(t, a)' /\ Raised(u, b)' /\ OneSees(t, u)'
  <2>1. FlagsInv /\ [Next]_vars => IInv' /\ ViewInv' /\ test' = test
    BY IInvStep, ViewStep, NextActs, ActsAlone DEF FlagsInv, vars
  <2> QED
    BY <2>1 DEF FlagsInv
<1>1. IInv /\ ViewInv /\ C11
  BY DEF FlagsInv
<1>2. PICK t \in Thread, u \in Thread, a \in Address, b \in Address :
         FlagsOf(test, t, u, a, b) /\ Raised(t, a) /\ Raised(u, b) /\ OneSees(t, u)
  BY DEF FlagsInv
<1>3. CASE UNCHANGED vars
  BY <1>1, <1>2, <1>3 DEF vars, C11, Raised, OneSees
<1>4. ASSUME NEW s \in Thread, Acts(s)
      PROVE  C11' /\ FlagsOf(test', t, u, a, b) /\ Raised(t, a)' /\ Raised(u, b)' /\ OneSees(t, u)'
  <2>1. FlagsOf(test, u, t, b, a)
    BY <1>2 DEF FlagsOf
  <2>2. Raised(t, a)' /\ Raised(u, b)'
    BY <1>1, <1>2, <1>4, <2>1, RaisedStep
  <2>3. test' = test /\ \A v \in Thread \ {s} : got'[v] = got[v]
    BY <1>1, <1>4, ActsAlone
  <2>4. t # u
    BY <1>2 DEF FlagsOf
  <2>5. ASSUME Len(got'[t]) = 2, Len(got'[u]) = 2 PROVE got'[t][2] # 0 \/ got'[u][2] # 0
    <3>1. CASE s = t
      <4>1. Len(got[u]) = 2
        BY <2>3, <2>4, <2>5, <3>1
      <4> QED
        BY <1>1, <1>2, <1>4, <2>5, <3>1, <4>1, LooksAfter
    <3>2. CASE s = u
      <4>1. Len(got[t]) = 2
        BY <2>3, <2>4, <2>5, <3>2
      <4> QED
        BY <1>1, <1>2, <1>4, <2>1, <2>5, <3>2, <4>1, LooksAfter
    <3>3. CASE s # t /\ s # u
      BY <1>2, <2>3, <2>5, <3>3 DEF OneSees
    <3> QED
      BY <3>1, <3>2, <3>3
  <2> QED
    BY <1>1, <1>2, <2>2, <2>3, <2>5 DEF C11, OneSees
<1> QED
  BY <1>2, <1>3, <1>4, NextActs

\* "_read/_write use sequential consistency": with C11 one of two threads that each raise a
\* flag and then look at the other's finds it raised, whatever further threads do elsewhere.
THEOREM OneSeesTheOtherTheorem == Flagging => (Spec => []OneSeesTheOther)
<1> SUFFICES ASSUME Flagging PROVE Spec => []OneSeesTheOther
  OBVIOUS
<1>1. Init => FlagsInv
  <2> SUFFICES ASSUME Init, test.name = "flags"
               PROVE  C11 /\ \E t, u \in Thread, a, b \in Address :
                         FlagsOf(test, t, u, a, b) /\ Raised(t, a) /\ Raised(u, b) /\ OneSees(t, u)
    BY IInvInit, ViewInit DEF FlagsInv
  <2>1. /\ test \in Test /\ \A t \in Thread : step[t] = 1 /\ Len(got[t]) = 0
        /\ \A a \in Address : Len(writes[a]) = 1
    BY DEF Init
  <2> QED
    BY <2>1 DEF Flagging, C11, Raised, OneSees
<1>2. FlagsInv /\ [Next]_vars => FlagsInv'
  BY FlagsStep
<1>3. FlagsInv => OneSeesTheOther
  <2> SUFFICES ASSUME FlagsInv, test.name = "flags", \A t \in Thread : ~Running(t)
               PROVE  \E d \in Done({"read"}) : Result(d) # 0
    BY DEF OneSeesTheOther
  <2>1. PICK t \in Thread, u \in Thread, a \in Address, b \in Address :
           FlagsOf(test, t, u, a, b) /\ OneSees(t, u)
    BY DEF FlagsInv
  <2>2. ASSUME NEW s \in Thread, NEW x, NEW y, Raises(test, s, x, y)
        PROVE  Len(got[s]) = 2 /\ <<s, 2>> \in Done({"read"}) /\ Result(<<s, 2>>) = got[s][2]
    <3>1. Len(got[s]) = 2
      BY <2>2, Programs DEF FlagsInv, Running, Raises
    <3>2. <<s, 2>> \in Returned
      BY <3>1, Positions DEF Returned
    <3>3. CallOf(<<s, 2>>).name = "read" /\ Result(<<s, 2>>) = got[s][2]
      BY <2>2 DEF CallOf, Raises, Result
    <3> QED
      BY <3>1, <3>2, <3>3 DEF Done
  <2>3. /\ Len(got[t]) = 2 /\ <<t, 2>> \in Done({"read"}) /\ Result(<<t, 2>>) = got[t][2]
        /\ Len(got[u]) = 2 /\ <<u, 2>> \in Done({"read"}) /\ Result(<<u, 2>>) = got[u][2]
    BY <2>1, <2>2 DEF FlagsOf
  <2> QED
    BY <2>1, <2>3 DEF OneSees
<1> QED
  BY <1>1, <1>2, <1>3, PTL DEF Spec

-----------------------------------------------------------------------------
(* Two references. *)

\* Thread t of test x writes a, gives up its reference with f, and looks at b.
GivesUp(x, t, a, b, f) ==
    LET p == x.program[t]
    IN /\ Len(p) = 3 /\ p[1].name = "write_nonatomic" /\ p[1].at = a /\ p[1].value = 1
       /\ p[2].name = "decrement" /\ p[2].at = f
       /\ p[3].name = "read_nonatomic" /\ p[3].at = b

\* Nobody else does anything with the three words.
ReferencesOf(x, t, u, a, b, f) ==
    /\ t # u /\ a # b /\ f \notin {a, b} /\ GivesUp(x, t, a, b, f) /\ GivesUp(x, u, b, a, f)
    /\ \A s \in Thread \ {t, u} : \A k \in 1 .. Len(x.program[s]) :
          x.program[s][k].at \notin {a, b, f} /\ x.program[s][k].name # "read_nonatomic"

\* References are counted with C11.
Referring == \A x \in Test : x.name = "refcount" =>
    /\ x.backend = "c11" /\ x.kind = "pointer"
    /\ \E t, u \in Thread, a, b, f \in Address : ReferencesOf(x, t, u, a, b, f)

\* What t has written, it is ordered after.
Prepared(t, a) == /\ step[t] = 1
                  /\ \A i \in 2 .. Len(writes[a]) : writes[a][i].value = 1
                  /\ Len(got[t]) >= 1 => view[t][a] >= 2

\* The count passes on what was written by the thread that alone has given up its reference.
PassesOn(t, u, a, f) == Len(got[t]) >= 2 /\ Len(got[u]) < 2 =>
                            Last(f).value = Word - 1 /\ Last(f).view[a] >= 2

\* The thread that took the last reference is ordered after what the other wrote.
TookLast(t, b) == Len(got[t]) >= 2 /\ got[t][2] = Word - 1 =>
                      view[t][b] >= 2 /\ (Len(got[t]) >= 3 => got[t][3] = 1)

Counted(t, u, a, b, f) ==
    /\ Prepared(t, a) /\ Prepared(u, b) /\ PassesOn(t, u, a, f) /\ PassesOn(u, t, b, f)
    /\ TookLast(t, b) /\ TookLast(u, a)
    /\ Len(got[t]) < 2 /\ Len(got[u]) < 2 => Last(f).value = 0

ReferencesInv == /\ IInv /\ ViewInv
                 /\ test.name = "refcount" => /\ C11 /\ test.kind = "pointer"
                       /\ \E t, u \in Thread, a, b, f \in Address :
                            ReferencesOf(test, t, u, a, b, f) /\ Counted(t, u, a, b, f)

\* With C11 each of the three calls is one access.
LEMMA ReferenceCode == ASSUME Known, C11, test.kind = "pointer"
                       PROVE  /\ Code("write_nonatomic") = <<Store("relaxed")>>
                              /\ Code("decrement") = <<Add("seq_cst")>>
                              /\ Code("read_nonatomic") = <<Load("relaxed")>>
<1>1. /\ Code("write_nonatomic") = Basic["write_nonatomic"] /\ Code("decrement") = Basic["add"]
      /\ Code("read_nonatomic") = Basic["read_nonatomic"]
  BY DEF Code, Integer
<1> QED
  BY <1>1, BasicCode, MoreBasicCode

\* Where a thread is that gives up its reference.
LEMMA HolderAccess ==
    ASSUME IInv, C11, test.kind = "pointer", NEW t \in Thread, NEW a, NEW b, NEW f,
           GivesUp(test, t, a, b, f), step[t] = 1, Running(t)
    PROVE  /\ step[t] = Len(Code(Call(t).name))
           /\ \/ Len(got[t]) = 0 /\ Access(t) = Store("relaxed") /\ Call(t).at = a /\ Call(t).value = 1
              \/ Len(got[t]) = 1 /\ Access(t) = Add("seq_cst") /\ Call(t).at = f /\ Call(t).name = "decrement"
              \/ Len(got[t]) = 2 /\ Access(t) = Load("relaxed") /\ Call(t).at = b
<1>1. PICK n, p : n = Len(got[t]) /\ p = test.program[t]
  OBVIOUS
<1>2. n \in Nat /\ n < 3 /\ Known /\ Call(t) = p[n + 1]
  BY <1>1, Programs DEF GivesUp, Running, Call
<1>3. n \in {0, 1, 2}
  BY <1>2
<1>4. /\ p[1].name = "write_nonatomic" /\ p[1].at = a /\ p[1].value = 1
      /\ p[2].name = "decrement" /\ p[2].at = f /\ p[3].name = "read_nonatomic" /\ p[3].at = b
  BY <1>1 DEF GivesUp
<1>5. CASE n = 0
  BY <1>1, <1>2, <1>4, <1>5, ReferenceCode DEF Access
<1>6. CASE n = 1
  BY <1>1, <1>2, <1>4, <1>6, ReferenceCode DEF Access
<1>7. CASE n = 2
  BY <1>1, <1>2, <1>4, <1>7, ReferenceCode DEF Access
<1> QED
  BY <1>3, <1>5, <1>6, <1>7

\* An addition in a call of one access.
LEMMA AddOnce ==
    ASSUME IInv, ViewInv, NEW t \in Thread, AddWord(t), step[t] = Len(Code(Call(t).name))
    PROVE  LET last == Last(Call(t).at)
           IN /\ Len(got'[t]) = Len(got[t]) + 1 /\ got'[t][Len(got[t]) + 1] = Added(Call(t), last.value)
              /\ step'[t] = 1 /\ Call(t).at \in Address
              /\ last.value \in Value /\ last.view \in View /\ Bounded(last.view)
              /\ (last.value + Diff(Call(t))) % Word \in Value
              /\ Write(t, Call(t).at, (last.value + Diff(Call(t))) % Word, Access(t).order, last.view)
<1>1. PICK last : last = Last(Call(t).at)
  OBVIOUS
<1>2. /\ Running(t) /\ Continue(t, Added(Call(t), last.value))
      /\ Write(t, Call(t).at, (last.value + Diff(Call(t))) % Word, Access(t).order, last.view)
  BY <1>1 DEF AddWord, At
<1>3. Call(t) \in Calls /\ Call(t).at \in Address
  BY <1>2, CallType DEF Calls
<1>4. last.value \in Value /\ last.view \in View /\ Bounded(last.view)
  <2>1. Len(writes[Call(t).at]) \in 1 .. Len(writes[Call(t).at])
    BY <1>3, Views
  <2> QED
    BY <1>1, <1>3, <2>1, LastType DEF ViewInv, Last
<1>5. (last.value + Diff(Call(t))) % Word \in Value
  <2>1. Diff(Call(t)) \in Nat
    BY <1>3, AtomicPointerAssumption DEF Calls, Diff, Value
  <2> QED
    BY <1>4, <2>1, SumType
<1>6. Added(Call(t), last.value) \in Value
  BY <1>3, <1>4, ResultType
<1> QED
  BY <1>1, <1>2, <1>3, <1>4, <1>5, <1>6, Goes

\* What a step does for the thread t, and for what the count passes on of it.
LEMMA CountedStep ==
    ASSUME IInv, ViewInv, C11, test.kind = "pointer", NEW t \in Thread, NEW u \in Thread,
           NEW a \in Address, NEW b \in Address, NEW f \in Address,
           ReferencesOf(test, t, u, a, b, f), Counted(t, u, a, b, f), NEW s \in Thread, Acts(s)
    PROVE  /\ Prepared(t, a)' /\ PassesOn(t, u, a, f)' /\ TookLast(t, b)'
           /\ s = t /\ Len(got'[t]) < 2 => writes'[f] = writes[f]
           /\ s \notin {t, u} => writes'[f] = writes[f]
<1>1. /\ Running(s) /\ \A v \in Thread \ {s} : got'[v] = got[v] /\ step'[v] = step[v]
      /\ \A x \in Address : Call(s).at # x => writes'[x] = writes[x]
      /\ Len(got'[t]) \in Nat /\ Len(got'[u]) \in Nat /\ Len(got'[t]) >= Len(got[t])
      /\ \A k \in 1 .. Len(got[t]) : got'[t][k] = got[t][k]
  BY ActsAlone
<1>2. \A x \in Address : view'[t][x] >= view[t][x] /\ view'[t][x] \in Nat /\ view[t][x] \in Nat
  <2>1. Grows /\ IInv'
    BY ViewStep, IInvStep, NextActs
  <2>2. view[t] \in View /\ view'[t] \in View
    BY <2>1 DEF IInv, TypeOK
  <2> QED
    BY <2>1, <2>2, ViewNat DEF Grows, Before
<1>3. t # u /\ a # b /\ f # a /\ f # b /\ Len(got[t]) \in Nat /\ Len(got[u]) \in Nat /\ Word \in Nat /\ Word > 1
  BY Programs, AtomicPointerAssumption DEF ReferencesOf
<1>0. /\ step[t] = 1 /\ step[u] = 1 /\ GivesUp(test, t, a, b, f) /\ GivesUp(test, u, b, a, f)
      /\ \A i \in 2 .. Len(writes[a]) : writes[a][i].value = 1
      /\ \A i \in 2 .. Len(writes[b]) : writes[b][i].value = 1
      /\ Len(got[t]) >= 1 => view[t][a] >= 2
  BY DEF Counted, Prepared, ReferencesOf
<1>4. CASE s = t
  <2>1. /\ step[t] = Len(Code(Call(t).name))
        /\ \/ Len(got[t]) = 0 /\ Access(t) = Store("relaxed") /\ Call(t).at = a /\ Call(t).value = 1
           \/ Len(got[t]) = 1 /\ Access(t) = Add("seq_cst") /\ Call(t).at = f /\ Call(t).name = "decrement"
           \/ Len(got[t]) = 2 /\ Access(t) = Load("relaxed") /\ Call(t).at = b
    <3>1. Running(t)
      BY <1>1, <1>4
    <3> QED
      BY <1>0, <3>1, HolderAccess
  <2>2. CASE Len(got[t]) = 0
    <3>1. StoreWord(t)
      BY <1>4, <2>1, <2>2, ActsAlone DEF Store
    <3>0. Access(t).order = "relaxed" /\ Call(t).at = a /\ Call(t).value = 1
      BY <2>1, <2>2 DEF Store
    <3>2. /\ step'[t] = 1 /\ Len(got'[t]) = 1 /\ Write(t, a, 1, "relaxed", NoView)
          /\ NoView \in View /\ Bounded(NoView) /\ 1 \in Value
      <4>1. /\ Len(got'[t]) = Len(got[t]) + 1 /\ step'[t] = 1
            /\ Write(t, Call(t).at, Call(t).value, Access(t).order, NoView)
            /\ NoView \in View /\ Bounded(NoView)
        BY <2>1, <3>1, StoreOnce
      <4> QED
        BY <2>2, <3>0, <4>1, ValueFacts
    <3>3. view'[t][a] = Len(writes[a]) + 1 /\ Len(writes[a]) \in Nat /\ Len(writes[a]) >= 1
      BY <3>2, WriteViews, Views
    <3>4. /\ Len(writes'[a]) = Len(writes[a]) + 1 /\ writes'[a][Len(writes[a]) + 1].value = 1
          /\ \A i \in 1 .. Len(writes[a]) : writes'[a][i] = writes[a][i]
      BY <3>2, WriteType
    <3>5. ASSUME NEW i \in 2 .. Len(writes'[a]) PROVE writes'[a][i].value = 1
      <4>1. CASE i = Len(writes[a]) + 1
        BY <3>4, <4>1
      <4>2. CASE i # Len(writes[a]) + 1
        <5>1. i \in 2 .. Len(writes[a]) /\ i \in 1 .. Len(writes[a])
          BY <3>3, <3>4, <4>2
        <5> QED
          BY <1>0, <3>4, <5>1
      <4> QED
        BY <4>1, <4>2
    <3>6. writes'[f] = writes[f]
      BY <1>1, <1>3, <1>4, <2>1, <2>2
    <3> QED
      BY <1>1, <1>3, <1>4, <3>2, <3>3, <3>5, <3>6 DEF Prepared, PassesOn, TookLast
  <2>3. CASE Len(got[t]) = 1
    <3>1. AddWord(t)
      BY <1>4, <2>1, <2>3, ActsAlone DEF Add
    <3> DEFINE v == (Last(f).value + Diff(Call(t))) % Word
    <3>2. /\ step'[t] = 1 /\ Len(got'[t]) = 2 /\ got'[t][2] = Last(f).value
          /\ Last(f).value \in Value /\ Last(f).view \in View /\ Bounded(Last(f).view)
          /\ v \in Value /\ Write(t, f, v, "seq_cst", Last(f).view)
      <4>1. Access(t).order = "seq_cst" /\ Call(t).at = f /\ Added(Call(t), Last(f).value) = Last(f).value
        BY <2>1, <2>3 DEF Add, Added
      <4>2. LET last == Last(Call(t).at)
            IN /\ Len(got'[t]) = Len(got[t]) + 1 /\ got'[t][Len(got[t]) + 1] = Added(Call(t), last.value)
               /\ step'[t] = 1
               /\ last.value \in Value /\ last.view \in View /\ Bounded(last.view)
               /\ (last.value + Diff(Call(t))) % Word \in Value
               /\ Write(t, Call(t).at, (last.value + Diff(Call(t))) % Word, Access(t).order, last.view)
        BY <2>1, <3>1, AddOnce
      <4> HIDE DEF v
      <4>3. /\ Len(got'[t]) = Len(got[t]) + 1 /\ got'[t][Len(got[t]) + 1] = Last(f).value
            /\ step'[t] = 1 /\ Last(f).value \in Value /\ Last(f).view \in View /\ Bounded(Last(f).view)
            /\ v \in Value /\ Write(t, f, v, "seq_cst", Last(f).view)
        BY <4>1, <4>2 DEF v
      <4> QED
        BY <2>3, <4>3
    <3>3. writes'[a] = writes[a]
      BY <1>1, <1>3, <1>4, <2>1, <2>3
    <3>4. Prepared(t, a)'
      BY <1>0, <1>2, <1>3, <2>3, <3>2, <3>3 DEF Prepared
    <3>5. TookLast(t, b)'
      <4>1. SUFFICES ASSUME Last(f).value = Word - 1 PROVE view'[t][b] >= 2
        BY <3>2 DEF TookLast
      <4>2. Len(got[u]) >= 2
        BY <1>3, <2>3, <4>1 DEF Counted
      <4>3. Last(f).view[b] >= 2
        BY <2>3, <4>2 DEF Counted, PassesOn
      <4>4. Before(Last(f).view, view'[t])
        BY <3>2, WriteViews
      <4>5. Last(f).view[b] <= view'[t][b] /\ Last(f).view[b] \in Nat
        BY <3>2, <4>4, ViewNat DEF Before
      <4> QED
        BY <1>2, <4>3, <4>5
    <3>6. PassesOn(t, u, a, f)'
      <4>1. SUFFICES ASSUME Len(got[u]) < 2 PROVE (Last(f).value = Word - 1)' /\ (Last(f).view[a] >= 2)'
        BY <1>1, <1>3, <1>4 DEF PassesOn
      <4>2. Last(f).value = 0 /\ Diff(Call(t)) = Word - 1
        BY <2>1, <2>3, <4>1 DEF Diff, Loops, Counted
      <4>3. v = Word - 1
        BY <1>3, <4>2
      <4> HIDE DEF v
      <4>4. /\ Len(writes'[f]) = Len(writes[f]) + 1 /\ writes'[f][Len(writes[f]) + 1].value = v
        BY <3>2, WriteType
      <4>5. Last(f)' = writes'[f][Len(writes[f]) + 1]
        BY <4>4 DEF Last
      <4>6. /\ Last(f)'.view \in View /\ Last(f)'.view[a] >= view[t][a]
        BY <1>3, <3>2, <4>5, WriteViews
      <4>7. Last(f)'.view[a] \in Nat /\ view[t][a] >= 2
        BY <1>0, <2>3, <4>6, ViewNat
      <4> QED
        BY <1>2, <4>3, <4>4, <4>5, <4>6, <4>7
    <3> QED
      BY <1>4, <3>2, <3>4, <3>5, <3>6
  <2>4. CASE Len(got[t]) = 2
    <3>1. LoadWord(t)
      BY <1>4, <2>1, <2>4, ActsAlone DEF Load
    <3>2. step'[t] = 1 /\ Len(got'[t]) = 3 /\ writes' = writes
      <4>1. step'[t] = 1 /\ Len(got'[t]) = Len(got[t]) + 1 /\ writes' = writes
        BY <2>1, <3>1, LoadOnce
      <4> QED
        BY <2>4, <4>1
    <3>3. PICK i \in 1 .. Len(writes[b]) : Read(t, b, i, "relaxed") /\ got'[t][3] = writes[b][i].value
      <4>1. Access(t).order = "relaxed" /\ Call(t).at = b /\ Len(got[t]) + 1 = 3
        BY <2>1, <2>4 DEF Load
      <4>2. \E i \in 1 .. Len(writes[Call(t).at]) :
               /\ Read(t, Call(t).at, i, Access(t).order)
               /\ got'[t][Len(got[t]) + 1] = writes[Call(t).at][i].value
        BY <2>1, <3>1, LoadOnce
      <4> QED
        BY <4>1, <4>2
    <3>4. got'[t][2] = got[t][2]
      BY <1>1, <2>4
    <3>5. TookLast(t, b)'
      <4>1. SUFFICES ASSUME got[t][2] = Word - 1 PROVE view'[t][b] >= 2 /\ got'[t][3] = 1
        BY <3>4 DEF TookLast
      <4>2. view[t][b] >= 2
        BY <2>4, <4>1 DEF Counted, TookLast
      <4>3. i >= view[t][b] /\ Len(writes[b]) \in Nat
        BY <3>3, Views DEF Read
      <4>4. i \in 2 .. Len(writes[b])
        BY <1>2, <4>2, <4>3
      <4> QED
        BY <1>0, <1>2, <3>3, <4>2, <4>4
    <3>6. PassesOn(t, u, a, f)'
      BY <1>1, <1>3, <1>4, <2>4, <3>2 DEF Last, Counted, PassesOn
    <3>7. Prepared(t, a)'
      BY <1>0, <1>2, <2>4, <3>2 DEF Prepared
    <3> QED
      BY <1>4, <3>2, <3>5, <3>6, <3>7
  <2> QED
    BY <2>1, <2>2, <2>3, <2>4
<1>5. CASE s # t
  <2>1. view'[t] = view[t] /\ got'[t] = got[t] /\ step'[t] = step[t]
    <3>1. view'[t] = view[t]
      BY <1>5, ActsAlone
    <3> QED
      BY <1>1, <1>5, <3>1
  <2>2. writes'[a] = writes[a] /\ (Len(got'[u]) < 2 => writes'[f] = writes[f])
        /\ (s # u => writes'[f] = writes[f])
    <3>1. CASE s = u
      <4>1. /\ step[u] = Len(Code(Call(u).name))
            /\ \/ Len(got[u]) = 0 /\ Access(u) = Store("relaxed") /\ Call(u).at = b /\ Call(u).value = 1
               \/ Len(got[u]) = 1 /\ Access(u) = Add("seq_cst") /\ Call(u).at = f /\ Call(u).name = "decrement"
               \/ Len(got[u]) = 2 /\ Access(u) = Load("relaxed") /\ Call(u).at = a
        <5>1. Running(u)
          BY <1>1, <3>1
        <5> QED
          BY <1>0, <5>1, HolderAccess
      <4>2. CASE Len(got[u]) = 0
        BY <1>1, <1>3, <3>1, <4>1, <4>2
      <4>3. CASE Len(got[u]) = 1
        <5>1. AddWord(u)
          BY <3>1, <4>1, <4>3, ActsAlone DEF Add
        <5>2. Len(got'[u]) = 2
          <6>1. Len(got'[u]) = Len(got[u]) + 1
            BY <4>1, <5>1, AddOnce
          <6> QED
            BY <4>3, <6>1
        <5> QED
          BY <1>1, <1>3, <3>1, <4>1, <4>3, <5>2
      <4>4. CASE Len(got[u]) = 2
        BY <3>1, <4>1, <4>4, ActsAlone DEF Load
      <4> QED
        BY <4>1, <4>2, <4>3, <4>4
    <3>2. CASE s # u
      <4>1. Len(got[s]) + 1 \in 1 .. Len(test.program[s])
        BY <1>1, Programs DEF Running
      <4>2. Call(s).at # a /\ Call(s).at # f
        BY <1>5, <3>2, <4>1 DEF ReferencesOf, Call
      <4> QED
        BY <1>1, <4>2
    <3> QED
      BY <3>1, <3>2
  <2>3. Prepared(t, a)' /\ TookLast(t, b)'
    BY <2>1, <2>2 DEF Counted, Prepared, TookLast
  <2>4. PassesOn(t, u, a, f)'
    <3>1. SUFFICES ASSUME Len(got'[t]) >= 2, Len(got'[u]) < 2
                   PROVE  (Last(f).value = Word - 1)' /\ (Last(f).view[a] >= 2)'
      BY DEF PassesOn
    <3>2. Last(f)' = Last(f) /\ Len(got[t]) >= 2
      BY <2>1, <2>2, <3>1 DEF Last
    <3>3. Len(got[u]) < 2
      BY <1>1, <1>3, <3>1, ActsAlone
    <3> QED
      BY <3>2, <3>3 DEF Counted, PassesOn
  <2> QED
    BY <1>5, <2>2, <2>3, <2>4
<1> QED
  BY <1>4, <1>5

\* Every step keeps the count, and what was written before it.
LEMMA ReferencesStep == ReferencesInv /\ [Next]_vars => ReferencesInv'
<1> SUFFICES ASSUME ReferencesInv, [Next]_vars, test.name = "refcount"
             PROVE  /\ C11' /\ test'.kind = "pointer"
                    /\ \E t, u \in Thread, a, b, f \in Address :
                          ReferencesOf(test', t, u, a, b, f) /\ Counted(t, u, a, b, f)'
  <2>1. ReferencesInv /\ [Next]_vars => IInv' /\ ViewInv' /\ test' = test
    BY IInvStep, ViewStep, NextActs, ActsAlone DEF ReferencesInv, vars
  <2> QED
    BY <2>1 DEF ReferencesInv
<1>1. IInv /\ ViewInv /\ C11 /\ test.kind = "pointer"
  BY DEF ReferencesInv
<1>2. PICK t \in Thread, u \in Thread, a \in Address, b \in Address, f \in Address :
         ReferencesOf(test, t, u, a, b, f) /\ Counted(t, u, a, b, f)
  BY DEF ReferencesInv
<1>3. CASE UNCHANGED vars
  BY <1>1, <1>2, <1>3 DEF vars, C11, Counted, Prepared, PassesOn, TookLast, Last
<1>4. ASSUME NEW s \in Thread, Acts(s)
      PROVE  ReferencesOf(test', t, u, a, b, f) /\ Counted(t, u, a, b, f)' /\ test' = test
  <2>1. ReferencesOf(test, u, t, b, a, f)
    BY <1>2 DEF ReferencesOf
  <2>2. Counted(u, t, b, a, f)
    BY <1>2 DEF Counted
  <2>3. /\ Prepared(t, a)' /\ PassesOn(t, u, a, f)' /\ TookLast(t, b)'
        /\ s = t /\ Len(got'[t]) < 2 => writes'[f] = writes[f]
        /\ s \notin {t, u} => writes'[f] = writes[f]
    BY <1>1, <1>2, <1>4, CountedStep
  <2>4. /\ Prepared(u, b)' /\ PassesOn(u, t, b, f)' /\ TookLast(u, a)'
        /\ s = u /\ Len(got'[u]) < 2 => writes'[f] = writes[f]
    BY <1>1, <1>4, <2>1, <2>2, CountedStep
  <2>5. /\ test' = test /\ Len(got'[t]) >= Len(got[t]) /\ Len(got'[u]) >= Len(got[u])
        /\ Len(got'[t]) \in Nat /\ Len(got'[u]) \in Nat /\ Len(got[t]) \in Nat /\ Len(got[u]) \in Nat
    BY <1>1, <1>4, ActsAlone, Programs
  <2>6. ASSUME Len(got'[t]) < 2, Len(got'[u]) < 2 PROVE Last(f)'.value = 0
    <3>1. writes'[f] = writes[f]
      BY <2>3, <2>4, <2>6
    <3>2. Last(f).value = 0
      BY <1>2, <2>5, <2>6 DEF Counted
    <3> QED
      BY <3>1, <3>2 DEF Last
  <2> QED
    BY <1>2, <2>3, <2>4, <2>5, <2>6 DEF Counted
<1> QED
  BY <1>1, <1>2, <1>3, <1>4, NextActs DEF C11

\* The thread that gives up the last of two references finds, with C11, what the other wrote
\* before it gave up its own, though that was written and is read without any order.
THEOREM LastReferenceSeesTheorem == Referring => (Spec => []LastReferenceSees)
<1> SUFFICES ASSUME Referring PROVE Spec => []LastReferenceSees
  OBVIOUS
<1>1. Init => ReferencesInv
  <2> SUFFICES ASSUME Init, test.name = "refcount"
               PROVE  /\ C11 /\ test.kind = "pointer"
                      /\ \E t, u \in Thread, a, b, f \in Address :
                            ReferencesOf(test, t, u, a, b, f) /\ Counted(t, u, a, b, f)
    BY IInvInit, ViewInit DEF ReferencesInv
  <2>1. /\ test \in Test /\ \A t \in Thread : step[t] = 1 /\ Len(got[t]) = 0
        /\ \A a \in Address : Len(writes[a]) = 1 /\ Last(a).value = 0
    BY DEF Init, Last
  <2>2. \A t, u \in Thread, a, b, f \in Address : Counted(t, u, a, b, f)
    BY <2>1 DEF Counted, Prepared, PassesOn, TookLast
  <2> QED
    BY <2>1, <2>2 DEF Referring, C11
<1>2. ReferencesInv /\ [Next]_vars => ReferencesInv'
  BY ReferencesStep
<1>3. ReferencesInv => LastReferenceSees
  <2> SUFFICES ASSUME ReferencesInv, test.name = "refcount", NEW s \in Thread, LooksLast(s), got[s][2] = Word - 1
               PROVE  got[s][3] = 1
    BY DEF LastReferenceSees
  <2>1. PICK t \in Thread, u \in Thread, a \in Address, b \in Address, f \in Address :
           ReferencesOf(test, t, u, a, b, f) /\ Counted(t, u, a, b, f)
    BY DEF ReferencesInv
  <2>2. PICK n : n = Len(got[s])
    OBVIOUS
  <2>3. n \in Nat /\ n = Len(test.program[s]) /\ n > 0 /\ test.program[s][n].name = "read_nonatomic"
    <3>1. n \in Nat /\ n <= Len(test.program[s]) /\ Len(test.program[s]) \in Nat
      BY <2>2, Programs DEF ReferencesInv
    <3>2. ~(n < Len(test.program[s])) /\ n > 0 /\ CallOf(<<s, n>>).name = "read_nonatomic"
      BY <2>2 DEF LooksLast, Running
    <3>3. \A m \in Nat : n <= m /\ ~(n < m) => n = m
      BY <3>1
    <3>4. n = Len(test.program[s])
      BY <3>1, <3>2, <3>3
    <3> QED
      BY <3>1, <3>2, <3>4 DEF CallOf
  <2>4. s \in {t, u}
    <3>1. n \in 1 .. Len(test.program[s])
      BY <2>3
    <3> QED
      BY <2>1, <2>3, <3>1 DEF ReferencesOf
  <2>5. n = 3
    BY <2>1, <2>3, <2>4 DEF ReferencesOf, GivesUp
  <2>6. TookLast(t, b) /\ TookLast(u, a) /\ Len(got[s]) = 3
    BY <2>1, <2>2, <2>5 DEF Counted
  <2>7. CASE s = t
    BY <2>6, <2>7 DEF TookLast
  <2>8. CASE s = u
    BY <2>6, <2>8 DEF TookLast
  <2> QED
    BY <2>4, <2>7, <2>8
<1> QED
  BY <1>1, <1>2, <1>3, PTL DEF Spec

-----------------------------------------------------------------------------
(* Sums. *)

\* A number is a multiple and a remainder.
LEMMA Division == ASSUME NEW W \in Nat \ {0}, NEW x \in Nat
                  PROVE  x = W * (x \div W) + (x % W) /\ x % W \in 0 .. W - 1 /\ x \div W \in Int
  BY Z3

\* A positive multiple is no less than the number.
LEMMA Multiple == ASSUME NEW W \in Nat \ {0}, NEW k \in Int, k >= 1 PROVE W * k >= W
  BY Z3

\* A number has one remainder.
LEMMA OneRemainder ==
    ASSUME NEW W \in Nat \ {0}, NEW q \in Int, NEW p \in Int, NEW s \in 0 .. W - 1, NEW r \in 0 .. W - 1,
           W * q + s = W * p + r
    PROVE  s = r
<1>1. W * (q - p) = r - s
  BY Z3
<1>2. CASE q - p >= 1
  BY <1>1, <1>2, Multiple, Z3
<1>3. CASE p - q >= 1
  <2>1. W * (p - q) = s - r
    BY Z3
  <2> QED
    BY <2>1, <1>3, Multiple, Z3
<1>4. CASE p = q
  BY <1>4, Z3
<1> QED
  BY <1>2, <1>3, <1>4

\* Whether a sum is taken modulo a number once or after each addition is the same.
LEMMA SumRemainder ==
    ASSUME NEW W \in Nat \ {0}, NEW x \in Nat, NEW n \in Nat
    PROVE  ((x % W) + n) % W = (x + n) % W
<1>1. PICK q \in Int, r \in 0 .. W - 1 : x = W * q + r /\ r = x % W
  BY Division
<1>2. r + n \in Nat /\ x + n \in Nat
  OBVIOUS
<1>3. PICK p \in Int, s \in 0 .. W - 1 : r + n = W * p + s /\ s = (r + n) % W
  BY <1>2, Division
<1>4. PICK p2 \in Int, s2 \in 0 .. W - 1 : x + n = W * p2 + s2 /\ s2 = (x + n) % W
  BY <1>2, Division
<1>5. W * (q + p) + s = W * p2 + s2 /\ q + p \in Int
  <2>1. W * (q + p) = W * q + W * p
    BY Z3
  <2>2. PICK u \in Int, v \in Int, w \in Int : u = W * q /\ v = W * p /\ w = W * p2
    BY Z3
  <2>3. x = u + r /\ r + n = v + s /\ x + n = w + s2 /\ r \in Int /\ s \in Int /\ s2 \in Int
    BY <1>1, <1>3, <1>4, <2>2
  <2>4. u + v + s = w + s2
    BY <2>3
  <2>5. W * (q + p) + s = W * p2 + s2
    BY <2>1, <2>2, <2>4
  <2> QED
    BY <2>5
<1>6. s = s2
  BY <1>5, OneRemainder
<1> QED
  BY <1>1, <1>3, <1>4, <1>6

\* The calls that write nothing.
Readers == {"read", "read_relaxed", "read_acquire", "read_nonatomic",
            "intptr_read", "intptr_read_nonatomic", "barrier"}

\* A word that is added to is not written in other ways: the other calls there read it.
Summing == \A x \in Test : \A t, u \in Thread :
    \A j \in 1 .. Len(x.program[t]), k \in 1 .. Len(x.program[u]) :
       x.program[t][j].name \in Adders /\ x.program[u][k].at = x.program[t][j].at =>
          x.kind = "pointer" /\ x.program[u][k].name \in Adders \cup Readers

\* A word that is added to.
Total(a) == \E d \in All : CallOf(d).at = a /\ CallOf(d).name \in Adders

\* The additions to a that have been made.
MadeAt(a) == {d \in Made : CallOf(d).at = a /\ CallOf(d).name \in Adders}

\* It is what the calls whose addition has been made have added.
Sum(a) == /\ IsFiniteSet(Units(MadeAt(a)))
          /\ Last(a).value = Cardinality(Units(MadeAt(a))) % Word

\* Who calls for such a word is inside of the call's code.
InSum(t) == Running(t) /\ (\E a \in Address : Total(a) /\ Call(t).at = a) =>
                step[t] <= Len(Code(Call(t).name))

\* The sums are right at every access.
SumInv == /\ IInv
          /\ \A t \in Thread : InSum(t)
          /\ \A a \in Address : Total(a) => Sum(a)

\* Reading is a load, with a fence behind it or not, and so is the barrier.
LEMMA ReaderCode ==
    ASSUME Known, NEW name \in Readers
    PROVE  /\ Len(Code(name)) \in Nat /\ Len(Code(name)) >= 1
           /\ \A k \in 1 .. Len(Code(name)) : Code(name)[k].op \in {"load", "fence"}
<1>1. \/ Code(name) = Basic["read"] \/ Code(name) = Basic["read_relaxed"]
      \/ Code(name) = Basic["read_acquire"] \/ Code(name) = Basic["read_nonatomic"]
      \/ Code(name) = Basic["barrier"]
  BY DEF Code, Integer, Readers, Loops
<1> DEFINE Plain(c) == /\ Len(c) \in Nat /\ Len(c) >= 1
                       /\ \A k \in 1 .. Len(c) : c[k].op \in {"load", "fence"}
<1>2. ASSUME NEW x, x.op \in {"load", "fence"} PROVE Plain(<<x>>)
  <2>1. Len(<<x>>) = 1 /\ <<x>>[1] = x
    OBVIOUS
  <2>2. \A k \in 1 .. 1 : k = 1
    OBVIOUS
  <2> QED
    BY <1>2, <2>1, <2>2
<1>3. ASSUME NEW x, NEW y, x.op \in {"load", "fence"}, y.op \in {"load", "fence"} PROVE Plain(<<x, y>>)
  <2>1. Len(<<x, y>>) = 2 /\ <<x, y>>[1] = x /\ <<x, y>>[2] = y
    OBVIOUS
  <2>2. \A k \in 1 .. 2 : k = 1 \/ k = 2
    OBVIOUS
  <2> QED
    BY <1>3, <2>1, <2>2
<1>4. /\ \A order : Load(order).op = "load"
      /\ Fence.op = "fence" /\ AcquireFence.op = "fence"
  BY DEF Load, Fence, AcquireFence
<1> HIDE DEF Plain
<1>5. Plain(Code(name))
  <2>1. \/ \E order : Code(name) = <<Load(order)>>
        \/ Code(name) = <<Load("relaxed"), Fence>> \/ Code(name) = <<Load("relaxed"), AcquireFence>>
        \/ Code(name) = <<Fence>>
    BY <1>1, BasicCode, MoreBasicCode
  <2>2. ASSUME NEW order PROVE Plain(<<Load(order)>>)
    BY <1>2, <1>4
  <2>3. /\ Plain(<<Load("relaxed"), Fence>>) /\ Plain(<<Load("relaxed"), AcquireFence>>)
        /\ Plain(<<Fence>>)
    BY <1>2, <1>3, <1>4
  <2> QED
    BY <2>1, <2>2, <2>3
<1> QED
  BY <1>5 DEF Plain

\* The calls at a word that is added to.
LEMMA TotalCalls ==
    ASSUME Summing, IInv, NEW a, Total(a), NEW d \in All, CallOf(d).at = a
    PROVE  test.kind = "pointer" /\ CallOf(d).name \in Adders \cup Readers
<1>1. PICK e \in All : CallOf(e).at = a /\ CallOf(e).name \in Adders
  BY DEF Total
<1>2. /\ d[1] \in Thread /\ d[2] \in 1 .. Len(test.program[d[1]])
      /\ e[1] \in Thread /\ e[2] \in 1 .. Len(test.program[e[1]])
      /\ test \in Test
  BY DEF All, IInv, TypeOK
<1> QED
  BY <1>1, <1>2 DEF Summing, CallOf

\* One more call adds its difference.
LEMMA UnitsOfOneMore ==
    ASSUME NEW S, IsFiniteSet(Units(S)), NEW d, d \notin S, Diff(CallOf(d)) \in Nat
    PROVE  /\ IsFiniteSet(Units(S \cup {d}))
           /\ Cardinality(Units(S \cup {d})) = Cardinality(Units(S)) + Diff(CallOf(d))
<1> DEFINE n == Diff(CallOf(d))
           more == {d} \X (1 .. n)
<1>1. Units(S \cup {d}) = Units(S) \cup more
  BY DEF Units
<1>2. Units(S) \cap more = {}
  BY DEF Units
<1>3. IsFiniteSet(more) /\ Cardinality(more) = n
  <2>1. IsFiniteSet({d}) /\ Cardinality({d}) = 1
    BY FS_Singleton
  <2> HIDE DEF n
  <2>5. n \in Nat
    BY DEF n
  <2>2. IsFiniteSet(1 .. n) /\ Cardinality(1 .. n) = n
    <3>1. IsFiniteSet(1 .. n) /\ Cardinality(1 .. n) = IF 1 > n THEN 0 ELSE n - 1 + 1
      BY <2>5, FS_Interval
    <3> QED
      BY <2>5, <3>1
  <2>3. /\ IsFiniteSet({d} \X (1 .. n))
        /\ Cardinality({d} \X (1 .. n)) = Cardinality({d}) * Cardinality(1 .. n)
    BY <2>1, <2>2, FS_Product
  <2> QED
    BY <2>1, <2>2, <2>3, <2>5
<1> HIDE DEF more, n
<1>4. IsFiniteSet(Units(S) \cup more) /\ Cardinality(Units(S) \cup more) = Cardinality(Units(S)) + Cardinality(more)
  <2>1. /\ IsFiniteSet(Units(S) \cup more)
        /\ Cardinality(Units(S) \cup more)
              = Cardinality(Units(S)) + Cardinality(more) - Cardinality(Units(S) \cap more)
    BY <1>3, FS_Union
  <2>2. Cardinality(Units(S) \cap more) = 0
    BY <1>2, FS_EmptySet
  <2>3. Cardinality(Units(S)) \in Nat /\ Cardinality(more) \in Nat
    BY <1>3, FS_CardinalityType
  <2> QED
    BY <2>1, <2>2, <2>3
<1> QED
  BY <1>1, <1>3, <1>4 DEF n

\* A step of thread t makes no other call's addition.
LEMMA OthersMade ==
    ASSUME IInv, NEW t \in Thread, Acts(t)
    PROVE  /\ All' = All /\ \A d : CallOf(d)' = CallOf(d)
           /\ \A d \in All : d # <<t, Len(got[t]) + 1>> => (d \in Made' <=> d \in Made)
<1>1. /\ Running(t) /\ test' = test
      /\ \A u \in Thread \ {t} : got'[u] = got[u] /\ step'[u] = step[u]
  BY ActsAlone
<1>2. \A u \in Thread \ {t} : Pending(u)' = Pending(u)
  BY <1>1 DEF Pending, Running, Call
<1>3. All' = All /\ \A d : CallOf(d)' = CallOf(d)
  BY <1>1 DEF All, CallOf
<1>4. PICK n \in Nat : n = Len(got[t])
  BY Programs
<1>5. got'[t] = got[t] \/ (Len(got'[t]) = n + 1 /\ ~Pending(t)')
  <2>2. got'[t] = got[t] \/ (step'[t] = 1 /\ \E r : got'[t] = Append(got[t], r))
    BY ActsAlone
  <2>3. \A r : Len(Append(got[t], r)) = n + 1
    BY <1>4, Programs
  <2>4. step'[t] = 1 => ~Pending(t)'
    BY DEF Pending
  <2> QED
    BY <2>2, <2>3, <2>4
<1>6. ASSUME NEW d \in All, d # <<t, n + 1>>
      PROVE  d \in Made' <=> d \in Made
  <2>1. d[1] \in Thread /\ d[2] \in Nat /\ (d[1] = t => d[2] # n + 1)
    BY <1>6 DEF All
  <2>2. CASE d[1] = t
    <3>1. d \in Made <=> d[2] <= n
      BY <1>4, <2>1, <2>2 DEF Made
    <3>2. CASE got'[t] = got[t]
      BY <1>3, <1>4, <2>1, <2>2, <3>1, <3>2 DEF Made
    <3>3. CASE Len(got'[t]) = n + 1 /\ ~Pending(t)'
      BY <1>3, <2>1, <2>2, <3>1, <3>3 DEF Made
    <3> QED
      BY <1>5, <3>2, <3>3
  <2>3. CASE d[1] # t
    BY <1>1, <1>2, <1>3, <2>1, <2>3 DEF Made
  <2> QED
    BY <2>2, <2>3
<1> QED
  BY <1>3, <1>4, <1>6

\* A step keeps the place of every thread in its calls at words that are added to.
LEMMA InSumStep ==
    ASSUME Summing, IInv, IInv', \A u \in Thread : InSum(u), NEW t \in Thread, Acts(t)
    PROVE  \A u \in Thread : InSum(u)'
<1> SUFFICES ASSUME NEW u \in Thread, Running(u)', NEW a \in Address, Total(a)', Call(u)'.at = a
             PROVE  step'[u] <= Len(Code(Call(u).name)')
  BY DEF InSum
<1>1. /\ test' = test /\ \A name : Code(name)' = Code(name)
      /\ All' = All /\ \A d : CallOf(d)' = CallOf(d)
      /\ \A v \in Thread \ {t} : got'[v] = got[v] /\ step'[v] = step[v]
  <2>1. test' = test /\ \A v \in Thread \ {t} : got'[v] = got[v] /\ step'[v] = step[v]
    BY ActsAlone
  <2>2. \A name : Code(name)' = Code(name)
    BY <2>1 DEF Code, Basic
  <2> QED
    BY <2>1, <2>2, OthersMade
<1>2. Total(a)
  BY <1>1 DEF Total
<1>3. PICK d : d = <<u, Len(got'[u]) + 1>>
  OBVIOUS
<1>4. d \in All /\ Call(u)' = CallOf(d)
  <2>1. Len(got'[u]) \in Nat /\ Len(test.program[u]) \in Nat
    BY Programs, ActsAlone
  <2>2. Len(got'[u]) < Len(test.program[u])
    BY <1>1 DEF Running
  <2> QED
    BY <1>1, <1>3, <2>1, <2>2 DEF All, Call, CallOf
<1>5. test.kind = "pointer" /\ Call(u)'.name \in Adders \cup Readers
  BY <1>2, <1>4, TotalCalls
<1>6. CASE step'[u] = 1
  <2>1. Known
    BY Programs
  <2>2. Len(Code(Call(u)'.name)) >= 1
    BY <1>5, <2>1, AdderCodes, ReaderCode
  <2> QED
    BY <1>1, <1>6, <2>2
<1>7. CASE step'[u] # 1
  <2>1. (\E r : Continue(t, r)) \/ Again(t) \/ (\E v : AgainWith(t, v) /\ Call(t).name = "set")
    BY DEF Acts, LoadWord, StoreWord, AddWord, FenceMemory, CasSucceeds, CasFails, Retry
  <2>2. \/ step'[u] = step[u] /\ got'[u] = got[u] /\ u # t
        \/ u = t /\ got'[u] = got[u] /\ step'[u] = step[u] + 1 /\ step[u] # Len(Code(Call(u).name))
        \/ u = t /\ got'[u] = got[u] /\ Call(t).name = "set"
    BY <1>1, <1>7, <2>1, Programs DEF Continue, Again, AgainWith
  <2>3. Running(u) /\ Call(u)' = Call(u)
    BY <1>1, <2>2 DEF Running, Call
  <2>4. step[u] <= Len(Code(Call(u).name)) /\ Call(u).name # "set"
    BY <1>2, <1>5, <2>3 DEF InSum, Adders, Loops, Readers
  <2>5. step[u] \in Nat /\ Len(Code(Call(u).name)) \in Nat
    <3>1. Known /\ step[u] \in Nat
      BY Programs
    <3> QED
      BY <1>5, <2>3, <3>1, AdderCodes, ReaderCode
  <2> QED
    BY <1>1, <2>2, <2>3, <2>4, <2>5
<1> QED
  BY <1>6, <1>7

\* A step that neither writes a word nor makes an addition to it keeps its sum.
LEMMA SumKept ==
    ASSUME IInv, NEW t \in Thread, Acts(t), NEW a \in Address, Sum(a), writes'[a] = writes[a],
           NEW me, me = <<t, Len(got[t]) + 1>>, me \in All,
           CallOf(me).at = a /\ CallOf(me).name \in Adders => (me \in Made' <=> me \in Made)
    PROVE  Sum(a)'
<1>1. /\ Made \subseteq All /\ Made' \subseteq All /\ \A d : CallOf(d)' = CallOf(d)
      /\ \A d \in All : d # me => (d \in Made' <=> d \in Made)
  BY OthersMade DEF Made
<1>2. MadeAt(a)' = MadeAt(a)
  BY <1>1 DEF MadeAt
<1>3. \A S : Units(S)' = Units(S)
  BY <1>1 DEF Units, Diff
<1>4. Last(a)' = Last(a)
  BY DEF Last
<1>5. Units(MadeAt(a))' = Units(MadeAt(a))
  BY <1>1, <1>2 DEF Units, Diff
<1> QED
  BY <1>4, <1>5 DEF Sum

\* An addition to a word is added to its sum.
LEMMA SumGrows ==
    ASSUME IInv, NEW t \in Thread, Acts(t), NEW a \in Address, Sum(a),
           NEW me, me = <<t, Len(got[t]) + 1>>, me \in All, me \notin Made, me \in Made',
           CallOf(me).at = a, CallOf(me).name \in Adders, Diff(CallOf(me)) \in Nat,
           NEW v \in Value, v = (Last(a).value + Diff(CallOf(me))) % Word,
           NEW order, NEW from \in View, Write(t, a, v, order, from)
    PROVE  Sum(a)'
<1> DEFINE n == Diff(CallOf(me))
           before == Units(MadeAt(a))
           after == Units(MadeAt(a) \cup {me})
<1>1. /\ Made \subseteq All /\ Made' \subseteq All /\ \A d : CallOf(d)' = CallOf(d)
      /\ \A d \in All : d # me => (d \in Made' <=> d \in Made)
  BY OthersMade DEF Made
<1>2. MadeAt(a)' = MadeAt(a) \cup {me} /\ me \notin MadeAt(a)
  BY <1>1 DEF MadeAt
<1>3. Units(MadeAt(a))' = after
  BY <1>1, <1>2 DEF Units, Diff
<1>4. /\ IsFiniteSet(before) /\ Last(a).value = Cardinality(before) % Word
      /\ IsFiniteSet(after) /\ Cardinality(after) = Cardinality(before) + n
  BY <1>2, UnitsOfOneMore DEF Sum
<1>5. Last(a)'.value = v
  BY WriteType DEF Last
<1> HIDE DEF n, before, after
<1>6. Cardinality(before) \in Nat /\ n \in Nat /\ Word \in Nat \ {0}
  BY <1>4, FS_CardinalityType, AtomicPointerAssumption DEF n
<1>7. v = ((Cardinality(before) % Word) + n) % Word
  <2>1. PICK x : x = Last(a).value
    OBVIOUS
  <2>2. v = (x + Diff(CallOf(me))) % Word /\ x = Cardinality(before) % Word
    BY <1>4, <2>1, Zenon
  <2>3. v = (x + n) % Word
    BY <2>2, Zenon DEF n
  <2> QED
    BY <2>2, <2>3, Zenon
<1>8. v = Cardinality(after) % Word
  <2>1. PICK c \in Nat : c = Cardinality(before)
    BY <1>6
  <2>2. ((c % Word) + n) % Word = (c + n) % Word
    BY <1>6, SumRemainder
  <2> QED
    BY <1>4, <1>7, <2>1, <2>2, Zenon
<1> QED
  BY <1>3, <1>4, <1>5, <1>8 DEF Sum

\* Loads and fences go on with a value of a word.
LEMMA ContinuesWith ==
    ASSUME IInv, NEW t \in Thread, Running(t), Call(t).at \in Address, LoadWord(t) \/ FenceMemory(t)
    PROVE  \E r \in Value : Continue(t, r)
<1>1. CASE LoadWord(t)
  <2>1. PICK i \in 1 .. Len(writes[Call(t).at]) :
          /\ Read(t, Call(t).at, i, Access(t).order)
          /\ Continue(t, writes[Call(t).at][i].value)
    BY <1>1 DEF LoadWord
  <2> QED
    BY <2>1, ReadType
<1>2. CASE FenceMemory(t)
  <2>1. Continue(t, IF reg[t] = NULL THEN 0 ELSE reg[t])
    BY <1>2 DEF FenceMemory
  <2>2. (IF reg[t] = NULL THEN 0 ELSE reg[t]) \in Value
    BY ValueFacts DEF IInv, TypeOK
  <2> QED
    BY <2>1, <2>2
<1> QED
  BY <1>1, <1>2

\* Every step keeps the sums.
LEMMA SumStep == Summing /\ SumInv /\ [Next]_vars => SumInv'
<1> SUFFICES ASSUME Summing, SumInv, [Next]_vars PROVE SumInv'
  OBVIOUS
<1>1. IInv /\ IInv' /\ \A u \in Thread : InSum(u)
  BY IInvStep DEF SumInv
<1>2. CASE UNCHANGED vars
  <2>1. \A name : Code(name)' = Code(name)
    BY <1>2 DEF vars, Code, Basic
  <2>2. \A u \in Thread : InSum(u)'
    BY <1>1, <1>2, <2>1 DEF vars, InSum, Running, Call, Total, All, CallOf
  <2>3. \A a \in Address : Total(a)' => Sum(a)'
    <3>1. All' = All /\ (\A d : CallOf(d)' = CallOf(d)) /\ \A u \in Thread : Pending(u)' = Pending(u)
      BY <1>2 DEF vars, All, CallOf, Pending, Running, Call
    <3>2. Made' = Made
      BY <1>2, <3>1 DEF vars, Made, All
    <3>3. \A a \in Address : MadeAt(a)' = MadeAt(a)
      BY <3>1, <3>2 DEF MadeAt
    <3>4. \A a \in Address : Units(MadeAt(a))' = Units(MadeAt(a)) /\ Last(a)' = Last(a)
      BY <1>2, <3>1, <3>3 DEF vars, Units, Diff, Last
    <3> QED
      BY <3>1, <3>4 DEF SumInv, Total, Sum
  <2> QED
    BY <1>1, <2>2, <2>3 DEF SumInv
<1>3. ASSUME NEW t \in Thread, Acts(t) PROVE SumInv'
  <2>1. \A u \in Thread : InSum(u)'
    BY <1>1, <1>3, InSumStep
  <2> SUFFICES ASSUME NEW a \in Address, Total(a)' PROVE Sum(a)'
    BY <1>1, <2>1 DEF SumInv
  <2>2. Total(a) /\ Sum(a)
    BY <1>1, <1>3, OthersMade DEF SumInv, Total
  <2>3. Running(t) /\ Call(t) \in Calls /\ test' = test /\ Known
    BY <1>1, <1>3, ActsAlone, Programs
  <2>4. PICK me : me = <<t, Len(got[t]) + 1>>
    OBVIOUS
  <2>5. me \in All /\ CallOf(me) = Call(t)
    <3>1. Len(got[t]) \in Nat /\ Len(test.program[t]) \in Nat
      BY <1>1, Programs
    <3>2. Len(got[t]) < Len(test.program[t])
      BY <2>3 DEF Running
    <3> QED
      BY <2>4, <3>1, <3>2 DEF All, Call, CallOf
  <2>6. CASE Call(t).at # a
    <3>1. writes'[a] = writes[a]
      BY <1>1, <1>3, <2>6, ActsAlone
    <3> QED
      BY <1>1, <1>3, <2>2, <2>4, <2>5, <2>6, <3>1, SumKept
  <2>7. ASSUME Call(t).at = a
        PROVE  /\ test.kind = "pointer" /\ Call(t).name \in Adders \cup Readers
               /\ step[t] \in Nat /\ step[t] >= 1 /\ step[t] <= Len(Code(Call(t).name))
    <3>1. step[t] \in Nat /\ step[t] >= 1
      BY <1>1, Programs
    <3> QED
      BY <1>1, <2>2, <2>3, <2>5, <2>7, <3>1, TotalCalls DEF InSum
  <2>8. CASE Call(t).at = a /\ Call(t).name \notin Adders
    <3>1. Access(t).op \in {"load", "fence"}
      BY <2>3, <2>7, <2>8, ReaderCode DEF Access
    <3>2. writes'[a] = writes[a]
      BY <1>1, <1>3, <3>1, ActsAlone
    <3> QED
      BY <1>1, <1>3, <2>2, <2>4, <2>5, <2>8, <3>2, SumKept
  <2>9. CASE Call(t).at = a /\ Call(t).name \in Adders
    <3>1. PICK n \in Nat : n = Len(Code(Call(t).name)) /\ step[t] <= n
      BY <2>3, <2>7, <2>9, AdderCodes
    <3>2. /\ Call(t).name \in Loops =>
                \/ Access(t).op \in {"load", "fence"} /\ step[t] < n
                \/ Access(t).op \in {"cas", "weakcas"} /\ step[t] = n
          /\ Call(t).name \notin Loops =>
                \/ step[t] = 1 /\ Access(t).op = "add"
                \/ step[t] = 2 /\ Access(t).op = "fence" /\ n = 2
      BY <2>3, <2>7, <2>9, <3>1, AdderSteps
    <3>3. ASSUME writes' = writes, me \in Made' <=> me \in Made PROVE Sum(a)'
      BY <1>1, <1>3, <2>2, <2>4, <2>5, <3>3, SumKept
    <3>4. me \in Made <=> Pending(t)
      BY <1>1, <2>4, <2>5, Programs DEF Made
    <3>5. CASE Access(t).op \in {"load", "fence"}
      <4>1. writes' = writes /\ (LoadWord(t) \/ FenceMemory(t))
        BY <1>1, <1>3, <3>5, ActsAlone
      <4>2. PICK r \in Value : Continue(t, r)
        BY <1>1, <2>3, <2>9, <4>1, ContinuesWith
      <4>3. me \in Made' <=> me \in Made
        <5>1. CASE Call(t).name \in Loops
          <6>1. step[t] # n /\ ~Pending(t)
            BY <2>7, <2>9, <3>1, <3>2, <3>5, <5>1 DEF Pending
          <6> QED
            BY <1>1, <2>3, <2>4, <3>1, <4>2, <5>1, <6>1, MadeBy
        <5>2. CASE Call(t).name \notin Loops
          <6>1. step[t] = n /\ Pending(t)
            BY <2>3, <3>1, <3>2, <3>5, <5>2 DEF Pending
          <6> QED
            BY <1>1, <2>3, <2>4, <2>5, <3>1, <3>4, <4>2, <6>1, MadeBy
        <5> QED
          BY <5>1, <5>2
      <4> QED
        BY <3>3, <4>1, <4>3
    <3>6. CASE Access(t).op = "add"
      <4>1. /\ AddWord(t) /\ Call(t).name \notin Loops /\ step[t] = 1
        BY <1>1, <1>3, <3>2, <3>6, ActsAlone
      <4>2. Last(a).value \in Value /\ Last(a).view \in View /\ Diff(Call(t)) \in Nat
        BY <1>1, <2>3, LastType, AtomicPointerAssumption DEF Calls, Diff, Value
      <4> DEFINE r == Added(Call(t), Last(a).value)
                 v == (Last(a).value + Diff(Call(t))) % Word
      <4>3. Write(t, a, v, Access(t).order, Last(a).view) /\ Continue(t, r)
        BY <2>9, <4>1 DEF AddWord
      <4>4. v \in Value /\ r \in Value
        BY <2>3, <4>2, SumType, ResultType
      <4>5. v = (Last(a).value + Diff(CallOf(me))) % Word
        BY <2>5
      <4> HIDE DEF r, v
      <4>6. me \notin Made /\ me \in Made'
        <5>1. ~Pending(t)
          BY <4>1 DEF Pending
        <5> QED
          BY <1>1, <2>3, <2>4, <2>5, <3>4, <4>1, <4>3, <4>4, <5>1, MadeBy
      <4> QED
        BY <1>1, <1>3, <2>2, <2>4, <2>5, <2>9, <4>2, <4>3, <4>4, <4>5, <4>6, SumGrows
    <3>7. CASE Access(t).op \in {"cas", "weakcas"} /\ CasSucceeds(t)
      <4>1. Call(t).name \in Loops /\ step[t] = n /\ AtCas(t)
        BY <3>2, <3>7 DEF CasSucceeds
      <4>2. Last(a).value \in Value /\ Last(a).view \in View /\ Diff(Call(t)) = 1
        BY <1>1, <4>1, LastType DEF Diff, Loops
      <4>3. /\ Expect(t) = reg[t] /\ New(t) = (reg[t] + 1) % Word
            /\ Swapped(Call(t), TRUE, Expect(t)) = reg[t] /\ Last(a).value = reg[t]
        BY <2>9, <3>7, <4>1 DEF CasSucceeds, Expect, New, Swapped, Loops
      <4>4. Write(t, a, New(t), Access(t).order, Last(a).view) /\ Continue(t, reg[t])
        BY <2>9, <3>7, <4>3 DEF CasSucceeds
      <4>5. New(t) \in Value /\ reg[t] \in Value
        BY <1>1, <4>1, <4>2, <4>3, NewType
      <4>6. New(t) = (Last(a).value + Diff(CallOf(me))) % Word
        BY <2>5, <4>2, <4>3
      <4>7. me \notin Made /\ me \in Made'
        <5>1. ~Pending(t)
          BY <4>1 DEF Pending
        <5> QED
          BY <1>1, <2>3, <2>4, <2>5, <3>1, <3>4, <4>1, <4>4, <4>5, <5>1, MadeBy
      <4>8. Diff(CallOf(me)) \in Nat
        BY <2>5, <4>2
      <4> QED
        BY <1>1, <1>3, <2>2, <2>4, <2>5, <2>9, <4>2, <4>4, <4>5, <4>6, <4>7, <4>8, SumGrows
    <3>8. CASE Access(t).op \in {"cas", "weakcas"} /\ CasFails(t)
      <4>1. Call(t).name \in Loops
        BY <3>2, <3>8
      <4>2. Again(t) /\ writes' = writes
        <5>1. PICK i \in 1 .. Len(writes[a]) :
                /\ Read(t, a, i, Access(t).order)
                /\ Retry(t, writes[a][i].value)
          BY <2>9, <3>8 DEF CasFails
        <5> QED
          BY <4>1, <5>1 DEF Retry, Read, Loops
      <4>3. me \notin Made
        BY <3>4, <4>1 DEF Pending
      <4>4. me \notin Made'
        <5>1. Len(got[t]) \in Nat /\ step'[t] # 2 /\ got' = got
          BY <1>1, <4>2, Programs DEF Again
        <5> QED
          BY <2>4, <5>1 DEF Made, Pending
      <4> QED
        BY <3>3, <4>2, <4>3, <4>4
    <3> QED
      BY <1>1, <1>3, <3>2, <3>5, <3>6, <3>7, <3>8, ActsAlone
  <2> QED
    BY <2>6, <2>8, <2>9
<1> QED
  BY <1>2, <1>3, NextActs

\* At first nothing has been added.
LEMMA SumInit == Summing /\ Init => SumInv
<1> SUFFICES ASSUME Summing, Init PROVE SumInv
  OBVIOUS
<1>1. IInv /\ Known
  BY IInvInit, Programs
<1>2. ASSUME NEW t \in Thread PROVE InSum(t)
  <2> SUFFICES ASSUME Running(t), NEW a \in Address, Total(a), Call(t).at = a
               PROVE  step[t] <= Len(Code(Call(t).name))
    BY DEF InSum
  <2>1. <<t, 1>> \in All /\ Call(t) = CallOf(<<t, 1>>) /\ step[t] = 1
    <3>1. test.program[t] \in Seq(Calls) /\ got[t] = <<>> /\ step[t] = 1
      BY <1>1, Programs DEF Init
    <3>2. Len(got[t]) + 1 = 1 /\ 1 \in 1 .. Len(test.program[t])
      BY <3>1 DEF Running
    <3> QED
      BY <3>1, <3>2 DEF All, Call, CallOf
  <2>2. test.kind = "pointer" /\ Call(t).name \in Adders \cup Readers
    BY <1>1, <2>1, TotalCalls
  <2> QED
    BY <1>1, <2>1, <2>2, AdderCodes, ReaderCode
<1>3. ASSUME NEW a \in Address PROVE Sum(a)
  <2>1. Made = {}
    BY DEF Init, Made, All, Pending
  <2>2. Units(MadeAt(a)) = {}
    BY <2>1 DEF MadeAt, Units
  <2>3. Last(a).value = 0
    BY DEF Init, Last
  <2>4. 0 % Word = 0
    BY AtomicPointerAssumption
  <2> QED
    BY <2>2, <2>3, <2>4, FS_EmptySet DEF Sum
<1> QED
  BY <1>1, <1>2, <1>3 DEF SumInv

\* Between calls a word that is only added to and read is the sum, modulo the word's size, of
\* all that was added, by whatever mix of operations and loops of whatever number of threads.
THEOREM NoLostUpdateTheorem == Summing => (Spec => []NoLostUpdate)
<1> SUFFICES ASSUME Summing PROVE Spec => []NoLostUpdate
  OBVIOUS
<1>1. Init => SumInv
  BY SumInit
<1>2. SumInv /\ [Next]_vars => SumInv'
  BY SumStep
<1>3. SumInv => NoLostUpdate
  <2> SUFFICES ASSUME SumInv, Settled, NEW d \in Done(Adders),
                      NEW a, a = CallOf(d).at
               PROVE  Last(a).value
                        = Cardinality(Units({e \in Done(Adders) : CallOf(e).at = a})) % Word
    BY DEF NoLostUpdate
  <2>1. ASSUME NEW c \in Done(Adders) PROVE c \in Made /\ CallOf(c).name \in Adders
    <3>1. c \in Thread \X Nat /\ c[2] \in 1 .. Len(got[c[1]]) /\ CallOf(c).name \in Adders
      BY Positions DEF Done, Returned
    <3>2. Len(got[c[1]]) \in Nat /\ Len(test.program[c[1]]) \in Nat /\ Len(got[c[1]]) <= Len(test.program[c[1]])
      BY <3>1, Programs DEF SumInv
    <3> QED
      BY <3>1, <3>2 DEF Made, All
  <2>2. ASSUME NEW c \in MadeAt(a) PROVE c \in Done(Adders)
    <3>1. c \in Thread \X Nat /\ c[2] >= 1 /\ c \in Made /\ CallOf(c).name \in Adders
      BY DEF MadeAt, Made, All
    <3>2. ~Pending(c[1])
      BY <3>1 DEF Settled, Pending
    <3>3. c[2] \in 1 .. Len(got[c[1]])
      BY <3>1, <3>2, Programs DEF Made, SumInv
    <3> QED
      BY <3>1, <3>3, Positions DEF Done, Returned
  <2>3. {e \in Done(Adders) : CallOf(e).at = a} = MadeAt(a)
    BY <2>1, <2>2 DEF MadeAt
  <2>4. Total(a) /\ a \in Address
    <3>1. d \in All /\ CallOf(d).name \in Adders
      BY <2>1 DEF Made
    <3>2. d[1] \in Thread /\ d[2] \in 1 .. Len(test.program[d[1]]) /\ test.program[d[1]] \in Seq(Calls)
      BY <3>1, Programs DEF All, SumInv
    <3>3. CallOf(d) \in Calls
      BY <3>2 DEF CallOf
    <3> QED
      BY <3>1, <3>3 DEF Total, Calls
  <2> QED
    BY <2>3, <2>4 DEF SumInv, Sum
<1> QED
  BY <1>1, <1>2, <1>3, PTL DEF Spec

-----------------------------------------------------------------------------
(* Published data. *)

\* The calls that look at a flag, and those that swap it.
Heads == {"read_acquire", "read_relaxed"}
Swappers == {"cas", "cas_relaxed", "weakcas", "weakcas_relaxed"}

\* Whether there is a barrier between the first call of program p and its k-th, and whether
\* the k-th is ordered after what the first has seen.
Barred(p, k) == \E j \in 2 .. k - 1 : p[j].name = "barrier"
Ordered(p, k) == p[1].name # "read_relaxed" \/ Barred(p, k)

\* The k-th call of p passes on that the data d has been written, or looks at it.
PassesData(p, k, d) ==
    \/ p[k].name = "barrier"
    \/ p[k].name = "write" /\ p[k].at # d /\ Ordered(p, k)
    \/ p[k].name \in Swappers /\ p[k].at # d /\ Barred(p, k)
    \/ p[k].name = "read_nonatomic" /\ p[k].at = d /\ Ordered(p, k)

\* Thread s writes the data first, all others begin with a look at a flag.
PublishedBy(x, s, d) ==
    /\ LET p == x.program[s]
       IN Len(p) >= 1 /\ p[1].name = "write_nonatomic" /\ p[1].at = d /\ p[1].value = 1
    /\ \A t \in Thread \ {s} : LET p == x.program[t]
                               IN Len(p) >= 1 => p[1].name \in Heads /\ p[1].at # d
    /\ \A t \in Thread : \A k \in 2 .. Len(x.program[t]) : PassesData(x.program[t], k, d)

Publishing == \A x \in Test : x.name = "publish" =>
                  \E s \in Thread, d \in Address : PublishedBy(x, s, d)

\* Every look at a flag has found it raised.
AllRaised == \A t \in Thread : Len(got[t]) >= 1 /\ test.program[t][1].name \in Heads => got[t][1] = 1

\* What a thread is ordered after, by the calls it has made.
KnowsData(t, d) ==
    Len(got[t]) >= 1 =>
       /\ loaded[t][d] >= 2
       /\ test.program[t][1].name # "read_relaxed" => view[t][d] >= 2
       /\ Barred(test.program[t], Len(got[t]) + 1) => view[t][d] >= 2 /\ fenced[t][d] >= 2

\* The same between the two accesses of one.
WillKnow(t, d) ==
    Running(t) /\ step[t] = 2 =>
       /\ Call(t).name = "read_acquire" /\ reg[t] = 1 => loaded[t][d] >= 2
       /\ Call(t).name = "write" => fenced[t][d] >= 2

SawData(t) == \A k \in 2 .. Len(got[t]) : test.program[t][k].name = "read_nonatomic" => got[t][k] = 1

\* A flag starts out lowered, and whoever writes to one passes on that the data is written.
FlagCarries(a, d) == /\ writes[a][1].value = 0
                     /\ \A i \in 2 .. Len(writes[a]) : writes[a][i].view[d] >= 2

DataWritten(s, d) == /\ Len(writes[d]) = IF Len(got[s]) = 0 THEN 1 ELSE 2
                     /\ Len(writes[d]) = 2 => writes[d][2].value = 1

Published(s, d) == /\ \A t \in Thread : KnowsData(t, d) /\ WillKnow(t, d) /\ SawData(t)
                   /\ \A a \in Address \ {d} : FlagCarries(a, d)

PublishInv ==
    /\ IInv /\ ViewInv
    /\ test.name = "publish" =>
          /\ InCode
          /\ \E s \in Thread, d \in Address :
                PublishedBy(test, s, d) /\ DataWritten(s, d) /\ (AllRaised => Published(s, d))

\* The codes of the calls that publish.
LEMMA PublishCode ==
    ASSUME Known
    PROVE  /\ Code("write_nonatomic") = <<Store("relaxed")>> /\ Code("read_nonatomic") = <<Load("relaxed")>>
           /\ Code("read_relaxed") = <<Load("relaxed")>> /\ Code("barrier") = <<Fence>>
           /\ Code("read_acquire") = IF C11 THEN <<Load("acquire")>> ELSE <<Load("relaxed"), AcquireFence>>
           /\ Code("write") = IF C11 THEN <<Store("seq_cst")>> ELSE <<Fence, Store("relaxed")>>
           /\ \A name \in Swappers : \E x : Code(name) = <<x>> /\ x.op \in {"cas", "weakcas"}
<1>1. /\ Code("write_nonatomic") = Basic["write_nonatomic"] /\ Code("read_nonatomic") = Basic["read_nonatomic"]
      /\ Code("read_relaxed") = Basic["read_relaxed"] /\ Code("barrier") = Basic["barrier"]
      /\ Code("read_acquire") = Basic["read_acquire"] /\ Code("write") = Basic["write"]
      /\ \A name \in Swappers : Code(name) = Basic[name]
  BY DEF Code, Integer, Swappers
<1>2. \A order : Cas(order).op = "cas" /\ WeakCas(order).op = "weakcas"
  BY DEF Cas, WeakCas
<1>3. \A name \in Swappers : \E order : Basic[name] \in {<<Cas(order)>>, <<WeakCas(order)>>}
  BY BasicCode, MoreBasicCode DEF Swappers
<1>4. \A name \in Swappers : \E x : Code(name) = <<x>> /\ x.op \in {"cas", "weakcas"}
  BY <1>1, <1>2, <1>3
<1> QED
  BY <1>1, <1>4, BasicCode, MoreBasicCode

\* They are one access or two.
LEMMA PublishLength ==
    ASSUME IInv, NEW s \in Thread, NEW d \in Address, PublishedBy(test, s, d),
           NEW t \in Thread, NEW k \in 1 .. Len(test.program[t])
    PROVE  Len(Code(test.program[t][k].name)) \in {1, 2}
<1> DEFINE name == test.program[t][k].name
<1>1. name \in {"write_nonatomic", "barrier", "write", "read_nonatomic"} \cup Heads \cup Swappers
  <2>1. Len(test.program[t]) \in Nat
    BY Programs
  <2>2. CASE k = 1
    BY <2>1, <2>2 DEF PublishedBy
  <2>3. CASE k # 1
    <3>1. k \in 2 .. Len(test.program[t])
      BY <2>1, <2>3
    <3> QED
      BY <3>1 DEF PublishedBy, PassesData
  <2> QED
    BY <2>2, <2>3
<1> HIDE DEF name
<1>2. Known
  BY Programs
<1>3. CASE name \in Swappers
  <2>1. PICK x : Code(name) = <<x>>
    BY <1>2, <1>3, PublishCode
  <2> QED
    BY <2>1 DEF name
<1>4. CASE name \in {"write_nonatomic", "barrier", "write", "read_nonatomic"} \cup Heads
  <2>1. CASE C11
    BY <1>2, <1>4, <2>1, PublishCode, SMTT(20) DEF Heads, name
  <2>2. CASE ~C11
    BY <1>2, <1>4, <2>2, PublishCode, SMTT(20) DEF Heads, name
  <2> QED
    BY <2>1, <2>2
<1> QED
  BY <1>1, <1>3, <1>4

\* The call that a running thread is in.
LEMMA PublishCall ==
    ASSUME IInv, NEW s \in Thread, NEW d \in Address, PublishedBy(test, s, d), NEW t \in Thread, Running(t)
    PROVE  /\ Call(t) = test.program[t][Len(got[t]) + 1] /\ Call(t) \in Calls /\ Call(t).at \in Address
           /\ Len(got[t]) = 0 =>
                 \/ t = s /\ Call(t).name = "write_nonatomic" /\ Call(t).at = d /\ Call(t).value = 1
                 \/ t # s /\ Call(t).name \in Heads /\ Call(t).at # d
           /\ Len(got[t]) # 0 => PassesData(test.program[t], Len(got[t]) + 1, d)
           /\ Len(Code(Call(t).name)) \in {1, 2}
<1>1. Call(t) = test.program[t][Len(got[t]) + 1] /\ Call(t) \in Calls /\ Call(t).at \in Address
  BY CallType DEF Call, Calls
<1>2. PICK n \in Nat : n = Len(got[t]) /\ n + 1 \in 1 .. Len(test.program[t])
  <2>1. Len(got[t]) \in Nat /\ Len(test.program[t]) \in Nat /\ Len(got[t]) < Len(test.program[t])
    BY Programs DEF Running
  <2> QED
    BY <2>1
<1>3. ASSUME n = 0
      PROVE  \/ t = s /\ Call(t).name = "write_nonatomic" /\ Call(t).at = d /\ Call(t).value = 1
             \/ t # s /\ Call(t).name \in Heads /\ Call(t).at # d
  <2>1. Len(test.program[t]) >= 1 /\ Call(t) = test.program[t][1]
    BY <1>1, <1>2, <1>3
  <2> QED
    BY <2>1 DEF PublishedBy
<1>4. ASSUME n # 0 PROVE PassesData(test.program[t], n + 1, d)
  <2>1. n + 1 \in 2 .. Len(test.program[t])
    BY <1>2, <1>4
  <2> QED
    BY <2>1 DEF PublishedBy
<1>5. Len(Code(Call(t).name)) \in {1, 2}
  BY <1>1, <1>2, PublishLength
<1> QED
  BY <1>1, <1>2, <1>3, <1>4, <1>5

\* Where it is in that call.
LEMMA PublishAccess ==
    ASSUME IInv, InCode, NEW s \in Thread, NEW d \in Address, PublishedBy(test, s, d), NEW t \in Thread, Running(t)
    PROVE  LET name == Call(t).name
               last == step[t] = Len(Code(name))
           IN /\ name \in {"write_nonatomic", "read_nonatomic", "read_relaxed", "barrier"} \cup Swappers => last
              /\ name = "write_nonatomic" => Access(t) = Store("relaxed")
              /\ name \in {"read_nonatomic", "read_relaxed"} => Access(t) = Load("relaxed")
              /\ name = "barrier" => Access(t) = Fence
              /\ name = "read_acquire" =>
                    \/ Access(t) = Load("acquire") /\ last
                    \/ Access(t) = Load("relaxed") /\ ~last /\ step[t] = 1
                    \/ Access(t) = AcquireFence /\ last /\ step[t] = 2
              /\ name = "write" =>
                    \/ Access(t) = Store("seq_cst") /\ last
                    \/ Access(t) = Fence /\ ~last /\ step[t] = 1
                    \/ Access(t) = Store("relaxed") /\ last /\ step[t] = 2
              /\ name \in Swappers => Access(t).op \in {"cas", "weakcas"}
<1> DEFINE name == Call(t).name
           code == Code(name)
<1>1. Known /\ step[t] \in Nat /\ step[t] >= 1 /\ step[t] <= Len(code) /\ Len(code) \in {1, 2} /\ Access(t) = code[step[t]]
  BY Programs, PublishCall DEF InCode, Access
<1> HIDE DEF code
<1>2. \/ step[t] = 1 /\ Len(code) = 1 /\ Access(t) = code[1]
      \/ step[t] = 1 /\ Len(code) = 2 /\ Access(t) = code[1]
      \/ step[t] = 2 /\ Len(code) = 2 /\ Access(t) = code[2]
  BY <1>1
<1>3. \A x : code = <<x>> => Len(code) = 1 /\ code[1] = x
  OBVIOUS
<1>4. \A x, y : code = <<x, y>> => Len(code) = 2 /\ code[1] = x /\ code[2] = y
  OBVIOUS
<1>5. \A x : code = <<x>> => Access(t) = x /\ step[t] = Len(code)
  BY <1>2, <1>3
<1>6. \A x, y : code = <<x, y>> => \/ Access(t) = x /\ step[t] = 1 /\ step[t] # Len(code)
                                   \/ Access(t) = y /\ step[t] = 2 /\ step[t] = Len(code)
  BY <1>2, <1>4
<1>7. /\ name = "write_nonatomic" => code = <<Store("relaxed")>>
      /\ name = "read_nonatomic" => code = <<Load("relaxed")>>
      /\ name = "read_relaxed" => code = <<Load("relaxed")>>
      /\ name = "barrier" => code = <<Fence>>
      /\ name = "read_acquire" => code = <<Load("acquire")>> \/ code = <<Load("relaxed"), AcquireFence>>
      /\ name = "write" => code = <<Store("seq_cst")>> \/ code = <<Fence, Store("relaxed")>>
      /\ name \in Swappers => \E x : code = <<x>> /\ x.op \in {"cas", "weakcas"}
  BY <1>1, PublishCode DEF code
<1> HIDE DEF name
<1>8. /\ name \in {"write_nonatomic", "read_nonatomic", "read_relaxed", "barrier"} \cup Swappers => step[t] = Len(code)
      /\ name = "write_nonatomic" => Access(t) = Store("relaxed")
      /\ name \in {"read_nonatomic", "read_relaxed"} => Access(t) = Load("relaxed")
      /\ name = "barrier" => Access(t) = Fence
      /\ name \in Swappers => Access(t).op \in {"cas", "weakcas"}
  BY <1>5, <1>7
<1>9. name = "read_acquire" =>
         \/ Access(t) = Load("acquire") /\ step[t] = Len(code)
         \/ Access(t) = Load("relaxed") /\ step[t] # Len(code) /\ step[t] = 1
         \/ Access(t) = AcquireFence /\ step[t] = Len(code) /\ step[t] = 2
  BY <1>5, <1>6, <1>7
<1>10. name = "write" =>
         \/ Access(t) = Store("seq_cst") /\ step[t] = Len(code)
         \/ Access(t) = Fence /\ step[t] # Len(code) /\ step[t] = 1
         \/ Access(t) = Store("relaxed") /\ step[t] = Len(code) /\ step[t] = 2
  BY <1>5, <1>6, <1>7
<1> QED
  BY <1>8, <1>9, <1>10 DEF name, code

\* Every call that publishes is gone through once, from its first access to its last.
LEMMA PublishGoes ==
    ASSUME IInv, InCode, NEW s \in Thread, NEW d \in Address, PublishedBy(test, s, d), NEW t \in Thread, Acts(t)
    PROVE  \E r \in Value : Continue(t, r)
<1>1. Running(t) /\ Call(t).at \in Address /\ Call(t) \in Calls
  BY ActsAlone, PublishCall
<1>2. CASE LoadWord(t) \/ FenceMemory(t)
  BY <1>1, <1>2, ContinuesWith
<1>3. CASE StoreWord(t)
  BY <1>3, ValueFacts DEF StoreWord
<1>4. Call(t).name \in {"write_nonatomic", "barrier", "write", "read_nonatomic"} \cup Heads \cup Swappers
  <2>1. CASE Len(got[t]) = 0
    BY <1>1, <2>1, PublishCall
  <2>2. CASE Len(got[t]) # 0
    BY <1>1, <2>2, PublishCall DEF PassesData
  <2> QED
    BY <2>1, <2>2
<1>5. CASE AddWord(t) \/ CasSucceeds(t) \/ CasFails(t)
  <2>1. Access(t).op \in {"add", "cas", "weakcas"}
    BY <1>5 DEF AddWord, CasSucceeds, CasFails, AtCas, At
  <2>2. Call(t).name \in Swappers
    BY <1>1, <1>4, <2>1, PublishAccess DEF Heads, Load, Store, Fence, AcquireFence
  <2>3. ~AddWord(t)
    BY <1>1, <2>2, PublishAccess DEF AddWord, At
  <2>4. \A won \in BOOLEAN : \A v \in Value : Swapped(Call(t), won, v) \in Value
    BY <1>1, ResultType
  <2>5. CASE CasSucceeds(t)
    <3>1. Expect(t) \in Value
      BY <1>1, <2>5, LastType DEF CasSucceeds
    <3> QED
      BY <2>4, <2>5, <3>1 DEF CasSucceeds
  <2>6. CASE CasFails(t)
    <3>1. PICK i \in 1 .. Len(writes[Call(t).at]) :
            /\ Read(t, Call(t).at, i, Access(t).order)
            /\ Retry(t, writes[Call(t).at][i].value)
      BY <2>6 DEF CasFails
    <3>2. writes[Call(t).at][i].value \in Value
      BY <1>1, <3>1, ReadType
    <3>3. Continue(t, Swapped(Call(t), FALSE, writes[Call(t).at][i].value))
      BY <2>2, <3>1 DEF Retry, Swappers, Loops
    <3> QED
      BY <2>4, <3>2, <3>3
  <2> QED
    BY <1>5, <2>3, <2>5, <2>6
<1> QED
  BY <1>2, <1>3, <1>5 DEF Acts

\* A step keeps every thread within its call, and only the publisher's first call writes the data.
LEMMA DataStep ==
    ASSUME IInv, ViewInv, IInv', InCode, NEW s \in Thread, NEW d \in Address, PublishedBy(test, s, d),
           DataWritten(s, d), NEW t \in Thread, Acts(t)
    PROVE  InCode' /\ DataWritten(s, d)'
<1>1. /\ Running(t) /\ test' = test /\ Call(t).at \in Address
      /\ \A u \in Thread \ {t} : got'[u] = got[u] /\ step'[u] = step[u]
      /\ Call(t).at # d => writes'[d] = writes[d]
      /\ Access(t).op \in {"load", "fence"} => writes' = writes
  BY ActsAlone, PublishCall
<1>2. PICK r \in Value : Continue(t, r)
  BY PublishGoes
<1>3. /\ \A u \in Thread : Len(got[u]) \in Nat /\ Len(got'[u]) \in Nat /\ Len(got'[u]) >= Len(got[u])
      /\ step[t] = Len(Code(Call(t).name)) => Len(got'[t]) = Len(got[t]) + 1 /\ step'[t] = 1
      /\ step[t] # Len(Code(Call(t).name)) => got'[t] = got[t] /\ step'[t] = step[t] + 1
  BY <1>2, Goes, Programs
<1>4. \A name : Code(name)' = Code(name)
  BY <1>1 DEF Code, Basic
<1>5. ASSUME NEW u \in Thread, Running(u)' PROVE step'[u] <= Len(Code(Call(u).name)')
  <2>1. Len(Code(Call(u).name)') \in {1, 2}
    <3>1. Len(got'[u]) + 1 \in 1 .. Len(test.program[u]) /\ Call(u)' = test.program[u][Len(got'[u]) + 1]
      <4>1. Len(got'[u]) < Len(test.program[u]) /\ Len(test.program[u]) \in Nat
        BY <1>1, <1>5, Programs DEF Running
      <4> QED
        BY <1>1, <1>3, <4>1 DEF Call
    <3> QED
      BY <1>4, <3>1, PublishLength
  <2>2. CASE step'[u] = 1
    <3>1. \A n \in {1, 2} : 1 <= n
      OBVIOUS
    <3> QED
      BY <2>1, <2>2, <3>1
  <2>3. CASE step'[u] # 1
    <3>1. \/ u # t /\ step'[u] = step[u] /\ got'[u] = got[u]
          \/ u = t /\ step'[u] = step[u] + 1 /\ got'[u] = got[u] /\ step[u] # Len(Code(Call(u).name))
      BY <1>1, <1>3, <2>3
    <3>2. Running(u) /\ Call(u)' = Call(u)
      BY <1>1, <1>5, <3>1 DEF Running, Call
    <3>3. step[u] \in Nat /\ step[u] <= Len(Code(Call(u).name)) /\ Len(Code(Call(u).name)) \in Nat
      BY <3>2, Programs, PublishCall DEF InCode
    <3> QED
      BY <1>4, <3>1, <3>2, <3>3
  <2> QED
    BY <2>2, <2>3
<1>6. DataWritten(s, d)'
  <2>1. CASE t = s /\ Len(got[t]) = 0
    <3>1. Call(t).name = "write_nonatomic" /\ Call(t).at = d /\ Call(t).value = 1
      BY <1>1, <2>1, PublishCall
    <3>2. Access(t) = Store("relaxed") /\ step[t] = Len(Code(Call(t).name))
      BY <1>1, <3>1, PublishAccess
    <3>3. StoreWord(t)
      BY <3>2, ActsAlone DEF Store
    <3>4. Len(got'[t]) = 1 /\ Write(t, d, 1, "relaxed", NoView) /\ NoView \in View /\ 1 \in Value
      <4>1. Len(got'[t]) = Len(got[t]) + 1 /\ Write(t, d, 1, Access(t).order, NoView)
        BY <3>1, <3>2, <3>3, StoreOnce
      <4>2. Access(t).order = "relaxed"
        BY <3>2 DEF Store
      <4>3. NoView \in View /\ 1 \in Value
        BY <3>2, <3>3, StoreOnce, ValueFacts
      <4> QED
        BY <2>1, <4>1, <4>2, <4>3
    <3>5. Len(writes'[d]) = Len(writes[d]) + 1 /\ writes'[d][Len(writes[d]) + 1].value = 1
      BY <3>4, WriteType
    <3>6. Len(writes[d]) = 1
      BY <2>1 DEF DataWritten
    <3> QED
      BY <2>1, <3>4, <3>5, <3>6 DEF DataWritten
  <2>2. CASE ~(t = s /\ Len(got[t]) = 0)
    <3>1. writes'[d] = writes[d]
      <4>1. Call(t).at # d \/ Access(t).op \in {"load", "fence"}
        <5>1. CASE Len(got[t]) = 0
          BY <1>1, <2>2, <5>1, PublishCall
        <5>2. CASE Len(got[t]) # 0
          <6>1. Call(t).at # d \/ Call(t).name = "barrier" \/ Call(t).name = "read_nonatomic"
            BY <1>1, <5>2, PublishCall DEF PassesData
          <6> QED
            BY <1>1, <6>1, PublishAccess DEF Load, Fence
        <5> QED
          BY <5>1, <5>2
      <4> QED
        BY <1>1, <4>1
    <3>2. Len(got'[s]) = 0 <=> Len(got[s]) = 0
      <4>1. CASE s = t
        BY <1>3, <2>2, <4>1
      <4>2. CASE s # t
        BY <1>1, <4>2
      <4> QED
        BY <4>1, <4>2
    <3> QED
      BY <3>1, <3>2 DEF DataWritten
  <2> QED
    BY <2>1, <2>2
<1> QED
  BY <1>5, <1>6 DEF InCode

\* What a thread is ordered after, in numbers.
LEMMA ViewsRise ==
    ASSUME IInv, IInv', Grows, NEW t \in Thread, NEW d \in Address
    PROVE  /\ view[t][d] \in Nat /\ loaded[t][d] \in Nat /\ fenced[t][d] \in Nat
           /\ view'[t][d] \in Nat /\ loaded'[t][d] \in Nat /\ fenced'[t][d] \in Nat
           /\ view'[t][d] >= view[t][d] /\ loaded'[t][d] >= loaded[t][d] /\ fenced'[t][d] >= fenced[t][d]
<1>1. /\ view[t] \in View /\ loaded[t] \in View /\ fenced[t] \in View
      /\ view'[t] \in View /\ loaded'[t] \in View /\ fenced'[t] \in View
  BY DEF IInv, TypeOK
<1> QED
  BY <1>1, ViewNat DEF Grows, Before

\* A thread that returns from a call knows of the data if its first call has told it, and its
\* barriers make that ordered.
LEMMA KnowsMore ==
    ASSUME IInv, IInv', Grows, test' = test, NEW t \in Thread, NEW d \in Address, KnowsData(t, d),
           Len(got'[t]) \in {Len(got[t]), Len(got[t]) + 1},
           Len(got[t]) = 0 /\ Len(got'[t]) = 1 =>
              /\ loaded'[t][d] >= 2
              /\ test.program[t][1].name # "read_relaxed" => view'[t][d] >= 2,
           Len(got[t]) # 0 /\ Len(got'[t]) = Len(got[t]) + 1
              /\ test.program[t][Len(got[t]) + 1].name = "barrier" => view'[t][d] >= 2 /\ fenced'[t][d] >= 2
    PROVE  KnowsData(t, d)'
<1>1. PICK n \in Nat : n = Len(got[t])
  BY Programs
<1>2. /\ view[t][d] \in Nat /\ loaded[t][d] \in Nat /\ fenced[t][d] \in Nat
      /\ view'[t][d] \in Nat /\ loaded'[t][d] \in Nat /\ fenced'[t][d] \in Nat
      /\ view'[t][d] >= view[t][d] /\ loaded'[t][d] >= loaded[t][d] /\ fenced'[t][d] >= fenced[t][d]
  BY ViewsRise
<1> DEFINE p == test.program[t]
<1>3. CASE Len(got'[t]) = n
  BY <1>1, <1>2, <1>3 DEF KnowsData
<1>4. CASE Len(got'[t]) = n + 1 /\ n = 0
  <2>1. ~Barred(p, 2)
    BY DEF Barred
  <2> QED
    BY <1>1, <1>2, <1>4, <2>1 DEF KnowsData
<1>5. CASE Len(got'[t]) = n + 1 /\ n # 0
  <2>1. loaded'[t][d] >= 2 /\ (p[1].name # "read_relaxed" => view'[t][d] >= 2)
    <3>1. loaded[t][d] >= 2 /\ (p[1].name # "read_relaxed" => view[t][d] >= 2)
      BY <1>1, <1>5 DEF KnowsData
    <3> QED
      BY <1>2, <3>1
  <2>2. ASSUME Barred(p, n + 2) PROVE view'[t][d] >= 2 /\ fenced'[t][d] >= 2
    <3>1. PICK j \in 2 .. n + 1 : p[j].name = "barrier"
      BY <1>1, <2>2 DEF Barred
    <3>2. CASE j = n + 1
      BY <1>1, <1>5, <3>1, <3>2
    <3>3. CASE j # n + 1
      <4>1. Barred(p, n + 1)
        <5>1. j \in 2 .. (n + 1) - 1
          BY <1>1, <3>3
        <5> QED
          BY <3>1, <5>1 DEF Barred
      <4> QED
        <5>1. view[t][d] >= 2 /\ fenced[t][d] >= 2
          BY <1>1, <1>5, <4>1 DEF KnowsData
        <5> QED
          BY <1>2, <5>1
    <3> QED
      BY <3>2, <3>3
  <2>3. (n + 1) + 1 = n + 2
    BY <1>1
  <2> QED
    BY <1>5, <2>1, <2>2, <2>3 DEF KnowsData
<1> QED
  BY <1>1, <1>3, <1>4, <1>5

\* What a thread knows of the data for its k-th call.
LEMMA KnowsOrdered ==
    ASSUME IInv, NEW t \in Thread, NEW d \in Address, KnowsData(t, d), Len(got[t]) # 0
    PROVE  /\ loaded[t][d] >= 2
           /\ Ordered(test.program[t], Len(got[t]) + 1) => view[t][d] >= 2
           /\ Barred(test.program[t], Len(got[t]) + 1) => view[t][d] >= 2 /\ fenced[t][d] >= 2
<1>1. Len(got[t]) \in Nat /\ Len(got[t]) >= 1
  <2>1. Len(got[t]) \in Nat
    BY Programs
  <2> QED
    BY <2>1
<1> QED
  BY <1>1 DEF KnowsData, Ordered

\* What a thread has seen of the data, with one more call.
LEMMA SawMore ==
    ASSUME IInv, test' = test, NEW t \in Thread, SawData(t),
           Len(got'[t]) \in {Len(got[t]), Len(got[t]) + 1},
           \A k \in 1 .. Len(got[t]) : got'[t][k] = got[t][k],
           Len(got[t]) # 0 /\ Len(got'[t]) = Len(got[t]) + 1
              /\ test.program[t][Len(got[t]) + 1].name = "read_nonatomic" => got'[t][Len(got[t]) + 1] = 1
    PROVE  SawData(t)'
<1>1. PICK n \in Nat : n = Len(got[t])
  BY Programs
<1>2. ASSUME NEW k \in 2 .. Len(got'[t]), test.program[t][k].name = "read_nonatomic" PROVE got'[t][k] = 1
  <2>1. CASE k \in 2 .. n
    <3>1. k \in 1 .. n
      BY <1>1, <2>1
    <3> QED
      BY <1>1, <1>2, <2>1, <3>1 DEF SawData
  <2>2. CASE k \notin 2 .. n
    <3>1. k \in 2 .. Len(got'[t]) /\ Len(got'[t]) \in {n, n + 1}
      BY <1>1, <1>2
    <3>2. \A i \in 2 .. n + 1 : i \notin 2 .. n => i = n + 1 /\ n # 0
      BY <1>1
    <3>3. k = n + 1 /\ n # 0 /\ Len(got'[t]) = n + 1
      BY <1>1, <2>2, <3>1, <3>2
    <3> QED
      BY <1>1, <1>2, <3>3
  <2> QED
    BY <2>1, <2>2
<1> QED
  BY <1>2 DEF SawData

\* Who writes to a flag passes on what it was ordered after, or was at its last fence.
LEMMA FlagWritten ==
    ASSUME IInv, ViewInv, NEW t \in Thread, NEW f \in Address, NEW d \in Address, f # d,
           NEW v \in Value, NEW order, NEW from \in View, Bounded(from), Write(t, f, v, order, from),
           fenced[t][d] >= 2 \/ (order # "relaxed" /\ view[t][d] >= 2),
           \A a \in Address \ {d} : FlagCarries(a, d)
    PROVE  \A a \in Address \ {d} : FlagCarries(a, d)'
<1> DEFINE n == Len(writes[f])
<1>1. n \in Nat /\ n >= 1 /\ fenced[t] \in View /\ view[t] \in View
  BY Views
<1>2. /\ Len(writes'[f]) = n + 1
      /\ \A i \in 1 .. n : writes'[f][i] = writes[f][i]
      /\ \A a \in Address \ {f} : writes'[a] = writes[a]
  BY WriteType
<1>3. LET carried == writes'[f][n + 1].view
      IN /\ carried \in View /\ carried[d] >= fenced[t][d]
         /\ order # "relaxed" => carried[d] >= view[t][d]
  BY WriteViews
<1>4. writes'[f][n + 1].view[d] >= 2
  <2>1. fenced[t][d] \in Nat /\ view[t][d] \in Nat /\ writes'[f][n + 1].view[d] \in Nat
    BY <1>1, <1>3, ViewNat
  <2> QED
    BY <1>3, <2>1
<1> HIDE DEF n
<1>5. FlagCarries(f, d)'
  <2>1. writes'[f][1].value = 0
    BY <1>1, <1>2 DEF FlagCarries
  <2>2. ASSUME NEW i \in 2 .. Len(writes'[f]) PROVE writes'[f][i].view[d] >= 2
    <3>1. CASE i = n + 1
      BY <1>4, <3>1
    <3>2. CASE i # n + 1
      <4>1. i \in 2 .. n /\ i \in 1 .. n
        BY <1>1, <1>2, <3>2
      <4> QED
        BY <1>2, <4>1 DEF FlagCarries, n
    <3> QED
      BY <3>1, <3>2
  <2> QED
    BY <2>1, <2>2 DEF FlagCarries
<1>6. ASSUME NEW a \in Address \ {d}, a # f PROVE FlagCarries(a, d)'
  BY <1>2, <1>6 DEF FlagCarries
<1> QED
  BY <1>5, <1>6

\* Who finds a flag raised has loaded that the data is written.
LEMMA FlagRead ==
    ASSUME IInv, ViewInv, NEW t \in Thread, NEW f \in Address, NEW d \in Address, FlagCarries(f, d),
           NEW i \in 1 .. Len(writes[f]), NEW order, Read(t, f, i, order), writes[f][i].value = 1
    PROVE  loaded'[t][d] >= 2 /\ (order # "relaxed" => view'[t][d] >= 2)
<1>1. i \in 2 .. Len(writes[f])
  <2>1. i # 1 /\ Len(writes[f]) \in Nat
    BY Views DEF FlagCarries
  <2> QED
    BY <2>1
<1>2. writes[f][i].view[d] >= 2
  BY <1>1 DEF FlagCarries
<1>3. /\ writes[f][i].view \in View /\ view'[t] \in View /\ loaded'[t] \in View
      /\ Before(writes[f][i].view, loaded'[t])
      /\ order # "relaxed" => Before(writes[f][i].view, view'[t])
  BY ReadViews
<1>4. writes[f][i].view[d] \in Nat /\ view'[t][d] \in Nat /\ loaded'[t][d] \in Nat
  BY <1>3, ViewNat
<1> QED
  BY <1>2, <1>3, <1>4 DEF Before

\* What a thread's step can change of what was told.
Told(t, d) == /\ KnowsData(t, d) /\ WillKnow(t, d) /\ SawData(t)
              /\ \A a \in Address \ {d} : FlagCarries(a, d)

\* Of the return from a call it is enough to know what the call has told.
LEMMA ReturnTells ==
    ASSUME IInv, IInv', Grows, test' = test, NEW t \in Thread, NEW d \in Address, Told(t, d),
           Len(got'[t]) = Len(got[t]) + 1, step'[t] = 1, \A k \in 1 .. Len(got[t]) : got'[t][k] = got[t][k],
           Len(got[t]) = 0 => /\ loaded'[t][d] >= 2
                              /\ test.program[t][1].name # "read_relaxed" => view'[t][d] >= 2,
           Len(got[t]) # 0 =>
              LET name == test.program[t][Len(got[t]) + 1].name
              IN /\ name = "barrier" => view'[t][d] >= 2 /\ fenced'[t][d] >= 2
                 /\ name = "read_nonatomic" => got'[t][Len(got[t]) + 1] = 1,
           \A a \in Address \ {d} : FlagCarries(a, d)'
    PROVE  Told(t, d)'
<1>1. KnowsData(t, d) /\ SawData(t)
  BY DEF Told
<1>2. KnowsData(t, d)'
  BY <1>1, KnowsMore
<1>3. SawData(t)'
  BY <1>1, SawMore
<1>4. WillKnow(t, d)'
  BY DEF WillKnow
<1> QED
  BY <1>2, <1>3, <1>4 DEF Told

\* Of another access, what it leads to.
LEMMA GoingOnTells ==
    ASSUME IInv, IInv', Grows, test' = test, NEW t \in Thread, NEW d \in Address, Told(t, d),
           got'[t] = got[t], writes' = writes,
           Call(t).name = "read_acquire" /\ reg'[t] = 1 => loaded'[t][d] >= 2,
           Call(t).name = "write" => fenced'[t][d] >= 2
    PROVE  Told(t, d)'
<1>1. KnowsData(t, d)'
  BY KnowsMore DEF Told
<1>2. SawData(t)' /\ Call(t)' = Call(t) /\ \A a \in Address \ {d} : FlagCarries(a, d)'
  BY DEF Told, SawData, Call, FlagCarries
<1>3. WillKnow(t, d)'
  BY <1>2 DEF WillKnow
<1> QED
  BY <1>1, <1>2, <1>3 DEF Told

\* A step in the first call of a thread.
LEMMA HeadStep ==
    ASSUME IInv, ViewInv, IInv', Grows, InCode, NEW s \in Thread, NEW d \in Address, PublishedBy(test, s, d),
           DataWritten(s, d), AllRaised', NEW t \in Thread, Told(t, d), Acts(t), Len(got[t]) = 0
    PROVE  Told(t, d)'
<1>1. /\ Running(t) /\ test' = test /\ Call(t) = test.program[t][1] /\ Call(t).at \in Address
      /\ \A k \in 1 .. Len(got[t]) : got'[t][k] = got[t][k]
      /\ \/ t = s /\ Call(t).name = "write_nonatomic" /\ Call(t).at = d /\ Call(t).value = 1
         \/ t # s /\ Call(t).name \in Heads /\ Call(t).at # d
  <2>1. Running(t) /\ test' = test /\ \A k \in 1 .. Len(got[t]) : got'[t][k] = got[t][k]
    BY ActsAlone
  <2> QED
    BY <2>1, PublishCall
<1>2. PICK f : f = Call(t).at
  OBVIOUS
<1> DEFINE last == step[t] = Len(Code(Call(t).name))
<1>3. CASE t = s
  <2>1. /\ Access(t) = Store("relaxed") /\ last
    BY <1>1, <1>3, PublishAccess
  <2>2. StoreWord(t)
    BY <2>1, ActsAlone DEF Store
  <2>3. /\ Len(got'[t]) = Len(got[t]) + 1 /\ step'[t] = 1
        /\ Write(t, d, 1, Access(t).order, NoView)
        /\ NoView \in View /\ Bounded(NoView) /\ 1 \in Value
    BY <1>1, <1>3, <2>1, <2>2, StoreOnce
  <2>4. view'[t][d] = Len(writes[d]) + 1 /\ Before(view'[t], loaded'[t])
    BY <2>3, WriteViews
  <2>5. view'[t][d] >= 2 /\ loaded'[t][d] >= 2
    <3>1. Len(writes[d]) = 1
      BY <1>3 DEF DataWritten
    <3> QED
      BY <2>4, <3>1 DEF Before
  <2>6. \A a \in Address \ {d} : FlagCarries(a, d)'
    <3>1. \A a \in Address \ {d} : writes'[a] = writes[a]
      BY <2>3, WriteType
    <3> QED
      BY <3>1 DEF Told, FlagCarries
  <2> QED
    BY <1>1, <2>3, <2>5, <2>6, ReturnTells
<1>4. CASE t # s
  <2>1. f \in Address \ {d} /\ Call(t).name \in Heads
    BY <1>1, <1>2, <1>4
  <2>2. FlagCarries(f, d)
    BY <2>1 DEF Told
  <2>3. Len(got'[t]) = 1 => got'[t][1] = 1
    BY <1>1, <2>1 DEF AllRaised
  <2>4. \/ Access(t).op = "load" /\ last /\ (Call(t).name # "read_relaxed" => Access(t).order # "relaxed")
        \/ Access(t).op = "load" /\ ~last /\ step[t] = 1 /\ Call(t).name = "read_acquire"
        \/ Access(t) = AcquireFence /\ last /\ step[t] = 2 /\ Call(t).name = "read_acquire"
    <3>1. CASE Call(t).name = "read_relaxed"
      BY <1>1, <3>1, PublishAccess DEF Load
    <3>2. CASE Call(t).name = "read_acquire"
      BY <1>1, <3>2, PublishAccess DEF Load
    <3> QED
      BY <2>1, <3>1, <3>2 DEF Heads
  <2>5. CASE Access(t).op = "load"
    <3>1. LoadWord(t)
      BY <2>5, ActsAlone
    <3>2. PICK i \in 1 .. Len(writes[f]) :
             Read(t, f, i, Access(t).order) /\ Continue(t, writes[f][i].value)
      BY <1>2, <3>1 DEF LoadWord
    <3> DEFINE v == writes[f][i].value
    <3>3. v \in Value /\ writes' = writes
      BY <2>1, <3>2, ReadType
    <3>4. v = 1 => loaded'[t][d] >= 2 /\ (Access(t).order # "relaxed" => view'[t][d] >= 2)
      BY <2>1, <2>2, <3>2, FlagRead
    <3>5. \A a \in Address \ {d} : FlagCarries(a, d)'
      BY <3>3 DEF Told, FlagCarries
    <3>6. Continue(t, v)
      BY <3>2
    <3> HIDE DEF v
    <3>7. CASE last
      <4>1. Len(got'[t]) = Len(got[t]) + 1 /\ got'[t][Len(got[t]) + 1] = v /\ step'[t] = 1
        BY <3>3, <3>6, <3>7, Goes
      <4>2. v = 1
        BY <2>3, <4>1
      <4>3. loaded'[t][d] >= 2 /\ (Call(t).name # "read_relaxed" => view'[t][d] >= 2)
        BY <2>4, <2>5, <3>4, <3>7, <4>2 DEF AcquireFence
      <4> QED
        BY <1>1, <3>5, <4>1, <4>3, ReturnTells
    <3>8. CASE ~last
      <4>1. got'[t] = got[t] /\ reg'[t] = v
        BY <3>3, <3>6, <3>8, Goes
      <4>2. Call(t).name = "read_acquire"
        BY <2>4, <2>5, <3>8
      <4>3. Call(t).name # "write"
        BY <4>2
      <4> QED
        BY <1>1, <3>3, <3>4, <4>1, <4>3, GoingOnTells
    <3> QED
      BY <3>7, <3>8
  <2>6. CASE Access(t) = AcquireFence /\ last /\ step[t] = 2 /\ Call(t).name = "read_acquire"
    <3>1. FenceMemory(t)
      BY <2>6, ActsAlone DEF AcquireFence
    <3>2. reg[t] \in Value
      BY <2>6, Programs
    <3>3. Continue(t, reg[t])
      <4>1. Continue(t, IF reg[t] = NULL THEN 0 ELSE reg[t])
        BY <3>1 DEF FenceMemory
      <4> QED
        BY <3>2, <4>1, AtomicPointerAssumption
    <3>4. Len(got'[t]) = Len(got[t]) + 1 /\ got'[t][Len(got[t]) + 1] = reg[t] /\ step'[t] = 1
      BY <2>6, <3>2, <3>3, Goes
    <3>5. loaded[t][d] >= 2
      <4>1. reg[t] = 1
        BY <2>3, <3>4
      <4> QED
        BY <1>1, <2>6, <4>1 DEF Told, WillKnow
    <3>6. /\ Before(loaded[t], view'[t]) /\ loaded'[t] = view'[t] /\ writes' = writes
          /\ loaded[t][d] \in Nat /\ view'[t][d] \in Nat
      BY <3>1, FenceViews, ViewsRise
    <3>7. loaded'[t][d] >= 2 /\ view'[t][d] >= 2
      BY <3>5, <3>6 DEF Before
    <3>8. \A a \in Address \ {d} : FlagCarries(a, d)'
      BY <3>6 DEF Told, FlagCarries
    <3> QED
      BY <1>1, <3>4, <3>7, <3>8, ReturnTells
  <2> QED
    BY <2>4, <2>5, <2>6
<1> QED
  BY <1>3, <1>4

\* A later call of a thread, and what its place in the program has it know already.
LEMMA LaterCall ==
    ASSUME IInv, ViewInv, Grows, IInv', InCode, NEW s \in Thread, NEW d \in Address, PublishedBy(test, s, d),
           NEW t \in Thread, Told(t, d), Acts(t), Len(got[t]) # 0
    PROVE  LET k == Len(got[t]) + 1
               p == test.program[t]
           IN /\ Running(t) /\ test' = test /\ Call(t) = p[k] /\ Call(t).at \in Address /\ PassesData(p, k, d)
              /\ loaded[t][d] >= 2
              /\ Ordered(p, k) => view[t][d] >= 2
              /\ Barred(p, k) => fenced[t][d] >= 2
              /\ \A i \in 1 .. Len(got[t]) : got'[t][i] = got[t][i]
              /\ step[t] = Len(Code(Call(t).name)) => Len(got'[t]) = k /\ step'[t] = 1
              /\ step[t] # Len(Code(Call(t).name)) => got'[t] = got[t]
<1>1. Running(t) /\ test' = test /\ \A i \in 1 .. Len(got[t]) : got'[t][i] = got[t][i]
  BY ActsAlone
<1>2. KnowsData(t, d)
  BY DEF Told
<1>3. PICK r \in Value : Continue(t, r)
  BY PublishGoes
<1>4. /\ step[t] = Len(Code(Call(t).name)) => Len(got'[t]) = Len(got[t]) + 1 /\ step'[t] = 1
      /\ step[t] # Len(Code(Call(t).name)) => got'[t] = got[t]
  BY <1>3, Goes
<1> QED
  BY <1>1, <1>2, <1>4, PublishCall, KnowsOrdered

\* A fence that is more than an acquire orders what was loaded before it.
LEMMA FullFence ==
    ASSUME IInv, ViewInv, IInv', Grows, NEW t \in Thread, NEW d \in Address, Access(t) = Fence, Acts(t),
           loaded[t][d] >= 2
    PROVE  view'[t][d] >= 2 /\ fenced'[t][d] >= 2 /\ writes' = writes
<1>1. FenceMemory(t) /\ Access(t).order # "acquire"
  BY ActsAlone DEF Fence
<1>2. Before(loaded[t], view'[t]) /\ Before(loaded[t], fenced'[t]) /\ writes' = writes
  BY <1>1, FenceViews
<1>3. loaded[t][d] \in Nat /\ view'[t][d] \in Nat /\ fenced'[t][d] \in Nat
  BY ViewsRise
<1> QED
  BY <1>2, <1>3 DEF Before

\* A step in a barrier.
LEMMA BarrierStep ==
    ASSUME IInv, ViewInv, IInv', Grows, InCode, NEW s \in Thread, NEW d \in Address, PublishedBy(test, s, d),
           NEW t \in Thread, Told(t, d), Acts(t), Len(got[t]) # 0, Call(t).name = "barrier"
    PROVE  Told(t, d)'
<1>1. /\ Running(t) /\ test' = test /\ Call(t) = test.program[t][Len(got[t]) + 1]
      /\ loaded[t][d] >= 2 /\ \A i \in 1 .. Len(got[t]) : got'[t][i] = got[t][i]
      /\ step[t] = Len(Code(Call(t).name)) => Len(got'[t]) = Len(got[t]) + 1 /\ step'[t] = 1
  BY LaterCall
<1>2. Access(t) = Fence /\ step[t] = Len(Code(Call(t).name))
  BY <1>1, PublishAccess
<1>3. view'[t][d] >= 2 /\ fenced'[t][d] >= 2 /\ writes' = writes
  BY <1>1, <1>2, FullFence
<1>4. \A a \in Address \ {d} : FlagCarries(a, d)'
  BY <1>3 DEF Told, FlagCarries
<1>5. test.program[t][Len(got[t]) + 1].name # "read_nonatomic"
  BY <1>1
<1> QED
  BY <1>1, <1>2, <1>3, <1>4, <1>5, ReturnTells

\* A step in a write to a flag.
LEMMA WriteStep ==
    ASSUME IInv, ViewInv, IInv', Grows, InCode, NEW s \in Thread, NEW d \in Address, PublishedBy(test, s, d),
           NEW t \in Thread, Told(t, d), Acts(t), Len(got[t]) # 0, Call(t).name = "write"
    PROVE  Told(t, d)'
<1>1. /\ Running(t) /\ test' = test /\ Call(t) = test.program[t][Len(got[t]) + 1] /\ Call(t).at \in Address
      /\ PassesData(test.program[t], Len(got[t]) + 1, d)
      /\ Ordered(test.program[t], Len(got[t]) + 1) => view[t][d] >= 2
      /\ loaded[t][d] >= 2 /\ \A i \in 1 .. Len(got[t]) : got'[t][i] = got[t][i]
      /\ step[t] = Len(Code(Call(t).name)) => Len(got'[t]) = Len(got[t]) + 1 /\ step'[t] = 1
      /\ step[t] # Len(Code(Call(t).name)) => got'[t] = got[t]
  BY LaterCall
<1>2. PICK f \in Address : f = Call(t).at
  BY <1>1
<1>3. f # d /\ view[t][d] >= 2
  BY <1>1, <1>2 DEF PassesData, Swappers
<1>4. test.program[t][Len(got[t]) + 1].name \notin {"barrier", "read_nonatomic"}
  BY <1>1
<1>5. CASE Access(t) = Fence /\ step[t] # Len(Code(Call(t).name))
  <2>1. fenced'[t][d] >= 2 /\ writes' = writes
    BY <1>1, <1>5, FullFence
  <2>2. Call(t).name # "read_acquire"
    OBVIOUS
  <2> QED
    BY <1>1, <1>5, <2>1, <2>2, GoingOnTells
<1>6. CASE Access(t).op = "store" /\ step[t] = Len(Code(Call(t).name))
            /\ (Access(t).order # "relaxed" \/ step[t] = 2)
  <2>1. StoreWord(t)
    BY <1>6, ActsAlone
  <2>2. /\ Write(t, f, Call(t).value, Access(t).order, NoView)
        /\ Call(t).value \in Value /\ NoView \in View /\ Bounded(NoView)
    BY <1>2, <1>6, <2>1, StoreOnce
  <2>3. fenced[t][d] >= 2 \/ (Access(t).order # "relaxed" /\ view[t][d] >= 2)
    BY <1>1, <1>3, <1>6 DEF Told, WillKnow
  <2>4. \A a \in Address \ {d} : FlagCarries(a, d)'
    <3>1. \A a \in Address \ {d} : FlagCarries(a, d)
      BY DEF Told
    <3> QED
      BY <1>3, <2>2, <2>3, <3>1, FlagWritten
  <2> QED
    BY <1>1, <1>4, <1>6, <2>4, ReturnTells
<1> QED
  BY <1>1, <1>5, <1>6, PublishAccess DEF Store

\* A step in a swap of a flag.
LEMMA SwapperStep ==
    ASSUME IInv, ViewInv, IInv', Grows, InCode, NEW s \in Thread, NEW d \in Address, PublishedBy(test, s, d),
           NEW t \in Thread, Told(t, d), Acts(t), Len(got[t]) # 0, Call(t).name \in Swappers
    PROVE  Told(t, d)'
<1>1. /\ Running(t) /\ test' = test /\ Call(t) = test.program[t][Len(got[t]) + 1] /\ Call(t).at \in Address
      /\ PassesData(test.program[t], Len(got[t]) + 1, d)
      /\ Barred(test.program[t], Len(got[t]) + 1) => fenced[t][d] >= 2
      /\ \A i \in 1 .. Len(got[t]) : got'[t][i] = got[t][i]
      /\ step[t] = Len(Code(Call(t).name)) => Len(got'[t]) = Len(got[t]) + 1 /\ step'[t] = 1
  BY LaterCall
<1>2. PICK f \in Address : f = Call(t).at
  BY <1>1
<1>3. f # d /\ fenced[t][d] >= 2
  BY <1>1, <1>2 DEF PassesData, Swappers
<1>4. test.program[t][Len(got[t]) + 1].name \notin {"barrier", "read_nonatomic"}
  BY <1>1 DEF Swappers
<1>5. Access(t).op \in {"cas", "weakcas"} /\ step[t] = Len(Code(Call(t).name))
  BY <1>1, PublishAccess
<1>6. \A a \in Address \ {d} : FlagCarries(a, d)'
  <2>1. \A a \in Address \ {d} : FlagCarries(a, d)
    BY DEF Told
  <2>2. CASE CasSucceeds(t)
    <3>1. Write(t, f, New(t), Access(t).order, Last(f).view)
      BY <1>2, <2>2 DEF CasSucceeds
    <3>2. New(t) \in Value /\ Last(f).view \in View
      BY <2>2, NewType, LastType DEF CasSucceeds
    <3>3. Bounded(Last(f).view)
      <4>1. Len(writes[f]) \in 1 .. Len(writes[f])
        <5>1. Len(writes[f]) \in Nat /\ Len(writes[f]) >= 1
          BY Views
        <5> QED
          BY <5>1
      <4> QED
        BY <4>1 DEF ViewInv, Last
    <3> QED
      BY <1>3, <2>1, <3>1, <3>2, <3>3, FlagWritten
  <2>3. CASE CasFails(t)
    <3>1. PICK i \in 1 .. Len(writes[f]) : Read(t, f, i, Access(t).order)
      BY <1>2, <2>3 DEF CasFails
    <3>2. writes' = writes
      BY <3>1, ReadType
    <3> QED
      BY <2>1, <3>2 DEF FlagCarries
  <2> QED
    BY <1>5, <2>2, <2>3, ActsAlone
<1> QED
  BY <1>1, <1>4, <1>5, <1>6, ReturnTells

\* A step in a look at the data.
LEMMA LookStep ==
    ASSUME IInv, ViewInv, IInv', Grows, InCode, NEW s \in Thread, NEW d \in Address, PublishedBy(test, s, d),
           DataWritten(s, d), NEW t \in Thread, Told(t, d), Acts(t), Len(got[t]) # 0,
           Call(t).name = "read_nonatomic"
    PROVE  Told(t, d)'
<1>1. /\ Running(t) /\ test' = test /\ Call(t) = test.program[t][Len(got[t]) + 1]
      /\ PassesData(test.program[t], Len(got[t]) + 1, d)
      /\ Ordered(test.program[t], Len(got[t]) + 1) => view[t][d] >= 2
      /\ \A i \in 1 .. Len(got[t]) : got'[t][i] = got[t][i]
      /\ step[t] = Len(Code(Call(t).name)) => Len(got'[t]) = Len(got[t]) + 1 /\ step'[t] = 1
  BY LaterCall
<1>2. Call(t).at = d /\ view[t][d] >= 2
  BY <1>1 DEF PassesData, Swappers
<1>3. Access(t).op = "load" /\ step[t] = Len(Code(Call(t).name))
  BY <1>1, PublishAccess DEF Load
<1>4. LoadWord(t)
  BY <1>3, ActsAlone
<1>5. PICK i \in 1 .. Len(writes[d]) :
         Read(t, d, i, Access(t).order) /\ got'[t][Len(got[t]) + 1] = writes[d][i].value
  BY <1>2, <1>3, <1>4, LoadOnce
<1>6. writes' = writes
  BY <1>3, <1>4, LoadOnce
<1>7. writes[d][i].value = 1
  <2>1. i \in view[t][d] .. Len(writes[d])
    BY <1>5 DEF Read
  <2>2. Len(writes[d]) \in {1, 2} /\ (Len(writes[d]) = 2 => writes[d][2].value = 1)
    BY DEF DataWritten
  <2>3. view[t][d] \in Nat
    BY ViewsRise
  <2>4. \A v \in Nat : \A n \in {1, 2} : \A k \in v .. n : v >= 2 => k = 2 /\ n = 2
    OBVIOUS
  <2>5. i = 2 /\ Len(writes[d]) = 2
    BY <1>2, <2>1, <2>2, <2>3, <2>4
  <2> QED
    BY <2>2, <2>5
<1>8. \A a \in Address \ {d} : FlagCarries(a, d)'
  BY <1>6 DEF Told, FlagCarries
<1>9. test.program[t][Len(got[t]) + 1].name # "barrier"
  BY <1>1
<1> QED
  BY <1>1, <1>3, <1>5, <1>7, <1>8, <1>9, ReturnTells

\* A step of a thread, whatever its call.
LEMMA CallStep ==
    ASSUME IInv, ViewInv, IInv', Grows, InCode, NEW s \in Thread, NEW d \in Address, PublishedBy(test, s, d),
           DataWritten(s, d), AllRaised', NEW t \in Thread, Told(t, d), Acts(t)
    PROVE  Told(t, d)'
<1>1. CASE Len(got[t]) = 0
  BY <1>1, HeadStep
<1>2. CASE Len(got[t]) # 0
  <2>1. Call(t).name \in {"barrier", "write", "read_nonatomic"} \cup Swappers
    BY <1>2, LaterCall DEF PassesData
  <2> QED
    BY <1>2, <2>1, BarrierStep, WriteStep, SwapperStep, LookStep
<1> QED
  BY <1>1, <1>2

\* What was told before a step is told after it.
LEMMA PublishedStep ==
    ASSUME IInv, ViewInv, IInv', Grows, InCode, NEW s \in Thread, NEW d \in Address, PublishedBy(test, s, d),
           DataWritten(s, d), AllRaised => Published(s, d), AllRaised', NEW t \in Thread, Acts(t)
    PROVE  Published(s, d)'
<1>1. /\ test' = test
      /\ \A u \in Thread \ {t} : /\ got'[u] = got[u] /\ step'[u] = step[u] /\ reg'[u] = reg[u]
                                /\ view'[u] = view[u] /\ loaded'[u] = loaded[u] /\ fenced'[u] = fenced[u]
      /\ \A u \in Thread : /\ Len(got'[u]) \in Nat /\ Len(got'[u]) >= Len(got[u]) /\ Len(got[u]) \in Nat
                           /\ \A k \in 1 .. Len(got[u]) : got'[u][k] = got[u][k]
  BY ActsAlone, Programs
<1>2. AllRaised
  <2>1. ASSUME NEW u \in Thread, Len(got[u]) >= 1, test.program[u][1].name \in Heads PROVE got[u][1] = 1
    <3>1. Len(got'[u]) >= 1 /\ 1 \in 1 .. Len(got[u])
      BY <1>1, <2>1
    <3>2. got'[u][1] = 1
      BY <1>1, <2>1, <3>1 DEF AllRaised
    <3> QED
      BY <1>1, <3>1, <3>2
  <2> QED
    BY <2>1 DEF AllRaised
<1>3. Published(s, d)
  BY <1>2
<1>4. Told(t, d)'
  <2>1. Told(t, d)
    BY <1>3 DEF Published, Told
  <2> QED
    BY <2>1, CallStep
<1>5. ASSUME NEW u \in Thread, u # t PROVE KnowsData(u, d)' /\ WillKnow(u, d)' /\ SawData(u)'
  <2>1. KnowsData(u, d) /\ WillKnow(u, d) /\ SawData(u)
    BY <1>3 DEF Published
  <2> QED
    BY <1>1, <1>5, <2>1 DEF KnowsData, WillKnow, SawData, Running, Call
<1> QED
  BY <1>4, <1>5 DEF Published, Told

\* The published data is known of throughout.
LEMMA PublishStep == PublishInv /\ [Next]_vars => PublishInv'
<1> SUFFICES ASSUME PublishInv, [Next]_vars PROVE PublishInv'
  OBVIOUS
<1>1. IInv /\ ViewInv /\ IInv' /\ ViewInv' /\ Grows
  BY IInvStep, ViewStep DEF PublishInv
<1>2. ASSUME test'.name = "publish"
      PROVE  InCode' /\ \E s \in Thread, d \in Address :
                (PublishedBy(test, s, d) /\ DataWritten(s, d) /\ (AllRaised => Published(s, d)))'
  <2>1. CASE UNCHANGED vars
    <3>1. test' = test /\ InCode' = InCode /\ AllRaised' = AllRaised
          /\ \A s \in Thread, d \in Address : DataWritten(s, d)' = DataWritten(s, d)
      BY <2>1 DEF vars, InCode, Running, Call, Code, Basic, AllRaised, DataWritten
    <3>2. \A s \in Thread, d \in Address : Published(s, d)' = Published(s, d)
      BY <2>1 DEF vars, Published, KnowsData, WillKnow, SawData, FlagCarries, Running, Call
    <3>3. \A s \in Thread, d \in Address : PublishedBy(test', s, d) = PublishedBy(test, s, d)
      BY <3>1
    <3> QED
      BY <1>2, <3>1, <3>2, <3>3 DEF PublishInv
  <2>2. CASE ~UNCHANGED vars
    <3>1. PICK t \in Thread : Acts(t)
      BY <2>2, NextActs
    <3>2. test' = test
      BY <1>1, <3>1, ActsAlone
    <3>3. InCode /\ \E s \in Thread, d \in Address :
             PublishedBy(test, s, d) /\ DataWritten(s, d) /\ (AllRaised => Published(s, d))
      BY <1>2, <3>2 DEF PublishInv
    <3>4. PICK s \in Thread, d \in Address :
             PublishedBy(test, s, d) /\ DataWritten(s, d) /\ (AllRaised => Published(s, d))
      BY <3>3
    <3>5. InCode' /\ DataWritten(s, d)'
      BY <1>1, <3>1, <3>3, <3>4, DataStep
    <3>6. AllRaised' => Published(s, d)'
      BY <1>1, <3>1, <3>3, <3>4, PublishedStep
    <3>7. PublishedBy(test', s, d)
      BY <3>2, <3>4
    <3> QED
      BY <3>5, <3>6, <3>7
  <2> QED
    BY <2>1, <2>2
<1> QED
  BY <1>1, <1>2 DEF PublishInv

\* At the start nothing is written and nothing need be known.
LEMMA PublishInit == Publishing /\ Init => PublishInv
<1> SUFFICES ASSUME Publishing, Init PROVE PublishInv
  OBVIOUS
<1>1. IInv /\ ViewInv
  BY IInvInit, ViewInit
<1>2. ASSUME test.name = "publish"
      PROVE  InCode /\ \E s \in Thread, d \in Address :
                PublishedBy(test, s, d) /\ DataWritten(s, d) /\ (AllRaised => Published(s, d))
  <2>1. test \in Test /\ \A t \in Thread : step[t] = 1 /\ Len(got[t]) = 0
    BY DEF Init
  <2>2. \A a \in Address : Len(writes[a]) = 1 /\ writes[a][1].value = 0
    BY DEF Init
  <2>3. PICK s \in Thread, d \in Address : PublishedBy(test, s, d)
    BY <1>2, <2>1 DEF Publishing
  <2>4. ASSUME NEW t \in Thread, Running(t) PROVE step[t] <= Len(Code(Call(t).name))
    <3>1. Len(Code(Call(t).name)) \in {1, 2}
      BY <1>1, <2>3, <2>4, PublishCall
    <3>2. \A n \in {1, 2} : 1 <= n
      OBVIOUS
    <3> QED
      BY <2>1, <3>1, <3>2
  <2>5. DataWritten(s, d)
    <3>1. Len(writes[d]) = 1 /\ Len(got[s]) = 0 /\ 1 # 2
      BY <2>1, <2>2
    <3> QED
      BY <3>1 DEF DataWritten
  <2>6. \A t \in Thread : KnowsData(t, d) /\ WillKnow(t, d) /\ SawData(t)
    BY <2>1 DEF KnowsData, WillKnow, SawData
  <2>7. \A a \in Address : FlagCarries(a, d)
    BY <2>2 DEF FlagCarries
  <2> QED
    BY <2>3, <2>4, <2>5, <2>6, <2>7 DEF InCode, Published
<1> QED
  BY <1>1, <1>2 DEF PublishInv

\* With programs that publish, one thread writing the data first and all others beginning with
\* a look at a flag, whoever has found the flag raised reads the data, over however many threads
\* the flag was handed on.
THEOREM PublishedSeenTheorem == Publishing => (Spec => []PublishedSeen)
<1> SUFFICES ASSUME Publishing PROVE Spec => []PublishedSeen
  OBVIOUS
<1>1. Init => PublishInv
  BY PublishInit
<1>2. PublishInv /\ [Next]_vars => PublishInv'
  BY PublishStep
<1>3. PublishInv => PublishedSeen
  <2> SUFFICES ASSUME PublishInv, test.name = "publish",
                      \A e \in Done({"read_acquire", "read_relaxed"}) : e[2] = 1 => Result(e) = 1,
                      NEW t \in Thread, LooksLast(t)
               PROVE  got[t][Len(got[t])] = 1
    BY DEF PublishedSeen
  <2>1. PICK s \in Thread, d \in Address : PublishedBy(test, s, d) /\ (AllRaised => Published(s, d))
    BY DEF PublishInv
  <2>2. \A u \in Thread : Len(got[u]) \in Nat /\ Len(got[u]) <= Len(test.program[u]) /\ Len(test.program[u]) \in Nat
    BY Programs DEF PublishInv
  <2>3. AllRaised
    <3>1. ASSUME NEW u \in Thread, Len(got[u]) >= 1, test.program[u][1].name \in Heads PROVE got[u][1] = 1
      <4>1. <<u, 1>> \in Thread \X Nat /\ 1 \in 1 .. Len(got[u])
        BY <2>2, <3>1
      <4>2. <<u, 1>> \in Returned
        BY <4>1, Positions DEF Returned
      <4>3. <<u, 1>> \in Done({"read_acquire", "read_relaxed"})
        BY <3>1, <4>2 DEF Done, CallOf, Heads
      <4> QED
        BY <4>3 DEF Result
    <3> QED
      BY <3>1 DEF AllRaised
  <2>4. SawData(t)
    BY <2>1, <2>3 DEF Published
  <2>5. Len(got[t]) >= 1 /\ test.program[t][Len(got[t])].name = "read_nonatomic"
    BY <2>2 DEF LooksLast, CallOf
  <2>6. Len(got[t]) # 1
    <3>1. Len(test.program[t]) >= 1
      BY <2>2, <2>5
    <3>2. test.program[t][1].name # "read_nonatomic"
      BY <2>1, <3>1 DEF PublishedBy, Heads
    <3> QED
      BY <2>5, <3>2
  <2>7. Len(got[t]) \in 2 .. Len(got[t])
    <3>1. \A n \in Nat : n >= 1 /\ n # 1 => n \in 2 .. n
      OBVIOUS
    <3> QED
      BY <2>2, <2>5, <2>6, <3>1
  <2> QED
    BY <2>4, <2>5, <2>7 DEF SawData
<1> QED
  BY <1>1, <1>2, <1>3, PTL DEF Spec
=============================================================================

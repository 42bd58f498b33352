--------------------------- MODULE WindowsTssProofs ---------------------------
(***************************************************************************)
(* Proofs about WindowsTss, for any number of threads, keys and entries,   *)
(* as long as the program has called mulle_thread_tss_init itself before   *)
(* anything else: then tss_init and tss_done are never the first or the    *)
(* last, and what goes wrong without cannot happen.                        *)
(***************************************************************************)
EXTENDS WindowsTss, FiniteSetTheorems, TLAPS

\* Where a thread is, when tss_init and tss_done never find that they are the first or
\* the last.
Steps == \A t \in Thread :
    pc[t] \in {"run", "init", "add", "remove", "done", "free", "scan", "scanning", "gone"}

\* The section is held for one scan at a time, by a thread that scans or is in a
\* destructor, which may create keys.
Section == /\ ready
           /\ holder # NULL => pc[holder] \in {"scanning", "run", "init", "add"}
           /\ \A t \in Thread : pc[t] = "scanning" => holder = t

\* A key that is created or freed is in the hands of one thread, and shared with no other.
Args == /\ \A t \in Thread : arg[t] # NULL <=> pc[t] \in {"init", "add", "remove", "done", "free"}
        /\ \A t \in Thread : arg[t] # NULL => arg[t] \in alloc \ shared
        /\ \A t, u \in Thread : arg[t] # NULL /\ arg[t] = arg[u] => t = u

\* The keys that the count stands for.
Counted == shared \cup {arg[t] : t \in {u \in Thread : pc[u] \in {"add", "remove", "done"}}}

Count == IsFiniteSet(Counted) /\ inited = Cardinality(Counted) + 2

\* The table has an entry with its destructor for each key that has one, from add to remove.
Tabled(k) == k \in shared \/ \E t \in Thread : arg[t] = k /\ pc[t] = "remove"

Table == /\ \A i \in DOMAIN table.entries : table.entries[i] # Hole =>
               /\ Tabled(table.entries[i].key)
               /\ table.entries[i].f # NULL /\ table.entries[i].f = dtor[table.entries[i].key]
         /\ \A i, j \in DOMAIN table.entries :
               table.entries[i] # Hole /\ table.entries[i].key = table.entries[j].key => i = j
         /\ \A k \in Key : Tabled(k) /\ dtor[k] # NULL =>
               \E i \in DOMAIN table.entries : table.entries[i].key = k

\* The table is as large as it must be, and only the thread that scans it moves it.
Size == /\ Len(table.entries) <= table.size
        /\ \A t \in Thread : holder # t => scan[t].last = 0
        /\ holder # NULL => scan[holder].lost \in {NULL, holder}

\* Values are stored under shared keys, unless their thread has ended or frees the key.
Values == \A t \in Thread : \A k \in value[t] :
    \/ k \in shared
    \/ /\ \A u \in Thread : arg[u] = k => pc[u] \in {"remove", "done", "free"}
       /\ pc[t] = "gone" \/ arg[t] = k

\* A scan has yet to come to the destructor of each of the thread's values, but for those
\* that were set too late.
Scans == holder # NULL => \A k \in value[holder] \ late[holder] : dtor[k] # NULL =>
            \E i \in Ahead(holder) : table.entries[i].key = k

BInv == /\ TypeOK /\ Steps /\ Section /\ Args /\ Count /\ Table /\ Size /\ Values /\ Scans
        /\ OwnDestructor /\ ExitRunsDestructors

IInv == base => BInv

-----------------------------------------------------------------------------
\* NULL is no thread, key or destructor, and 0 is no key.
LEMMA NullFacts == /\ NULL \notin Thread /\ NULL \notin Key /\ NULL \notin Destructor
                   /\ 0 \notin Key /\ Key \subseteq Nat
                   /\ FirstSize \in Nat \ {0}
  BY WindowsTssAssumption

\* The initial states satisfy the invariant.
LEMMA IInvInit == Init => IInv
<1> SUFFICES ASSUME Init, base PROVE BInv
  BY DEF IInv
<1> USE NullFacts DEF Init
<1>1. TypeOK
  BY DEF TypeOK, Label, NoTable, NoScan, Hole, Entry
<1>2. Steps /\ Section /\ Args
  BY DEF Steps, Section, Args
<1>3. Count
  <2>1. Counted = {}
    BY DEF Counted
  <2> QED
    BY <2>1, FS_EmptySet DEF Count
<1>4. Table /\ Size
  BY DEF Table, Tabled, Size, NoTable, NoScan
<1>5. Values /\ Scans
  BY DEF Values, Scans
<1>6. OwnDestructor /\ ExitRunsDestructors
  BY DEF OwnDestructor, InDestructor, ExitRunsDestructors
<1> QED
  BY <1>1, <1>2, <1>3, <1>4, <1>5, <1>6 DEF BInv

\* What adding an entry makes of the table ...
LEMMA AddEntry ==
    ASSUME NEW s \in Seq(Entry), NEW e \in Entry
    PROVE  /\ Append(s, e) \in Seq(Entry) /\ Len(s) \in Nat
           /\ Len(Append(s, e)) = Len(s) + 1
           /\ DOMAIN s = 1 .. Len(s) /\ DOMAIN Append(s, e) = 1 .. Len(s) + 1
           /\ Append(s, e)[Len(s) + 1] = e
           /\ \A i \in DOMAIN s : Append(s, e)[i] = s[i]
  OBVIOUS

\* ... and what removing one does.
LEMMA MakeHoles ==
    ASSUME NEW s \in Seq(Entry), NEW S
    PROVE  LET r == [i \in DOMAIN s |-> IF i \in S THEN Hole ELSE s[i]]
           IN  r \in Seq(Entry) /\ Len(r) = Len(s) /\ DOMAIN r = DOMAIN s /\ DOMAIN s = 1 .. Len(s)
<1> DEFINE r == [i \in DOMAIN s |-> IF i \in S THEN Hole ELSE s[i]]
<1>1. Hole \in Entry
  BY DEF Hole, Entry
<1>2. DOMAIN s = 1 .. Len(s) /\ Len(s) \in Nat /\ \A i \in DOMAIN s : s[i] \in Entry
  OBVIOUS
<1>3. r \in [1 .. Len(s) -> Entry]
  BY <1>1, <1>2
<1> HIDE DEF r
<1>4. r \in Seq(Entry) /\ Len(r) = Len(s) /\ DOMAIN r = 1 .. Len(s)
  BY <1>2, <1>3
<1> QED
  BY <1>2, <1>4 DEF r

\* The entry that an add appends, and the table a remove leaves.
LEMMA TableType ==
    ASSUME TypeOK, Args, NEW t \in Thread
    PROVE  /\ Add(t) => table' \in [size : Nat, entries : Seq(Entry)]
           /\ Remove(t) => table' \in [size : Nat, entries : Seq(Entry)]
<1>1. table \in [size : Nat, entries : Seq(Entry)] /\ table.entries \in Seq(Entry) /\ table.size \in Nat
  BY DEF TypeOK
<1>2. ASSUME Add(t) PROVE table' \in [size : Nat, entries : Seq(Entry)]
  <2>1. CASE dtor[arg[t]] = NULL
    BY <1>1, <1>2, <2>1 DEF Add
  <2>2. CASE dtor[arg[t]] # NULL
    <3>1. arg[t] \in Key /\ dtor[arg[t]] \in Destructor
      BY <1>2, <2>2 DEF Add, Args, TypeOK
    <3>2. [key |-> arg[t], f |-> dtor[arg[t]]] \in Entry
      BY <3>1 DEF Entry
    <3>3. Grown \in Nat
      BY <1>1, NullFacts DEF Grown
    <3>4. Append(table.entries, [key |-> arg[t], f |-> dtor[arg[t]]]) \in Seq(Entry)
      BY <1>1, <3>2, AddEntry
    <3>5. table' = [size |-> Grown,
                    entries |-> Append(table.entries, [key |-> arg[t], f |-> dtor[arg[t]]])]
      BY <1>2, <2>2 DEF Add
    <3> QED
      BY <3>3, <3>4, <3>5
  <2> QED
    BY <2>1, <2>2
<1>3. ASSUME Remove(t) PROVE table' \in [size : Nat, entries : Seq(Entry)]
  <2>1. table' = [table EXCEPT !.entries = [i \in DOMAIN table.entries |->
                     IF i \in FirstEntryOf(arg[t]) THEN Hole ELSE table.entries[i]]]
    BY <1>3 DEF Remove
  <2>2. [i \in DOMAIN table.entries |-> IF i \in FirstEntryOf(arg[t]) THEN Hole ELSE table.entries[i]]
           \in Seq(Entry)
    BY <1>1, MakeHoles
  <2> QED
    BY <1>1, <2>1, <2>2
<1> QED
  BY <1>2, <1>3

\* A scan whose table moves goes on as before, but is marked.
LEMMA AddScan ==
    ASSUME TypeOK, NEW t \in Thread, Add(t)
    PROVE  /\ scan' \in [Thread -> [at : Nat, last : Nat, lost : Thread \cup {NULL}, entry : Entry]]
           /\ \A u \in Thread : /\ scan'[u].at = scan[u].at /\ scan'[u].last = scan[u].last
                              /\ scan'[u].entry = scan[u].entry
                              /\ scan'[u].lost \in {scan[u].lost, t}
<1>1. scan \in [Thread -> [at : Nat, last : Nat, lost : Thread \cup {NULL}, entry : Entry]]
  BY DEF TypeOK
<1>2. CASE scan' = scan
  BY <1>1, <1>2
<1>3. CASE scan' = Lost(t)
  <2>1. \A u \in Thread : scan'[u] = IF scan[u].last = 0 THEN scan[u] ELSE [scan[u] EXCEPT !.lost = t]
    BY <1>3 DEF Lost
  <2>2. ASSUME NEW u \in Thread
        PROVE  /\ scan'[u] \in [at : Nat, last : Nat, lost : Thread \cup {NULL}, entry : Entry]
               /\ scan'[u].at = scan[u].at /\ scan'[u].last = scan[u].last
               /\ scan'[u].entry = scan[u].entry /\ scan'[u].lost \in {scan[u].lost, t}
    <3>1. CASE scan[u].last = 0
      BY <1>1, <2>1, <3>1
    <3>2. CASE scan[u].last # 0
      <4>1. scan'[u] = [scan[u] EXCEPT !.lost = t]
        BY <2>1, <3>2
      <4>2. scan[u] \in [at : Nat, last : Nat, lost : Thread \cup {NULL}, entry : Entry]
        BY <1>1
      <4> QED
        BY <4>1, <4>2
    <3> QED
      BY <3>1, <3>2
  <2>3. scan' = [u \in Thread |-> scan'[u]]
    BY <1>3 DEF Lost
  <2> QED
    BY <2>2, <2>3
<1> QED
  BY <1>2, <1>3 DEF Add

\* The count is 2 at least.
LEMMA Counting == ASSUME Count PROVE inited \in Nat /\ inited >= 2
  BY FS_CardinalityType DEF Count

\* With a count of 2 or more, tss_init goes on to add its destructor at once ...
LEMMA InitGoesOn ==
    ASSUME BInv, NEW t \in Thread, InitIncrement(t)
    PROVE  /\ pc[t] = "init" /\ pc' = [pc EXCEPT ![t] = "add"] /\ inited' = inited + 1
           /\ UNCHANGED <<ready, holder, table, base, alloc, shared, dtor, value, late, arg, scan>>
<1>1. inited \in Nat /\ inited >= 2
  BY Counting DEF BInv
<1>2. inited + 1 # 1 /\ inited + 1 # 2
  BY <1>1
<1> QED
  BY <1>2 DEF InitIncrement, Goto, keyVars

\* Types are kept.
LEMMA TypeStep == BInv /\ base /\ [Next]_vars => TypeOK'
<1> SUFFICES ASSUME BInv, base, [Next]_vars PROVE TypeOK'
  OBVIOUS
<1>1. TypeOK /\ Args
  BY DEF BInv
<1>2. CASE UNCHANGED vars
  BY <1>1, <1>2 DEF TypeOK, vars
<1>3. ASSUME NEW t \in Thread, Create(t) PROVE TypeOK'
  <2>1. PICK k \in Key \ alloc, f \in Destructor \cup {NULL} :
           /\ alloc' = alloc \cup {k} /\ dtor' = [dtor EXCEPT ![k] = f]
           /\ arg' = [arg EXCEPT ![t] = k] /\ pc' = [pc EXCEPT ![t] = "init"]
           /\ UNCHANGED <<base, inited, ready, holder, table, shared, value, late, scan>>
    BY <1>3 DEF Create, Goto
  <2>2. value' \in [Thread -> SUBSET alloc']
    BY <1>1, <2>1 DEF TypeOK
  <2> QED
    BY <1>1, <2>1, <2>2 DEF TypeOK, Label
<1>4. ASSUME NEW t \in Thread, InitIncrement(t) PROVE TypeOK'
  <2>1. pc' = [pc EXCEPT ![t] = "add"]
    BY <1>4, InitGoesOn
  <2>2. inited' = inited + 1
    BY <1>4 DEF InitIncrement
  <2>3. UNCHANGED <<base, alloc, shared, dtor, value, late, arg, ready, holder, table, scan>>
    BY <1>4 DEF InitIncrement, keyVars
  <2> QED
    BY <1>1, <2>1, <2>2, <2>3 DEF TypeOK, Label
<1>5. ASSUME NEW t \in Thread, Add(t) PROVE TypeOK'
  <2>1. table' \in [size : Nat, entries : Seq(Entry)]
    BY <1>1, <1>5, TableType
  <2>2. arg[t] \in alloc
    BY <1>1, <1>5 DEF Args, Add
  <2>3. /\ shared' = shared \cup {arg[t]} /\ arg' = [arg EXCEPT ![t] = NULL]
        /\ pc' = [pc EXCEPT ![t] = "run"]
        /\ UNCHANGED <<base, inited, ready, holder, alloc, dtor, value, late>>
    BY <1>5 DEF Add, Goto
  <2> QED
    BY <1>1, <1>5, <2>1, <2>2, <2>3, AddScan DEF TypeOK, Label
<1>6. ASSUME NEW t \in Thread, Free(t) PROVE TypeOK'
  BY <1>1, <1>6 DEF TypeOK, Free, Goto, Label
<1>7. ASSUME NEW t \in Thread, Remove(t) PROVE TypeOK'
  BY <1>1, <1>7, TableType DEF TypeOK, Remove, Goto, Label, keyVars
<1>8. ASSUME NEW t \in Thread, DoneDecrement(t) PROVE TypeOK'
  <2>1. inited - 1 \in Nat
    BY Counting DEF BInv
  <2> QED
    BY <1>1, <1>8, <2>1 DEF TypeOK, DoneDecrement, Goto, Label, keyVars
<1>9. ASSUME NEW t \in Thread, TlsFree(t) PROVE TypeOK'
  BY <1>1, <1>9 DEF TypeOK, TlsFree, Goto, Label, Args
<1>10. ASSUME NEW t \in Thread, Set(t) \/ SetInDestructor(t) PROVE TypeOK'
  <2>1. PICK k \in shared : value' = [value EXCEPT ![t] = value[t] \cup {k}]
    BY <1>10 DEF Set, SetInDestructor
  <2>2. UNCHANGED <<base, inited, ready, holder, table, alloc, shared, dtor, pc, arg, scan>>
    BY <1>10 DEF Set, SetInDestructor
  <2>3. PICK g \in shared : late' = late \/ late' = [late EXCEPT ![t] = late[t] \cup {g}]
    BY <1>10 DEF Set, SetInDestructor
  <2>4. late' \in [Thread -> SUBSET Key]
    BY <1>1, <2>3 DEF TypeOK
  <2> QED
    BY <1>1, <2>1, <2>2, <2>4 DEF TypeOK
<1>11. ASSUME NEW t \in Thread, Exit(t) \/ Return(t) PROVE TypeOK'
  BY <1>1, <1>11 DEF TypeOK, Exit, Return, Goto, Label, keyVars
<1>12. ASSUME NEW t \in Thread, BeginScan(t) PROVE TypeOK'
  <2>1. StartOfTable = [at |-> 0, last |-> Len(table.entries), lost |-> NULL, entry |-> Hole]
    BY DEF StartOfTable, NoScan
  <2>2. Len(table.entries) \in Nat /\ Hole \in Entry
    BY <1>1 DEF TypeOK, Hole, Entry
  <2> QED
    BY <1>1, <1>12, <2>1, <2>2 DEF TypeOK, BeginScan, Goto, Label, keyVars
<1>13. ASSUME NEW t \in Thread, CallDestructor(t) PROVE TypeOK'
  <2>1. PICK i \in DOMAIN table.entries :
           /\ scan' = [scan EXCEPT ![t].at = i, ![t].entry = table.entries[i]]
           /\ value' = [value EXCEPT ![t] = value[t] \ {table.entries[i].key}]
    BY <1>13 DEF CallDestructor, Due, Ahead
  <2>2. i \in Nat /\ table.entries[i] \in Entry
    BY <1>1 DEF TypeOK
  <2>3. scan' \in [Thread -> [at : Nat, last : Nat, lost : Thread \cup {NULL}, entry : Entry]]
    <3>1. scan \in [Thread -> [at : Nat, last : Nat, lost : Thread \cup {NULL}, entry : Entry]]
      BY <1>1 DEF TypeOK
    <3> QED
      BY <2>1, <2>2, <3>1
  <2>4. /\ pc' = [pc EXCEPT ![t] = "run"] /\ "run" \in Label
        /\ UNCHANGED <<base, inited, ready, holder, table, alloc, shared, dtor, late, arg>>
    BY <1>13 DEF CallDestructor, Goto, Label
  <2>5. value' \in [Thread -> SUBSET alloc]
    BY <1>1, <2>1 DEF TypeOK
  <2> QED
    BY <1>1, <2>3, <2>4, <2>5 DEF TypeOK
<1>14. ASSUME NEW t \in Thread, DestructorReturns(t) PROVE TypeOK'
  BY <1>1, <1>14 DEF TypeOK, DestructorReturns, Goto, Label, keyVars
<1>15. ASSUME NEW t \in Thread, EndScan(t) PROVE TypeOK'
  BY <1>1, <1>15 DEF TypeOK, EndScan, Goto, Label, keyVars, NoScan, Hole, Entry
<1>16. ASSUME NEW t \in Thread, Start(t) PROVE TypeOK'
  BY <1>1, <1>16 DEF TypeOK, Start, Goto, Label
<1>17. ASSUME NEW t \in Thread PROVE ~(InitSection(t) \/ InitDone(t) \/ Undo(t) \/ Delete(t) \/ DoneDeleted(t))
  BY DEF BInv, Steps, InitSection, InitDone, Undo, Delete, DoneDeleted
<1> QED
  BY <1>2, <1>3, <1>4, <1>5, <1>6, <1>7, <1>8, <1>9, <1>10, <1>11, <1>12, <1>13, <1>14, <1>15,
     <1>16, <1>17 DEF Next

\* Without the first and the last, five steps are never taken.
LEMMA NeverFirstOrLast ==
    ASSUME Steps, NEW t \in Thread
    PROVE  ~(InitSection(t) \/ InitDone(t) \/ Undo(t) \/ Delete(t) \/ DoneDeleted(t))
  BY DEF Steps, InitSection, InitDone, Undo, Delete, DoneDeleted

\* As the key that is freed is counted, too, tss_done goes on to TlsFree.
LEMMA DoneGoesOn ==
    ASSUME BInv, NEW t \in Thread, DoneDecrement(t)
    PROVE  /\ pc[t] = "done" /\ pc' = [pc EXCEPT ![t] = "free"] /\ inited' = inited - 1
           /\ UNCHANGED <<ready, holder, table, base, alloc, shared, dtor, value, late, arg, scan>>
<1>1. arg[t] \in Counted
  BY DEF Counted, DoneDecrement
<1>2. Cardinality(Counted) \in Nat /\ Cardinality(Counted) # 0 /\ inited = Cardinality(Counted) + 2
  BY <1>1, FS_CardinalityType, FS_EmptySet DEF BInv, Count
<1>3. inited - 1 # 1
  BY <1>2
<1> QED
  BY <1>3 DEF DoneDecrement, Goto, keyVars

\* No step is the first or the last.
LEMMA StepsStep == BInv /\ base /\ [Next]_vars => Steps'
<1> SUFFICES ASSUME BInv, base, [Next]_vars PROVE Steps'
  OBVIOUS
<1>1. Steps /\ Section /\ Args
  BY DEF BInv
<1>2. /\ pc = [t \in Thread |-> pc[t]] /\ arg = [t \in Thread |-> arg[t]]
      /\ holder \in Thread \cup {NULL} /\ alloc \subseteq Key /\ shared \subseteq alloc
  BY DEF BInv, TypeOK
<1>3. CASE UNCHANGED vars
  BY <1>1, <1>2, NullFacts, <1>3 DEF Steps, vars
<1>4. ASSUME NEW t \in Thread, Create(t) PROVE Steps'
  BY <1>1, <1>2, NullFacts, <1>4
     DEF Steps, Create, NestedCall, Calling, InDestructor, Goto
<1>5. ASSUME NEW t \in Thread, InitIncrement(t) PROVE Steps'
  BY <1>1, <1>2, NullFacts, <1>5, InitGoesOn DEF Steps
<1>6. ASSUME NEW t \in Thread, Add(t) PROVE Steps'
  BY <1>1, <1>2, NullFacts, <1>6
     DEF Steps, Add, MayEnter, Goto
<1>7. ASSUME NEW t \in Thread, Free(t) PROVE Steps'
  BY <1>1, <1>2, NullFacts, <1>7
     DEF Steps, Free, Calling, Goto
<1>8. ASSUME NEW t \in Thread, Remove(t) PROVE Steps'
  BY <1>1, <1>2, NullFacts, <1>8
     DEF Steps, Remove, MayEnter, Goto, keyVars
<1>9. ASSUME NEW t \in Thread, DoneDecrement(t) PROVE Steps'
  BY <1>1, <1>2, NullFacts, <1>9, DoneGoesOn DEF Steps
<1>10. ASSUME NEW t \in Thread, TlsFree(t) PROVE Steps'
  BY <1>1, <1>2, NullFacts, <1>10
     DEF Steps, TlsFree, Goto
<1>11. ASSUME NEW t \in Thread, Set(t) PROVE Steps'
  BY <1>1, <1>2, NullFacts, <1>11
     DEF Steps, Set, Calling
<1>12. ASSUME NEW t \in Thread, SetInDestructor(t) PROVE Steps'
  BY <1>1, <1>2, NullFacts, <1>12
     DEF Steps, SetInDestructor, InDestructor
<1>13. ASSUME NEW t \in Thread, Exit(t) PROVE Steps'
  BY <1>1, <1>2, NullFacts, <1>13
     DEF Steps, Exit, Calling, Goto, keyVars
<1>14. ASSUME NEW t \in Thread, Return(t) PROVE Steps'
  BY <1>1, <1>2, NullFacts, <1>14
     DEF Steps, Return, Calling, Goto, keyVars
<1>15. ASSUME NEW t \in Thread, BeginScan(t) PROVE Steps'
  BY <1>1, <1>2, NullFacts, <1>15
     DEF Steps, BeginScan, MayEnter, Goto, keyVars
<1>16. ASSUME NEW t \in Thread, CallDestructor(t) PROVE Steps'
  BY <1>1, <1>2, NullFacts, <1>16
     DEF Steps, CallDestructor, Goto
<1>17. ASSUME NEW t \in Thread, DestructorReturns(t) PROVE Steps'
  BY <1>1, <1>2, NullFacts, <1>17
     DEF Steps, DestructorReturns, InDestructor, Goto, keyVars
<1>18. ASSUME NEW t \in Thread, EndScan(t) PROVE Steps'
  BY <1>1, <1>2, NullFacts, <1>18
     DEF Steps, EndScan, Goto, keyVars
<1>19. ASSUME NEW t \in Thread, Start(t) PROVE Steps'
  BY <1>1, <1>2, NullFacts, <1>19
     DEF Steps, Start, Goto
<1> QED
  BY <1>3, <1>4, <1>5, <1>6, <1>7, <1>8, <1>9, <1>10, <1>11, <1>12, <1>13, <1>14, <1>15, <1>16, <1>17, <1>18, <1>19, NeverFirstOrLast DEF BInv, Next

\* The section is entered for one scan at a time.
LEMMA SectionStep == BInv /\ base /\ [Next]_vars => Section'
<1> SUFFICES ASSUME BInv, base, [Next]_vars PROVE Section'
  OBVIOUS
<1>1. Steps /\ Section /\ Args
  BY DEF BInv
<1>2. /\ pc = [t \in Thread |-> pc[t]] /\ arg = [t \in Thread |-> arg[t]]
      /\ holder \in Thread \cup {NULL} /\ alloc \subseteq Key /\ shared \subseteq alloc
  BY DEF BInv, TypeOK
<1>3. CASE UNCHANGED vars
  BY <1>1, <1>2, NullFacts, <1>3 DEF Section, vars
<1>4. ASSUME NEW t \in Thread, Create(t) PROVE Section'
  BY <1>1, <1>2, NullFacts, <1>4
     DEF Section, Create, NestedCall, Calling, InDestructor, Goto
<1>5. ASSUME NEW t \in Thread, InitIncrement(t) PROVE Section'
  BY <1>1, <1>2, NullFacts, <1>5, InitGoesOn DEF Section
<1>6. ASSUME NEW t \in Thread, Add(t) PROVE Section'
  BY <1>1, <1>2, NullFacts, <1>6
     DEF Section, Add, MayEnter, Goto
<1>7. ASSUME NEW t \in Thread, Free(t) PROVE Section'
  BY <1>1, <1>2, NullFacts, <1>7
     DEF Section, Free, Calling, Goto
<1>8. ASSUME NEW t \in Thread, Remove(t) PROVE Section'
  BY <1>1, <1>2, NullFacts, <1>8
     DEF Section, Remove, MayEnter, Goto, keyVars
<1>9. ASSUME NEW t \in Thread, DoneDecrement(t) PROVE Section'
  BY <1>1, <1>2, NullFacts, <1>9, DoneGoesOn DEF Section
<1>10. ASSUME NEW t \in Thread, TlsFree(t) PROVE Section'
  BY <1>1, <1>2, NullFacts, <1>10
     DEF Section, TlsFree, Goto
<1>11. ASSUME NEW t \in Thread, Set(t) PROVE Section'
  BY <1>1, <1>2, NullFacts, <1>11
     DEF Section, Set, Calling
<1>12. ASSUME NEW t \in Thread, SetInDestructor(t) PROVE Section'
  BY <1>1, <1>2, NullFacts, <1>12
     DEF Section, SetInDestructor, InDestructor
<1>13. ASSUME NEW t \in Thread, Exit(t) PROVE Section'
  BY <1>1, <1>2, NullFacts, <1>13
     DEF Section, Exit, Calling, Goto, keyVars
<1>14. ASSUME NEW t \in Thread, Return(t) PROVE Section'
  BY <1>1, <1>2, NullFacts, <1>14
     DEF Section, Return, Calling, Goto, keyVars
<1>15. ASSUME NEW t \in Thread, BeginScan(t) PROVE Section'
  BY <1>1, <1>2, NullFacts, <1>15
     DEF Section, BeginScan, MayEnter, Goto, keyVars
<1>16. ASSUME NEW t \in Thread, CallDestructor(t) PROVE Section'
  BY <1>1, <1>2, NullFacts, <1>16
     DEF Section, CallDestructor, Goto
<1>17. ASSUME NEW t \in Thread, DestructorReturns(t) PROVE Section'
  BY <1>1, <1>2, NullFacts, <1>17
     DEF Section, DestructorReturns, InDestructor, Goto, keyVars
<1>18. ASSUME NEW t \in Thread, EndScan(t) PROVE Section'
  BY <1>1, <1>2, NullFacts, <1>18
     DEF Section, EndScan, Goto, keyVars
<1>19. ASSUME NEW t \in Thread, Start(t) PROVE Section'
  BY <1>1, <1>2, NullFacts, <1>19
     DEF Section, Start, Goto
<1> QED
  BY <1>3, <1>4, <1>5, <1>6, <1>7, <1>8, <1>9, <1>10, <1>11, <1>12, <1>13, <1>14, <1>15, <1>16, <1>17, <1>18, <1>19, NeverFirstOrLast DEF BInv, Next

\* A key is in the hands of one thread.
LEMMA ArgsStep == BInv /\ base /\ [Next]_vars => Args'
<1> SUFFICES ASSUME BInv, base, [Next]_vars PROVE Args'
  OBVIOUS
<1>1. Steps /\ Section /\ Args
  BY DEF BInv
<1>2. /\ pc = [t \in Thread |-> pc[t]] /\ arg = [t \in Thread |-> arg[t]]
      /\ holder \in Thread \cup {NULL} /\ alloc \subseteq Key /\ shared \subseteq alloc
  BY DEF BInv, TypeOK
<1>3. CASE UNCHANGED vars
  BY <1>1, <1>2, NullFacts, <1>3 DEF Args, vars
<1>4. ASSUME NEW t \in Thread, Create(t) PROVE Args'
  <2>1. PICK k \in Key \ alloc : alloc' = alloc \cup {k} /\ arg' = [arg EXCEPT ![t] = k]
    BY <1>4 DEF Create
  <2>2. pc[t] = "run" /\ pc' = [pc EXCEPT ![t] = "init"] /\ shared' = shared
    BY <1>4 DEF Create, Calling, NestedCall, Goto
  <2> QED
    BY <1>1, <1>2, <2>1, <2>2, NullFacts DEF Args
<1>5. ASSUME NEW t \in Thread, InitIncrement(t) PROVE Args'
  BY <1>1, <1>2, NullFacts, <1>5, InitGoesOn DEF Args
<1>6. ASSUME NEW t \in Thread, Add(t) PROVE Args'
  BY <1>1, <1>2, NullFacts, <1>6
     DEF Args, Add, MayEnter, Goto
<1>7. ASSUME NEW t \in Thread, Free(t) PROVE Args'
  BY <1>1, <1>2, NullFacts, <1>7
     DEF Args, Free, Calling, Goto
<1>8. ASSUME NEW t \in Thread, Remove(t) PROVE Args'
  BY <1>1, <1>2, NullFacts, <1>8
     DEF Args, Remove, MayEnter, Goto, keyVars
<1>9. ASSUME NEW t \in Thread, DoneDecrement(t) PROVE Args'
  BY <1>1, <1>2, NullFacts, <1>9, DoneGoesOn DEF Args
<1>10. ASSUME NEW t \in Thread, TlsFree(t) PROVE Args'
  BY <1>1, <1>2, NullFacts, <1>10
     DEF Args, TlsFree, Goto
<1>11. ASSUME NEW t \in Thread, Set(t) PROVE Args'
  BY <1>1, <1>2, NullFacts, <1>11
     DEF Args, Set, Calling
<1>12. ASSUME NEW t \in Thread, SetInDestructor(t) PROVE Args'
  BY <1>1, <1>2, NullFacts, <1>12
     DEF Args, SetInDestructor, InDestructor
<1>13. ASSUME NEW t \in Thread, Exit(t) PROVE Args'
  BY <1>1, <1>2, NullFacts, <1>13
     DEF Args, Exit, Calling, Goto, keyVars
<1>14. ASSUME NEW t \in Thread, Return(t) PROVE Args'
  BY <1>1, <1>2, NullFacts, <1>14
     DEF Args, Return, Calling, Goto, keyVars
<1>15. ASSUME NEW t \in Thread, BeginScan(t) PROVE Args'
  BY <1>1, <1>2, NullFacts, <1>15
     DEF Args, BeginScan, MayEnter, Goto, keyVars
<1>16. ASSUME NEW t \in Thread, CallDestructor(t) PROVE Args'
  BY <1>1, <1>2, NullFacts, <1>16
     DEF Args, CallDestructor, Goto
<1>17. ASSUME NEW t \in Thread, DestructorReturns(t) PROVE Args'
  BY <1>1, <1>2, NullFacts, <1>17
     DEF Args, DestructorReturns, InDestructor, Goto, keyVars
<1>18. ASSUME NEW t \in Thread, EndScan(t) PROVE Args'
  BY <1>1, <1>2, NullFacts, <1>18
     DEF Args, EndScan, Goto, keyVars
<1>19. ASSUME NEW t \in Thread, Start(t) PROVE Args'
  BY <1>1, <1>2, NullFacts, <1>19
     DEF Args, Start, Goto
<1> QED
  BY <1>3, <1>4, <1>5, <1>6, <1>7, <1>8, <1>9, <1>10, <1>11, <1>12, <1>13, <1>14, <1>15, <1>16, <1>17, <1>18, <1>19, NeverFirstOrLast DEF BInv, Next

\* The count goes up and down with the keys.
LEMMA CountStep == BInv /\ base /\ [Next]_vars => Count'
<1> SUFFICES ASSUME BInv, base, [Next]_vars PROVE Count'
  OBVIOUS
<1>1. Args /\ Count
  BY DEF BInv
<1>2. /\ pc = [t \in Thread |-> pc[t]] /\ arg = [t \in Thread |-> arg[t]]
      /\ holder \in Thread \cup {NULL} /\ alloc \subseteq Key /\ shared \subseteq alloc
  BY DEF BInv, TypeOK
<1>3. CASE UNCHANGED vars
  BY <1>1, <1>3 DEF Count, Counted, vars
<1>4. ASSUME NEW t \in Thread, Create(t) PROVE Count'
  <2>1. /\ pc[t] = "run" /\ pc' = [pc EXCEPT ![t] = "init"] /\ shared' = shared /\ inited' = inited
        /\ \A u \in Thread \ {t} : arg'[u] = arg[u]
    BY <1>1, <1>2, <1>4 DEF Create, NestedCall, Calling, InDestructor, Goto
  <2>2. Counted' = Counted
    BY <1>1, <1>2, NullFacts, <2>1 DEF Counted, Args
  <2> QED
    BY <1>1, <2>1, <2>2 DEF Count
<1>5. ASSUME NEW t \in Thread, InitIncrement(t) PROVE Count'
  <2>1. /\ pc[t] = "init" /\ pc' = [pc EXCEPT ![t] = "add"] /\ inited' = inited + 1
        /\ arg' = arg /\ shared' = shared
    BY <1>5, InitGoesOn
  <2>2. arg[t] \notin Counted
    BY <1>1, <2>1 DEF Args, Counted
  <2>3. Counted' = Counted \cup {arg[t]}
    BY <1>2, <2>1 DEF Counted
  <2>4. IsFiniteSet(Counted') /\ Cardinality(Counted') = Cardinality(Counted) + 1
    BY <1>1, <2>2, <2>3, FS_AddElement DEF Count
  <2>5. Cardinality(Counted) \in Nat
    BY <1>1, FS_CardinalityType DEF Count
  <2> QED
    BY <1>1, <2>1, <2>4, <2>5 DEF Count
<1>6. ASSUME NEW t \in Thread, Add(t) PROVE Count'
  <2>1. /\ pc[t] = "add" /\ pc' = [pc EXCEPT ![t] = "run"] /\ inited' = inited
        /\ arg' = [arg EXCEPT ![t] = NULL] /\ shared' = shared \cup {arg[t]}
    BY <1>1, <1>2, <1>6 DEF Add, MayEnter, Goto
  <2>2. Counted' = Counted
    <3> DEFINE In(u) == pc[u] \in {"add", "remove", "done"}
    <3>1. \A u \in Thread \ {t} : (In(u)' <=> In(u)) /\ arg'[u] = arg[u]
      BY <1>2, <2>1
    <3>2. In(t) /\ ~In(t)'
      BY <1>1, <1>2, <2>1 DEF Args
    <3>3. shared' = shared \cup {arg[t]}
      BY <1>1, <1>2, <2>1 DEF Args
    <3>4. \A x : x \in Counted <=> x \in shared \/ \E u \in Thread : In(u) /\ x = arg[u]
      BY DEF Counted
    <3>5. \A x : x \in Counted' <=> x \in shared' \/ \E u \in Thread : In(u)' /\ x = arg'[u]
      BY DEF Counted
    <3> HIDE DEF In
    <3> QED
      BY <3>1, <3>2, <3>3, <3>4, <3>5
  <2> QED
    BY <1>1, <2>1, <2>2 DEF Count
<1>7. ASSUME NEW t \in Thread, Free(t) PROVE Count'
  <2>1. PICK k \in shared : arg' = [arg EXCEPT ![t] = k] /\ shared' = shared \ {k}
    BY <1>7 DEF Free
  <2>2. pc[t] = "run" /\ pc' = [pc EXCEPT ![t] = "remove"] /\ inited' = inited
    BY <1>7 DEF Free, Calling, Goto
  <2>3. Counted' = Counted
    <3> DEFINE In(u) == pc[u] \in {"add", "remove", "done"}
    <3>1. \A u \in Thread \ {t} : (In(u)' <=> In(u)) /\ arg'[u] = arg[u]
      BY <1>2, <2>1, <2>2
    <3>2. ~In(t) /\ In(t)' /\ arg'[t] \in shared
      BY <1>1, <1>2, <2>1, <2>2 DEF Args
    <3>3. shared' = shared \ {arg'[t]}
      BY <1>1, <1>2, <2>1, <2>2 DEF Args
    <3>4. \A x : x \in Counted <=> x \in shared \/ \E u \in Thread : In(u) /\ x = arg[u]
      BY DEF Counted
    <3>5. \A x : x \in Counted' <=> x \in shared' \/ \E u \in Thread : In(u)' /\ x = arg'[u]
      BY DEF Counted
    <3> HIDE DEF In
    <3> QED
      BY <3>1, <3>2, <3>3, <3>4, <3>5
  <2> QED
    BY <1>1, <2>2, <2>3 DEF Count
<1>8. ASSUME NEW t \in Thread, Remove(t) PROVE Count'
  <2>1. Counted' = Counted
    BY <1>1, <1>2, NullFacts, <1>8 DEF Counted, Args, Remove, MayEnter, Goto, keyVars
  <2> QED
    BY <1>1, <2>1, <1>8 DEF Count, Remove, MayEnter, Goto, keyVars
<1>9. ASSUME NEW t \in Thread, DoneDecrement(t) PROVE Count'
  <2>1. /\ pc[t] = "done" /\ pc' = [pc EXCEPT ![t] = "free"] /\ inited' = inited - 1
        /\ arg' = arg /\ shared' = shared
    BY <1>9, DoneGoesOn
  <2>2. arg[t] \in Counted
    BY <2>1 DEF Counted
  <2>3. Counted' = Counted \ {arg[t]}
    BY <1>1, <1>2, <2>1 DEF Counted, Args
  <2>4. IsFiniteSet(Counted') /\ Cardinality(Counted') = Cardinality(Counted) - 1
    BY <1>1, <2>2, <2>3, FS_RemoveElement DEF Count
  <2>5. Cardinality(Counted) \in Nat
    BY <1>1, FS_CardinalityType DEF Count
  <2> QED
    BY <1>1, <2>1, <2>4, <2>5 DEF Count
<1>10. ASSUME NEW t \in Thread, TlsFree(t) PROVE Count'
  <2>1. /\ pc[t] = "free" /\ pc' = [pc EXCEPT ![t] = "run"] /\ inited' = inited
        /\ arg' = [arg EXCEPT ![t] = NULL] /\ shared' = shared
    BY <1>1, <1>2, <1>10 DEF TlsFree, Goto
  <2>2. Counted' = Counted
    <3> DEFINE In(u) == pc[u] \in {"add", "remove", "done"}
    <3>1. \A u \in Thread \ {t} : (In(u)' <=> In(u)) /\ arg'[u] = arg[u]
      BY <1>2, <2>1
    <3>2. ~In(t) /\ ~In(t)'
      BY <1>1, <1>2, <2>1 DEF Args
    <3>3. shared' = shared
      BY <1>1, <1>2, <2>1 DEF Args
    <3>4. \A x : x \in Counted <=> x \in shared \/ \E u \in Thread : In(u) /\ x = arg[u]
      BY DEF Counted
    <3>5. \A x : x \in Counted' <=> x \in shared' \/ \E u \in Thread : In(u)' /\ x = arg'[u]
      BY DEF Counted
    <3> HIDE DEF In
    <3> QED
      BY <3>1, <3>2, <3>3, <3>4, <3>5
  <2> QED
    BY <1>1, <2>1, <2>2 DEF Count
<1>11. ASSUME NEW t \in Thread, Set(t) PROVE Count'
  <2>1. Counted' = Counted
    BY <1>1, <1>2, NullFacts, <1>11 DEF Counted, Args, Set, Calling
  <2> QED
    BY <1>1, <2>1, <1>11 DEF Count, Set, Calling
<1>12. ASSUME NEW t \in Thread, SetInDestructor(t) PROVE Count'
  <2>1. UNCHANGED <<pc, arg, shared, inited>>
    BY <1>1, <1>2, <1>12 DEF SetInDestructor, InDestructor
  <2>2. Counted' = Counted
    BY <1>1, <1>2, NullFacts, <2>1 DEF Counted, Args
  <2> QED
    BY <1>1, <2>1, <2>2 DEF Count
<1>13. ASSUME NEW t \in Thread, Exit(t) PROVE Count'
  <2>1. Counted' = Counted
    BY <1>1, <1>2, NullFacts, <1>13 DEF Counted, Args, Exit, Calling, Goto, keyVars
  <2> QED
    BY <1>1, <2>1, <1>13 DEF Count, Exit, Calling, Goto, keyVars
<1>14. ASSUME NEW t \in Thread, Return(t) PROVE Count'
  <2>1. Counted' = Counted
    BY <1>1, <1>2, NullFacts, <1>14 DEF Counted, Args, Return, Calling, Goto, keyVars
  <2> QED
    BY <1>1, <2>1, <1>14 DEF Count, Return, Calling, Goto, keyVars
<1>15. ASSUME NEW t \in Thread, BeginScan(t) PROVE Count'
  <2>1. Counted' = Counted
    BY <1>1, <1>2, NullFacts, <1>15 DEF Counted, Args, BeginScan, MayEnter, Goto, keyVars
  <2> QED
    BY <1>1, <2>1, <1>15 DEF Count, BeginScan, MayEnter, Goto, keyVars
<1>16. ASSUME NEW t \in Thread, CallDestructor(t) PROVE Count'
  <2>1. /\ pc[t] = "scanning" /\ pc' = [pc EXCEPT ![t] = "run"]
        /\ UNCHANGED <<arg, shared, inited>>
    BY <1>1, <1>2, <1>16 DEF CallDestructor, Goto
  <2>2. Counted' = Counted
    BY <1>1, <1>2, NullFacts, <2>1 DEF Counted, Args
  <2> QED
    BY <1>1, <2>1, <2>2 DEF Count
<1>17. ASSUME NEW t \in Thread, DestructorReturns(t) PROVE Count'
  <2>1. Counted' = Counted
    BY <1>1, <1>2, NullFacts, <1>17 DEF Counted, Args, DestructorReturns, InDestructor, Goto, keyVars
  <2> QED
    BY <1>1, <2>1, <1>17 DEF Count, DestructorReturns, InDestructor, Goto, keyVars
<1>18. ASSUME NEW t \in Thread, EndScan(t) PROVE Count'
  <2>1. Counted' = Counted
    BY <1>1, <1>2, NullFacts, <1>18 DEF Counted, Args, EndScan, Goto, keyVars
  <2> QED
    BY <1>1, <2>1, <1>18 DEF Count, EndScan, Goto, keyVars
<1>19. ASSUME NEW t \in Thread, Start(t) PROVE Count'
  <2>1. /\ pc[t] = "gone" /\ pc' = [pc EXCEPT ![t] = "run"]
        /\ UNCHANGED <<arg, shared, inited>>
    BY <1>1, <1>2, <1>19 DEF Start, Goto
  <2>2. Counted' = Counted
    BY <1>1, <1>2, NullFacts, <2>1 DEF Counted, Args
  <2> QED
    BY <1>1, <2>1, <2>2 DEF Count
<1> QED
  BY <1>3, <1>4, <1>5, <1>6, <1>7, <1>8, <1>9, <1>10, <1>11, <1>12, <1>13, <1>14, <1>15, <1>16, <1>17, <1>18, <1>19, NeverFirstOrLast DEF BInv, Next

\* The table has room, and is moved by the thread that scans it only.
LEMMA SizeStep == BInv /\ base /\ [Next]_vars => Size'
<1> SUFFICES ASSUME BInv, base, [Next]_vars PROVE Size'
  OBVIOUS
<1>1. BInv /\ Section /\ Size
  BY DEF BInv
<1>2. /\ pc = [t \in Thread |-> pc[t]] /\ scan \in [Thread -> [at : Nat, last : Nat, lost : Thread \cup {NULL}, entry : Entry]]
      /\ holder \in Thread \cup {NULL}
      /\ table \in [size : Nat, entries : Seq(Entry)] /\ table.size \in Nat /\ table.entries \in Seq(Entry)
      /\ Len(table.entries) \in Nat
  BY DEF BInv, TypeOK
<1>3. CASE UNCHANGED vars
  BY <1>1, <1>2, NullFacts, <1>3 DEF Size, vars
<1>4. ASSUME NEW t \in Thread, Create(t) PROVE Size'
  BY <1>1, <1>2, NullFacts, <1>4
     DEF Size, Create, NestedCall, Calling, InDestructor, Goto
<1>5. ASSUME NEW t \in Thread, InitIncrement(t) PROVE Size'
  BY <1>1, <1>2, NullFacts, <1>5, InitGoesOn DEF Size
<1>6. ASSUME NEW t \in Thread, Add(t) PROVE Size'
  <2>1. holder \in {NULL, t} /\ holder' = holder
    BY <1>6 DEF Add, MayEnter
  <2>2. \A u \in Thread : scan'[u].last = scan[u].last /\ scan'[u].lost \in {scan[u].lost, t}
    BY <1>1, <1>6, AddScan DEF BInv
  <2>3. Len(table'.entries) <= table'.size
    <3>1. CASE dtor[arg[t]] = NULL
      BY <1>1, <1>6, <3>1 DEF Add, Size
    <3>2. CASE dtor[arg[t]] # NULL
      <4> DEFINE e == [key |-> arg[t], f |-> dtor[arg[t]]]
      <4>1. e \in Entry
        BY <1>1, <1>6, <3>2 DEF BInv, Args, TypeOK, Entry, Add
      <4>2. table'.size = Grown /\ table'.entries = Append(table.entries, e)
        BY <1>2, <1>6, <3>2 DEF Add
      <4>3. Len(table'.entries) = Len(table.entries) + 1
        BY <1>2, <4>1, <4>2, AddEntry
      <4>4. Len(table.entries) + 1 <= Grown
        BY <1>1, <1>2, NullFacts DEF Size, Grown, Full
      <4> QED
        BY <4>2, <4>3, <4>4
    <3> QED
      BY <3>1, <3>2
  <2> QED
    BY <1>1, <2>1, <2>2, <2>3 DEF Size
<1>7. ASSUME NEW t \in Thread, Free(t) PROVE Size'
  BY <1>1, <1>2, NullFacts, <1>7
     DEF Size, Free, Calling, Goto
<1>8. ASSUME NEW t \in Thread, Remove(t) PROVE Size'
  <2>1. /\ pc[t] = "remove" /\ pc' = [pc EXCEPT ![t] = "done"]
        /\ UNCHANGED <<holder, scan>>
    BY <1>8 DEF Remove, Goto
  <2>2. table'.size = table.size /\ Len(table'.entries) = Len(table.entries)
    BY <1>2, <1>8, MakeHoles DEF Remove
  <2> QED
    BY <1>1, <1>2, <2>1, <2>2, NullFacts DEF Size
<1>9. ASSUME NEW t \in Thread, DoneDecrement(t) PROVE Size'
  BY <1>1, <1>2, NullFacts, <1>9, DoneGoesOn DEF Size
<1>10. ASSUME NEW t \in Thread, TlsFree(t) PROVE Size'
  BY <1>1, <1>2, NullFacts, <1>10
     DEF Size, TlsFree, Goto
<1>11. ASSUME NEW t \in Thread, Set(t) PROVE Size'
  BY <1>1, <1>2, NullFacts, <1>11
     DEF Size, Set, Calling
<1>12. ASSUME NEW t \in Thread, SetInDestructor(t) PROVE Size'
  BY <1>1, <1>2, NullFacts, <1>12
     DEF Size, SetInDestructor, InDestructor
<1>13. ASSUME NEW t \in Thread, Exit(t) PROVE Size'
  BY <1>1, <1>2, NullFacts, <1>13
     DEF Size, Exit, Calling, Goto, keyVars
<1>14. ASSUME NEW t \in Thread, Return(t) PROVE Size'
  BY <1>1, <1>2, NullFacts, <1>14
     DEF Size, Return, Calling, Goto, keyVars
<1>15. ASSUME NEW t \in Thread, BeginScan(t) PROVE Size'
  <2>1. /\ holder \in {NULL, t} /\ holder' = t
        /\ scan' = [scan EXCEPT ![t] = StartOfTable] /\ table' = table
    BY <1>15 DEF BeginScan, MayEnter
  <2>2. scan'[t].lost = NULL
    BY <1>2, <2>1 DEF StartOfTable, NoScan
  <2>3. \A u \in Thread : t # u => scan'[u].last = 0
    BY <1>1, <1>2, <2>1, NullFacts DEF Size
  <2> QED
    BY <1>1, <2>1, <2>2, <2>3 DEF Size
<1>16. ASSUME NEW t \in Thread, CallDestructor(t) PROVE Size'
  BY <1>1, <1>2, NullFacts, <1>16
     DEF Size, CallDestructor, Goto
<1>17. ASSUME NEW t \in Thread, DestructorReturns(t) PROVE Size'
  BY <1>1, <1>2, NullFacts, <1>17
     DEF Size, DestructorReturns, InDestructor, Goto, keyVars
<1>18. ASSUME NEW t \in Thread, EndScan(t) PROVE Size'
  <2>1. /\ pc[t] = "scanning" /\ holder' = NULL
        /\ scan' = [scan EXCEPT ![t] = NoScan] /\ table' = table
    BY <1>18 DEF EndScan
  <2>2. holder = t
    BY <1>1, <2>1 DEF Section
  <2>3. \A u \in Thread : scan'[u].last = 0
    BY <1>1, <1>2, <2>1, <2>2 DEF Size, NoScan
  <2> QED
    BY <1>1, <2>1, <2>3 DEF Size
<1>19. ASSUME NEW t \in Thread, Start(t) PROVE Size'
  BY <1>1, <1>2, NullFacts, <1>19
     DEF Size, Start, Goto
<1> QED
  BY <1>3, <1>4, <1>5, <1>6, <1>7, <1>8, <1>9, <1>10, <1>11, <1>12, <1>13, <1>14, <1>15, <1>16, <1>17, <1>18, <1>19, NeverFirstOrLast DEF BInv, Next

\* The table has an entry for each destructor, and no other.
LEMMA TableStep == BInv /\ base /\ [Next]_vars => Table'
<1> SUFFICES ASSUME BInv, base, [Next]_vars PROVE Table'
  OBVIOUS
<1>1. Args /\ Table
  BY DEF BInv
<1>2. /\ pc = [t \in Thread |-> pc[t]] /\ arg = [t \in Thread |-> arg[t]]
      /\ dtor \in [Key -> Destructor \cup {NULL}] /\ alloc \subseteq Key /\ shared \subseteq alloc
      /\ table \in [size : Nat, entries : Seq(Entry)] /\ table.entries \in Seq(Entry)
  BY DEF BInv, TypeOK
<1>3. \A k : Tabled(k) => k \in alloc
  BY <1>1, <1>2 DEF Args, Tabled
<1>4. ASSUME table' = table, dtor' = dtor, \A k : Tabled(k)' <=> Tabled(k) PROVE Table'
  BY <1>1, <1>4 DEF Table
<1>5. CASE UNCHANGED vars
  BY <1>4, <1>5 DEF Tabled, vars
<1>6. ASSUME NEW t \in Thread, Create(t) PROVE Table'
  <2>1. PICK k \in Key \ alloc, f \in Destructor \cup {NULL} :
           dtor' = [dtor EXCEPT ![k] = f] /\ arg' = [arg EXCEPT ![t] = k]
    BY <1>6 DEF Create
  <2>2. pc[t] = "run" /\ pc' = [pc EXCEPT ![t] = "init"] /\ shared' = shared /\ table' = table
    BY <1>6 DEF Create, Calling, NestedCall, Goto
  <2>3. \A g : Tabled(g)' <=> Tabled(g)
    BY <1>1, <1>2, <2>1, <2>2 DEF Tabled, Args
  <2>4. \A g \in Key : Tabled(g) => dtor'[g] = dtor[g]
    BY <1>2, <1>3, <2>1
  <2>5. \A i \in DOMAIN table.entries : table.entries[i] # Hole => table.entries[i].key \in Key
    BY <1>1, <1>2, <1>3 DEF Table
  <2> QED
    BY <1>1, <2>2, <2>3, <2>4, <2>5 DEF Table
<1>7. ASSUME NEW t \in Thread, InitIncrement(t) PROVE Table'
  <2>1. /\ pc[t] = "init" /\ pc' = [pc EXCEPT ![t] = "add"]
        /\ UNCHANGED <<table, dtor, shared, arg>>
    BY <1>7, InitGoesOn
  <2>2. \A k : Tabled(k)' <=> Tabled(k)
    BY <1>2, <2>1 DEF Tabled
  <2> QED
    BY <1>4, <2>1, <2>2
<1>8. ASSUME NEW t \in Thread, Add(t) PROVE Table'
  <2>1. PICK k \in Key : k = arg[t]
    BY <1>1, <1>2, <1>8 DEF Add, Args
  <2>2. /\ pc[t] = "add" /\ pc' = [pc EXCEPT ![t] = "run"] /\ dtor' = dtor
        /\ shared' = shared \cup {k} /\ arg' = [arg EXCEPT ![t] = NULL]
    BY <1>8, <2>1 DEF Add, Goto
  <2>3. k \in Key /\ ~Tabled(k) /\ k # 0
    BY <1>1, <1>2, <2>1, <2>2, NullFacts DEF Tabled, Args
  <2>4. Tabled(k)' /\ \A g : g # k => (Tabled(g)' <=> Tabled(g))
    <3>1. \A u \in Thread : u # t => pc'[u] = pc[u] /\ arg'[u] = arg[u]
      BY <1>2, <2>2
    <3>2. pc[t] # "remove" /\ pc'[t] # "remove"
      BY <1>2, <2>2
    <3> QED
      BY <2>2, <3>1, <3>2 DEF Tabled
  <2>5. CASE dtor[k] = NULL
    <3>1. table' = table
      BY <1>8, <2>1, <2>5 DEF Add
    <3> QED
      BY <1>1, <2>2, <2>3, <2>4, <2>5, <3>1 DEF Table
  <2>6. CASE dtor[k] # NULL
    <3> DEFINE e == [key |-> k, f |-> dtor[k]]
    <3>1. e \in Entry
      BY <1>2, <2>3, <2>6 DEF Entry
    <3>2. table'.entries = Append(table.entries, e)
      BY <1>2, <1>8, <2>1, <2>6 DEF Add
    <3> DEFINE n == Len(table.entries)
    <3>3. /\ n \in Nat /\ DOMAIN table.entries = 1 .. n /\ DOMAIN table'.entries = 1 .. n + 1
          /\ table'.entries[n + 1] = e
          /\ \A i \in 1 .. n : table'.entries[i] = table.entries[i]
      BY <1>2, <3>1, <3>2, AddEntry
    <3>4. \A i \in 1 .. n : table.entries[i].key # k
      BY <1>1, <2>3, <3>3 DEF Table, Hole
    <3> HIDE DEF n, e
    <3>5. e.key = k /\ e.f = dtor[k]
      BY DEF e
    <3>6. \A i \in 1 .. n + 1 : i \in 1 .. n \/ i = n + 1
      BY <3>3
    <3>7. n + 1 \in 1 .. n + 1 /\ \A i \in 1 .. n : i \in 1 .. n + 1
      BY <3>3
    <3>8. \A i \in 1 .. n + 1 : table'.entries[i] # Hole =>
             /\ Tabled(table.entries[i].key)'
             /\ table'.entries[i].f # NULL /\ table'.entries[i].f = dtor[table'.entries[i].key]
      BY <1>1, <2>3, <2>4, <2>6, <3>3, <3>4, <3>5, <3>6 DEF Table
    <3>9. \A i, j \in 1 .. n + 1 :
             table'.entries[i] # Hole /\ table'.entries[i].key = table'.entries[j].key => i = j
      <4>1. \A i, j \in 1 .. n :
               table.entries[i] # Hole /\ table.entries[i].key = table.entries[j].key => i = j
        BY <1>1, <3>3 DEF Table
      <4> SUFFICES ASSUME NEW i \in 1 .. n + 1, NEW j \in 1 .. n + 1, table'.entries[i] # Hole,
                          table'.entries[i].key = table'.entries[j].key
                   PROVE  i = j
        OBVIOUS
      <4>2. CASE i \in 1 .. n /\ j \in 1 .. n
        BY <3>3, <4>1, <4>2
      <4>3. CASE i = n + 1 \/ j = n + 1
        BY <3>3, <3>4, <3>5, <3>6, <4>3
      <4> QED
        BY <3>6, <4>2, <4>3
    <3>10. \A g \in Key : Tabled(g)' /\ dtor[g] # NULL => \E i \in 1 .. n + 1 : table'.entries[i].key = g
      <4>1. \A g \in Key : Tabled(g) /\ dtor[g] # NULL => \E i \in 1 .. n : table.entries[i].key = g
        BY <1>1, <3>3 DEF Table
      <4> QED
        BY <2>4, <3>3, <3>5, <3>7, <4>1
    <3> QED
      BY <2>2, <3>3, <3>8, <3>9, <3>10 DEF Table
  <2> QED
    BY <2>5, <2>6
<1>9. ASSUME NEW t \in Thread, Free(t) PROVE Table'
  <2>1. PICK k \in shared : arg' = [arg EXCEPT ![t] = k] /\ shared' = shared \ {k}
    BY <1>9 DEF Free
  <2>2. pc[t] = "run" /\ pc' = [pc EXCEPT ![t] = "remove"] /\ table' = table /\ dtor' = dtor
    BY <1>9 DEF Free, Calling, Goto
  <2>3. \A g : Tabled(g)' <=> Tabled(g)
    <3>1. Tabled(k) /\ Tabled(k)'
      BY <1>2, <2>1, <2>2 DEF Tabled
    <3>2. ASSUME NEW g, g # k PROVE Tabled(g)' <=> Tabled(g)
      BY <1>2, <2>1, <2>2, <3>2 DEF Tabled
    <3> QED
      BY <3>1, <3>2
  <2> QED
    BY <1>4, <2>2, <2>3
<1>10. ASSUME NEW t \in Thread, Remove(t) PROVE Table'
  <2>1. PICK k \in Key : k = arg[t]
    BY <1>1, <1>2, <1>10 DEF Remove, Args
  <2>2. pc[t] = "remove" /\ pc' = [pc EXCEPT ![t] = "done"] /\ UNCHANGED <<shared, arg, dtor>>
    BY <1>10 DEF Remove, Goto, keyVars
  <2>3. k \in Key /\ Tabled(k) /\ k # 0
    BY <1>1, <1>2, <2>1, <2>2, NullFacts DEF Tabled, Args
  <2>4. ~Tabled(k)' /\ \A g : g # k => (Tabled(g)' <=> Tabled(g))
    BY <1>1, <1>2, <2>1, <2>2, NullFacts DEF Tabled, Args
  <2>5. table'.entries = [i \in DOMAIN table.entries |->
                            IF i \in FirstEntryOf(k) THEN Hole ELSE table.entries[i]]
    BY <1>2, <1>10, <2>1 DEF Remove
  <2>6. DOMAIN table'.entries = DOMAIN table.entries
    BY <2>5
  <2>7. \A i \in DOMAIN table.entries : i \in FirstEntryOf(k) <=> table.entries[i].key = k
    <3>1. \A i, j \in DOMAIN table.entries :
             table.entries[i].key = k /\ table.entries[j].key = k => i = j
      BY <1>1, <2>3 DEF Table, Hole
    <3>2. DOMAIN table.entries = 1 .. Len(table.entries) /\ Len(table.entries) \in Nat
      BY <1>2
    <3>3. \A i \in 1 .. Len(table.entries) : \A j \in 1 .. i - 1 : j \in 1 .. Len(table.entries) /\ j # i
      BY <3>2
    <3> QED
      BY <3>1, <3>2, <3>3 DEF FirstEntryOf
  <2>8. \A i \in DOMAIN table.entries :
           table'.entries[i] = IF table.entries[i].key = k THEN Hole ELSE table.entries[i]
    BY <2>5, <2>7
  <2>9. Hole.key = 0
    BY DEF Hole
  <2>10. \A i \in DOMAIN table.entries : table.entries[i] # Hole => table.entries[i].key # 0
    BY <1>1, <1>2, <1>3, NullFacts DEF Table
  <2>11. \A i \in DOMAIN table.entries : table'.entries[i] # Hole =>
            /\ table'.entries[i] = table.entries[i] /\ table.entries[i].key # k
            /\ table.entries[i] # Hole
    BY <2>8
  <2>12. \A i \in DOMAIN table.entries : table'.entries[i] # Hole =>
            /\ Tabled(table.entries[i].key)'
            /\ table'.entries[i].f # NULL /\ table'.entries[i].f = dtor[table'.entries[i].key]
    BY <1>1, <2>4, <2>11 DEF Table
  <2>13. \A i, j \in DOMAIN table.entries :
            table'.entries[i] # Hole /\ table'.entries[i].key = table'.entries[j].key => i = j
    <3>1. \A i, j \in DOMAIN table.entries :
             table.entries[i] # Hole /\ table.entries[i].key = table.entries[j].key => i = j
      BY <1>1 DEF Table
    <3> QED
      BY <2>8, <2>9, <2>10, <2>11, <3>1
  <2>14. \A g \in Key : Tabled(g)' /\ dtor[g] # NULL =>
            \E i \in DOMAIN table.entries : table'.entries[i].key = g
    <3>1. \A g \in Key : Tabled(g) /\ dtor[g] # NULL =>
             \E i \in DOMAIN table.entries : table.entries[i].key = g
      BY <1>1 DEF Table
    <3> QED
      BY <2>4, <2>8, <3>1
  <2> QED
    BY <2>2, <2>6, <2>12, <2>13, <2>14 DEF Table
<1>11. ASSUME NEW t \in Thread, DoneDecrement(t) PROVE Table'
  <2>1. /\ pc[t] = "done" /\ pc' = [pc EXCEPT ![t] = "free"]
        /\ UNCHANGED <<table, dtor, shared, arg>>
    BY <1>11, DoneGoesOn
  <2>2. \A k : Tabled(k)' <=> Tabled(k)
    BY <1>2, <2>1 DEF Tabled
  <2> QED
    BY <1>4, <2>1, <2>2
<1>12. ASSUME NEW t \in Thread, TlsFree(t) PROVE Table'
  <2>1. /\ pc[t] = "free" /\ pc' = [pc EXCEPT ![t] = "run"] /\ shared' = shared /\ table' = table
        /\ arg' = [arg EXCEPT ![t] = NULL] /\ dtor' = [dtor EXCEPT ![arg[t]] = NULL]
    BY <1>12 DEF TlsFree, Goto
  <2>2. \A g : Tabled(g)' <=> Tabled(g)
    BY <1>1, <1>2, <2>1 DEF Tabled, Args
  <2>3. ~Tabled(arg[t])
    BY <1>1, <2>1 DEF Tabled, Args
  <2>4. \A g \in Key : Tabled(g) => dtor'[g] = dtor[g]
    BY <1>2, <2>1, <2>3
  <2>5. \A i \in DOMAIN table.entries : table.entries[i] # Hole => table.entries[i].key \in Key
    BY <1>1, <1>2, <1>3 DEF Table
  <2> QED
    BY <1>1, <2>1, <2>2, <2>4, <2>5 DEF Table
<1>13. ASSUME NEW t \in Thread, Set(t) PROVE Table'
  <2>1. UNCHANGED <<table, dtor, shared, pc, arg>>
    BY <1>13 DEF Set, Calling
  <2>2. \A k : Tabled(k)' <=> Tabled(k)
    BY <1>2, <2>1 DEF Tabled
  <2> QED
    BY <1>4, <2>1, <2>2
<1>14. ASSUME NEW t \in Thread, SetInDestructor(t) PROVE Table'
  <2>1. UNCHANGED <<table, dtor, shared, pc, arg>>
    BY <1>14 DEF SetInDestructor, InDestructor
  <2>2. \A k : Tabled(k)' <=> Tabled(k)
    BY <1>2, <2>1 DEF Tabled
  <2> QED
    BY <1>4, <2>1, <2>2
<1>15. ASSUME NEW t \in Thread, Exit(t) PROVE Table'
  <2>1. /\ pc[t] = "run" /\ pc' = [pc EXCEPT ![t] = "scan"]
        /\ UNCHANGED <<table, dtor, shared, arg>>
    BY <1>15 DEF Exit, Calling, Goto, keyVars
  <2>2. \A k : Tabled(k)' <=> Tabled(k)
    BY <1>2, <2>1 DEF Tabled
  <2> QED
    BY <1>4, <2>1, <2>2
<1>16. ASSUME NEW t \in Thread, Return(t) PROVE Table'
  <2>1. /\ pc[t] = "run" /\ pc' = [pc EXCEPT ![t] = IF inited >= 2 THEN "scan" ELSE "gone"]
        /\ UNCHANGED <<table, dtor, shared, arg>>
    BY <1>16 DEF Return, Calling, Goto, keyVars
  <2>2. \A k : Tabled(k)' <=> Tabled(k)
    BY <1>2, <2>1 DEF Tabled
  <2> QED
    BY <1>4, <2>1, <2>2
<1>17. ASSUME NEW t \in Thread, BeginScan(t) PROVE Table'
  <2>1. /\ pc[t] = "scan" /\ pc' = [pc EXCEPT ![t] = "scanning"]
        /\ UNCHANGED <<table, dtor, shared, arg>>
    BY <1>17 DEF BeginScan, MayEnter, Goto, keyVars
  <2>2. \A k : Tabled(k)' <=> Tabled(k)
    BY <1>2, <2>1 DEF Tabled
  <2> QED
    BY <1>4, <2>1, <2>2
<1>18. ASSUME NEW t \in Thread, CallDestructor(t) PROVE Table'
  <2>1. /\ pc[t] = "scanning" /\ pc' = [pc EXCEPT ![t] = "run"]
        /\ UNCHANGED <<table, dtor, shared, arg>>
    BY <1>18 DEF CallDestructor, Goto
  <2>2. \A k : Tabled(k)' <=> Tabled(k)
    BY <1>2, <2>1 DEF Tabled
  <2> QED
    BY <1>4, <2>1, <2>2
<1>19. ASSUME NEW t \in Thread, DestructorReturns(t) PROVE Table'
  <2>1. /\ pc[t] = "run" /\ pc' = [pc EXCEPT ![t] = "scanning"]
        /\ UNCHANGED <<table, dtor, shared, arg>>
    BY <1>19 DEF DestructorReturns, InDestructor, Goto, keyVars
  <2>2. \A k : Tabled(k)' <=> Tabled(k)
    BY <1>2, <2>1 DEF Tabled
  <2> QED
    BY <1>4, <2>1, <2>2
<1>20. ASSUME NEW t \in Thread, EndScan(t) PROVE Table'
  <2>1. /\ pc[t] = "scanning" /\ pc' = [pc EXCEPT ![t] = "gone"]
        /\ UNCHANGED <<table, dtor, shared, arg>>
    BY <1>20 DEF EndScan, Goto, keyVars
  <2>2. \A k : Tabled(k)' <=> Tabled(k)
    BY <1>2, <2>1 DEF Tabled
  <2> QED
    BY <1>4, <2>1, <2>2
<1>21. ASSUME NEW t \in Thread, Start(t) PROVE Table'
  <2>1. /\ pc[t] = "gone" /\ pc' = [pc EXCEPT ![t] = "run"]
        /\ UNCHANGED <<table, dtor, shared, arg>>
    BY <1>21 DEF Start, Goto
  <2>2. \A k : Tabled(k)' <=> Tabled(k)
    BY <1>2, <2>1 DEF Tabled
  <2> QED
    BY <1>4, <2>1, <2>2
<1> QED
  BY <1>5, <1>6, <1>7, <1>8, <1>9, <1>10, <1>11, <1>12, <1>13, <1>14, <1>15, <1>16, <1>17, <1>18, <1>19, <1>20, <1>21, NeverFirstOrLast DEF BInv, Next

\* A destructor is that of a key in use.
LEMMA OwnDestructorStep == BInv /\ base /\ [Next]_vars => OwnDestructor'
<1> SUFFICES ASSUME BInv, base, [Next]_vars PROVE OwnDestructor'
  OBVIOUS
<1>1. Section /\ Args /\ Table /\ Values /\ Scans /\ OwnDestructor /\ ExitRunsDestructors
  BY DEF BInv
<1>2. /\ pc = [t \in Thread |-> pc[t]] /\ arg = [t \in Thread |-> arg[t]]
      /\ dtor \in [Key -> Destructor \cup {NULL}] /\ value \in [Thread -> SUBSET alloc]
      /\ holder \in Thread \cup {NULL} /\ alloc \subseteq Key /\ shared \subseteq alloc
      /\ scan \in [Thread -> [at : Nat, last : Nat, lost : Thread \cup {NULL}, entry : Entry]]
      /\ table.entries \in Seq(Entry)
  BY DEF BInv, TypeOK
<1>3. inited >= 2
  BY Counting DEF BInv
<1>4. CASE UNCHANGED vars
  BY <1>1, <1>4 DEF OwnDestructor, InDestructor, vars
<1>5. ASSUME NEW t \in Thread, Create(t) PROVE OwnDestructor'
  <2>1. PICK k \in Key \ alloc, f \in Destructor \cup {NULL} :
           /\ dtor' = [dtor EXCEPT ![k] = f] /\ arg' = [arg EXCEPT ![t] = k]
           /\ pc[t] = "run" /\ pc' = [pc EXCEPT ![t] = "init"]
           /\ UNCHANGED <<holder, table, shared, value, scan>>
    BY <1>5 DEF Create, Calling, NestedCall, Goto
  <2> QED
    BY <1>1, <1>2, <2>1, NullFacts DEF OwnDestructor, InDestructor, Section
<1>6. ASSUME NEW t \in Thread, InitIncrement(t) PROVE OwnDestructor'
  <2>1. /\ pc[t] = "init" /\ pc' = [pc EXCEPT ![t] = "add"]
        /\ UNCHANGED <<holder, table, alloc, shared, dtor, value, arg, scan>>
    BY <1>6, InitGoesOn
  <2> QED
    BY <1>1, <1>2, <2>1, NullFacts DEF OwnDestructor, InDestructor, Section
<1>7. ASSUME NEW t \in Thread, Add(t) PROVE OwnDestructor'
  <2>1. /\ pc[t] = "add" /\ pc' = [pc EXCEPT ![t] = "run"] /\ holder \in {NULL, t}
        /\ arg[t] \in Key \ shared /\ shared' = shared \cup {arg[t]} /\ arg' = [arg EXCEPT ![t] = NULL]
        /\ UNCHANGED <<holder, alloc, dtor, value>>
    BY <1>1, <1>2, <1>7 DEF Add, MayEnter, Goto, Args
  <2>2. \A u \in Thread : scan'[u].entry = scan[u].entry
    BY <1>7, AddScan DEF BInv
  <2> QED
    BY <1>1, <1>2, <2>1, <2>2, NullFacts DEF OwnDestructor, InDestructor, Section
<1>8. ASSUME NEW t \in Thread, Free(t) PROVE OwnDestructor'
  <2>1. PICK k \in shared :
           /\ ~InUse(k, t) /\ shared' = shared \ {k} /\ arg' = [arg EXCEPT ![t] = k]
           /\ pc[t] = "run" /\ pc' = [pc EXCEPT ![t] = "remove"] /\ holder # t
           /\ UNCHANGED <<holder, table, alloc, dtor, value, scan>>
    BY <1>8 DEF Free, Calling, Goto
  <2> QED
    BY <1>1, <1>2, <2>1, NullFacts DEF OwnDestructor, InDestructor, Section, InUse
<1>9. ASSUME NEW t \in Thread, Remove(t) PROVE OwnDestructor'
  <2>1. /\ pc[t] = "remove" /\ pc' = [pc EXCEPT ![t] = "done"] /\ holder = NULL
        /\ UNCHANGED <<holder, alloc, shared, dtor, value, arg, scan>>
    BY <1>1, <1>9 DEF Remove, MayEnter, Goto, keyVars, Section
  <2> QED
    BY <1>1, <1>2, <2>1, NullFacts DEF OwnDestructor, InDestructor, Section
<1>10. ASSUME NEW t \in Thread, DoneDecrement(t) PROVE OwnDestructor'
  <2>1. /\ pc[t] = "done" /\ pc' = [pc EXCEPT ![t] = "free"]
        /\ UNCHANGED <<holder, table, alloc, shared, dtor, value, arg, scan>>
    BY <1>10, DoneGoesOn
  <2> QED
    BY <1>1, <1>2, <2>1, NullFacts DEF OwnDestructor, InDestructor, Section
<1>11. ASSUME NEW t \in Thread, TlsFree(t) PROVE OwnDestructor'
  <2>1. /\ pc[t] = "free" /\ pc' = [pc EXCEPT ![t] = "run"] /\ arg[t] \in Key \ shared
        /\ value' = [u \in Thread |-> value[u] \ {arg[t]}]
        /\ dtor' = [dtor EXCEPT ![arg[t]] = NULL] /\ arg' = [arg EXCEPT ![t] = NULL]
        /\ UNCHANGED <<holder, table, shared, scan>>
    BY <1>1, <1>2, <1>11 DEF TlsFree, Goto, Args
  <2> QED
    BY <1>1, <1>2, <2>1, NullFacts DEF OwnDestructor, InDestructor, Section
<1>12. ASSUME NEW t \in Thread, Set(t) PROVE OwnDestructor'
  <2>1. PICK k \in shared :
           /\ value' = [value EXCEPT ![t] = value[t] \cup {k}] /\ pc[t] = "run" /\ holder # t
           /\ UNCHANGED <<pc, holder, table, alloc, shared, dtor, arg, scan>>
    BY <1>12 DEF Set, Calling
  <2> QED
    BY <1>1, <1>2, <2>1, NullFacts DEF OwnDestructor, InDestructor, Section
<1>13. ASSUME NEW t \in Thread, SetInDestructor(t) PROVE OwnDestructor'
  <2>1. PICK k \in shared :
           /\ value' = [value EXCEPT ![t] = value[t] \cup {k}] /\ pc[t] = "run" /\ holder = t
           /\ UNCHANGED <<pc, holder, table, alloc, shared, dtor, arg, scan>>
    BY <1>13 DEF SetInDestructor, InDestructor
  <2> QED
    BY <1>1, <1>2, <2>1, NullFacts DEF OwnDestructor, InDestructor, Section
<1>14. ASSUME NEW t \in Thread, Exit(t) PROVE OwnDestructor'
  <2>1. /\ pc[t] = "run" /\ holder # t /\ pc' = [pc EXCEPT ![t] = "scan"]
        /\ UNCHANGED <<holder, table, alloc, shared, dtor, value, arg, scan>>
    BY <1>14 DEF Exit, Calling, Goto, keyVars
  <2> QED
    BY <1>1, <1>2, <2>1, NullFacts DEF OwnDestructor, InDestructor, Section
<1>15. ASSUME NEW t \in Thread, Return(t) PROVE OwnDestructor'
  <2>1. /\ pc[t] = "run" /\ holder # t /\ pc' = [pc EXCEPT ![t] = "scan"]
        /\ UNCHANGED <<holder, table, alloc, shared, dtor, value, arg, scan>>
    BY <1>15, <1>3 DEF Return, Calling, Goto, keyVars
  <2> QED
    BY <1>1, <1>2, <2>1, NullFacts DEF OwnDestructor, InDestructor, Section
<1>16. ASSUME NEW t \in Thread, BeginScan(t) PROVE OwnDestructor'
  <2>1. /\ pc[t] = "scan" /\ pc' = [pc EXCEPT ![t] = "scanning"] /\ holder = NULL /\ holder' = t
        /\ scan' = [scan EXCEPT ![t] = StartOfTable]
        /\ UNCHANGED <<table, alloc, shared, dtor, value, arg>>
    BY <1>1, <1>16 DEF BeginScan, MayEnter, Goto, keyVars, Section
  <2> QED
    BY <1>1, <1>2, <2>1, NullFacts DEF OwnDestructor, InDestructor, Section
<1>17. ASSUME NEW t \in Thread, CallDestructor(t) PROVE OwnDestructor'
  <2>1. PICK i \in Due(t) :
           /\ \A j \in Due(t) : i <= j
           /\ scan' = [scan EXCEPT ![t].at = i, ![t].entry = table.entries[i]]
           /\ value' = [value EXCEPT ![t] = value[t] \ {table.entries[i].key}]
    BY <1>17 DEF CallDestructor
  <2>2. /\ pc[t] = "scanning" /\ pc' = [pc EXCEPT ![t] = "run"] /\ holder = t
        /\ UNCHANGED <<holder, table, alloc, shared, dtor, arg>>
    BY <1>1, <1>17 DEF CallDestructor, Goto, Section
  <2>3. /\ table.entries[i].key \in value[t] /\ i \in DOMAIN table.entries
        /\ table.entries[i].f # NULL
    BY <2>1 DEF Due, Ahead
  <2>4. table.entries[i].key \in shared
    BY <1>1, <2>2, <2>3 DEF Values, Args
  <2>5. table.entries[i].f = dtor[table.entries[i].key]
    BY <1>1, <2>3 DEF Table, Hole
  <2>6. scan'[t].entry = table.entries[i]
    BY <1>2, <2>1
  <2> QED
    BY <1>1, <1>2, <2>2, <2>4, <2>5, <2>6, NullFacts DEF OwnDestructor, InDestructor, Section
<1>18. ASSUME NEW t \in Thread, DestructorReturns(t) PROVE OwnDestructor'
  <2>1. /\ pc[t] = "run" /\ holder = t /\ pc' = [pc EXCEPT ![t] = "scanning"]
        /\ UNCHANGED <<holder, table, alloc, shared, dtor, value, arg, scan>>
    BY <1>18 DEF DestructorReturns, InDestructor, Goto, keyVars
  <2> QED
    BY <1>1, <1>2, <2>1, NullFacts DEF OwnDestructor, InDestructor, Section
<1>19. ASSUME NEW t \in Thread, EndScan(t) PROVE OwnDestructor'
  <2>1. /\ pc[t] = "scanning" /\ pc' = [pc EXCEPT ![t] = "gone"] /\ holder' = NULL /\ Due(t) = {}
        /\ scan' = [scan EXCEPT ![t] = NoScan]
        /\ UNCHANGED <<table, alloc, shared, dtor, value, arg>>
    BY <1>19 DEF EndScan, Goto, keyVars
  <2> QED
    BY <1>1, <1>2, <2>1, NullFacts DEF OwnDestructor, InDestructor, Section
<1>20. ASSUME NEW t \in Thread, Start(t) PROVE OwnDestructor'
  <2>1. /\ pc[t] = "gone" /\ pc' = [pc EXCEPT ![t] = "run"] /\ value' = [value EXCEPT ![t] = {}]
        /\ UNCHANGED <<holder, table, alloc, shared, dtor, arg, scan>>
    BY <1>20 DEF Start, Goto
  <2> QED
    BY <1>1, <1>2, <2>1, NullFacts DEF OwnDestructor, InDestructor, Section
<1> QED
  BY <1>4, <1>5, <1>6, <1>7, <1>8, <1>9, <1>10, <1>11, <1>12, <1>13, <1>14, <1>15, <1>16, <1>17, <1>18, <1>19, <1>20, NeverFirstOrLast DEF BInv, Next

\* A thread that goes on, but not in tss_free, changes nothing about the values.
LEMMA ValuesOnMove ==
    ASSUME Values, pc = [u \in Thread |-> pc[u]], NEW t \in Thread, NEW label,
           pc[t] \notin {"remove", "done", "free", "gone"}, pc' = [pc EXCEPT ![t] = label],
           UNCHANGED <<shared, value, arg>>
    PROVE  Values'
<1> SUFFICES ASSUME NEW u \in Thread, NEW k \in value[u], k \notin shared
             PROVE  /\ \A v \in Thread : arg[v] = k => pc'[v] \in {"remove", "done", "free"}
                    /\ pc'[u] = "gone" \/ arg[u] = k
  BY DEF Values
<1>1. /\ \A v \in Thread : arg[v] = k => pc[v] \in {"remove", "done", "free"}
      /\ pc[u] = "gone" \/ arg[u] = k
  BY DEF Values
<1>2. \A v \in Thread \ {t} : pc'[v] = pc[v]
  OBVIOUS
<1>3. arg[t] # k
  BY <1>1
<1> QED
  BY <1>1, <1>2, <1>3

\* Values are stored under keys in use.
LEMMA ValuesStep == BInv /\ base /\ [Next]_vars => Values'
<1> SUFFICES ASSUME BInv, base, [Next]_vars PROVE Values'
  OBVIOUS
<1>1. Section /\ Args /\ Table /\ Values /\ Scans /\ OwnDestructor /\ ExitRunsDestructors
  BY DEF BInv
<1>2. /\ pc = [t \in Thread |-> pc[t]] /\ arg = [t \in Thread |-> arg[t]]
      /\ dtor \in [Key -> Destructor \cup {NULL}] /\ value \in [Thread -> SUBSET alloc]
      /\ holder \in Thread \cup {NULL} /\ alloc \subseteq Key /\ shared \subseteq alloc
      /\ scan \in [Thread -> [at : Nat, last : Nat, lost : Thread \cup {NULL}, entry : Entry]]
      /\ table.entries \in Seq(Entry)
  BY DEF BInv, TypeOK
<1>3. inited >= 2
  BY Counting DEF BInv
<1>4. CASE UNCHANGED vars
  BY <1>1, <1>4 DEF Values, vars
<1>5. ASSUME NEW t \in Thread, Create(t) PROVE Values'
  <2>1. PICK k \in Key \ alloc, f \in Destructor \cup {NULL} :
           /\ dtor' = [dtor EXCEPT ![k] = f] /\ arg' = [arg EXCEPT ![t] = k]
           /\ pc[t] = "run" /\ pc' = [pc EXCEPT ![t] = "init"]
           /\ UNCHANGED <<holder, table, shared, value, scan>>
    BY <1>5 DEF Create, Calling, NestedCall, Goto
  <2> SUFFICES ASSUME NEW u \in Thread, NEW g \in value'[u], g \notin shared'
               PROVE  /\ \A v \in Thread : arg'[v] = g => pc'[v] \in {"remove", "done", "free"}
                      /\ pc'[u] = "gone" \/ arg'[u] = g
    BY DEF Values
  <2>2. g \in value[u] /\ g # k /\ g \notin shared /\ arg[t] = NULL /\ g # NULL
    <3>1. g \in value[u] /\ value[u] \subseteq alloc /\ g \notin shared
      BY <1>2, <2>1
    <3>2. arg[t] = NULL
      BY <1>1, <2>1 DEF Args
    <3> QED
      BY <1>2, <3>1, <3>2, NullFacts
  <2>3. arg'[t] = k /\ \A v \in Thread \ {t} : arg'[v] = arg[v] /\ pc'[v] = pc[v]
    BY <1>2, <2>1
  <2>4. /\ \A v \in Thread : arg[v] = g => pc[v] \in {"remove", "done", "free"}
        /\ pc[u] = "gone" \/ arg[u] = g
    BY <1>1, <2>2 DEF Values
  <2> QED
    BY <2>1, <2>2, <2>3, <2>4
<1>6. ASSUME NEW t \in Thread, InitIncrement(t) PROVE Values'
  <2>1. /\ pc[t] = "init" /\ pc' = [pc EXCEPT ![t] = "add"]
        /\ UNCHANGED <<holder, table, alloc, shared, dtor, value, arg, scan>>
    BY <1>6, InitGoesOn
  <2> QED
    BY <1>1, <1>2, <2>1, ValuesOnMove
<1>7. ASSUME NEW t \in Thread, Add(t) PROVE Values'
  <2>1. /\ pc[t] = "add" /\ pc' = [pc EXCEPT ![t] = "run"] /\ holder \in {NULL, t}
        /\ arg[t] \in Key \ shared /\ shared' = shared \cup {arg[t]} /\ arg' = [arg EXCEPT ![t] = NULL]
        /\ UNCHANGED <<holder, alloc, dtor, value>>
    BY <1>1, <1>2, <1>7 DEF Add, MayEnter, Goto, Args
  <2> SUFFICES ASSUME NEW u \in Thread, NEW g \in value'[u], g \notin shared'
               PROVE  /\ \A v \in Thread : arg'[v] = g => pc'[v] \in {"remove", "done", "free"}
                      /\ pc'[u] = "gone" \/ arg'[u] = g
    BY DEF Values
  <2>2. g \in value[u] /\ g # arg[t] /\ g \notin shared /\ g # NULL
    BY <1>2, <2>1, NullFacts
  <2>3. arg'[t] = NULL /\ \A v \in Thread \ {t} : arg'[v] = arg[v] /\ pc'[v] = pc[v]
    BY <1>2, <2>1
  <2>4. /\ \A v \in Thread : arg[v] = g => pc[v] \in {"remove", "done", "free"}
        /\ pc[u] = "gone" \/ arg[u] = g
    BY <1>1, <2>2 DEF Values
  <2> QED
    BY <2>1, <2>2, <2>3, <2>4
<1>8. ASSUME NEW t \in Thread, Free(t) PROVE Values'
  <2>1. PICK k \in shared :
           /\ ~InUse(k, t) /\ shared' = shared \ {k} /\ arg' = [arg EXCEPT ![t] = k]
           /\ pc[t] = "run" /\ pc' = [pc EXCEPT ![t] = "remove"] /\ holder # t
           /\ UNCHANGED <<holder, table, alloc, dtor, value, scan>>
    BY <1>8 DEF Free, Calling, Goto
  <2> SUFFICES ASSUME NEW u \in Thread, NEW g \in value'[u], g \notin shared'
               PROVE  /\ \A v \in Thread : arg'[v] = g => pc'[v] \in {"remove", "done", "free"}
                      /\ pc'[u] = "gone" \/ arg'[u] = g
    BY DEF Values
  <2>2. g \in value[u] /\ g # NULL /\ arg[t] = NULL
    BY <1>1, <1>2, <2>1, NullFacts DEF Args
  <2>3. /\ arg'[t] = k /\ pc'[t] = "remove"
        /\ \A v \in Thread \ {t} : arg'[v] = arg[v] /\ pc'[v] = pc[v]
    BY <1>2, <2>1
  <2>4. CASE g = k
    <3>1. u # t => pc[u] = "gone"
      BY <2>1, <2>2, <2>4 DEF InUse
    <3>2. \A v \in Thread : arg[v] # k
      BY <1>1, <2>1, <2>2, <2>4 DEF Args
    <3> QED
      BY <2>3, <2>4, <3>1, <3>2
  <2>5. CASE g # k
    <3>1. /\ \A v \in Thread : arg[v] = g => pc[v] \in {"remove", "done", "free"}
          /\ pc[u] = "gone" \/ arg[u] = g
      BY <1>1, <2>1, <2>2, <2>5 DEF Values
    <3> QED
      BY <2>1, <2>2, <2>3, <2>5, <3>1
  <2> QED
    BY <2>4, <2>5
<1>9. ASSUME NEW t \in Thread, Remove(t) PROVE Values'
  <2>1. /\ pc[t] = "remove" /\ pc' = [pc EXCEPT ![t] = "done"] /\ holder = NULL
        /\ UNCHANGED <<holder, alloc, shared, dtor, value, arg, scan>>
    BY <1>1, <1>9 DEF Remove, MayEnter, Goto, keyVars, Section
  <2> QED
    BY <1>1, <1>2, <2>1, NullFacts DEF Values, Args
<1>10. ASSUME NEW t \in Thread, DoneDecrement(t) PROVE Values'
  <2>1. /\ pc[t] = "done" /\ pc' = [pc EXCEPT ![t] = "free"]
        /\ UNCHANGED <<holder, table, alloc, shared, dtor, value, arg, scan>>
    BY <1>10, DoneGoesOn
  <2> QED
    BY <1>1, <1>2, <2>1, NullFacts DEF Values, Args
<1>11. ASSUME NEW t \in Thread, TlsFree(t) PROVE Values'
  <2>1. /\ pc[t] = "free" /\ pc' = [pc EXCEPT ![t] = "run"] /\ arg[t] \in Key \ shared
        /\ value' = [u \in Thread |-> value[u] \ {arg[t]}]
        /\ dtor' = [dtor EXCEPT ![arg[t]] = NULL] /\ arg' = [arg EXCEPT ![t] = NULL]
        /\ UNCHANGED <<holder, table, shared, scan>>
    BY <1>1, <1>2, <1>11 DEF TlsFree, Goto, Args
  <2> SUFFICES ASSUME NEW u \in Thread, NEW g \in value'[u], g \notin shared'
               PROVE  /\ \A v \in Thread : arg'[v] = g => pc'[v] \in {"remove", "done", "free"}
                      /\ pc'[u] = "gone" \/ arg'[u] = g
    BY DEF Values
  <2>2. g \in value[u] /\ g # arg[t] /\ g \notin shared /\ g # NULL
    BY <1>2, <2>1, NullFacts
  <2>3. arg'[t] = NULL /\ \A v \in Thread \ {t} : arg'[v] = arg[v] /\ pc'[v] = pc[v]
    BY <1>2, <2>1
  <2>4. /\ \A v \in Thread : arg[v] = g => pc[v] \in {"remove", "done", "free"}
        /\ pc[u] = "gone" \/ arg[u] = g
    BY <1>1, <2>2 DEF Values
  <2> QED
    BY <2>1, <2>2, <2>3, <2>4
<1>12. ASSUME NEW t \in Thread, Set(t) PROVE Values'
  <2>1. PICK k \in shared :
           /\ value' = [value EXCEPT ![t] = value[t] \cup {k}] /\ pc[t] = "run" /\ holder # t
           /\ UNCHANGED <<pc, holder, table, alloc, shared, dtor, arg, scan>>
    BY <1>12 DEF Set, Calling
  <2> QED
    BY <1>1, <1>2, <2>1, NullFacts DEF Values, Args
<1>13. ASSUME NEW t \in Thread, SetInDestructor(t) PROVE Values'
  <2>1. PICK k \in shared :
           /\ value' = [value EXCEPT ![t] = value[t] \cup {k}] /\ pc[t] = "run" /\ holder = t
           /\ UNCHANGED <<pc, holder, table, alloc, shared, dtor, arg, scan>>
    BY <1>13 DEF SetInDestructor, InDestructor
  <2> QED
    BY <1>1, <1>2, <2>1, NullFacts DEF Values, Args
<1>14. ASSUME NEW t \in Thread, Exit(t) PROVE Values'
  <2>1. /\ pc[t] = "run" /\ holder # t /\ pc' = [pc EXCEPT ![t] = "scan"]
        /\ UNCHANGED <<holder, table, alloc, shared, dtor, value, arg, scan>>
    BY <1>14 DEF Exit, Calling, Goto, keyVars
  <2> QED
    BY <1>1, <1>2, <2>1, ValuesOnMove
<1>15. ASSUME NEW t \in Thread, Return(t) PROVE Values'
  <2>1. /\ pc[t] = "run" /\ holder # t /\ pc' = [pc EXCEPT ![t] = "scan"]
        /\ UNCHANGED <<holder, table, alloc, shared, dtor, value, arg, scan>>
    BY <1>15, <1>3 DEF Return, Calling, Goto, keyVars
  <2> QED
    BY <1>1, <1>2, <2>1, ValuesOnMove
<1>16. ASSUME NEW t \in Thread, BeginScan(t) PROVE Values'
  <2>1. /\ pc[t] = "scan" /\ pc' = [pc EXCEPT ![t] = "scanning"] /\ holder = NULL /\ holder' = t
        /\ scan' = [scan EXCEPT ![t] = StartOfTable]
        /\ UNCHANGED <<table, alloc, shared, dtor, value, arg>>
    BY <1>1, <1>16 DEF BeginScan, MayEnter, Goto, keyVars, Section
  <2> QED
    BY <1>1, <1>2, <2>1, ValuesOnMove
<1>17. ASSUME NEW t \in Thread, CallDestructor(t) PROVE Values'
  <2>1. PICK i \in Due(t) :
           /\ \A j \in Due(t) : i <= j
           /\ scan' = [scan EXCEPT ![t].at = i, ![t].entry = table.entries[i]]
           /\ value' = [value EXCEPT ![t] = value[t] \ {table.entries[i].key}]
    BY <1>17 DEF CallDestructor
  <2>2. /\ pc[t] = "scanning" /\ pc' = [pc EXCEPT ![t] = "run"] /\ holder = t
        /\ UNCHANGED <<holder, table, alloc, shared, dtor, arg>>
    BY <1>1, <1>17 DEF CallDestructor, Goto, Section
  <2> QED
    BY <1>1, <1>2, <2>1, <2>2 DEF Values, Args
<1>18. ASSUME NEW t \in Thread, DestructorReturns(t) PROVE Values'
  <2>1. /\ pc[t] = "run" /\ holder = t /\ pc' = [pc EXCEPT ![t] = "scanning"]
        /\ UNCHANGED <<holder, table, alloc, shared, dtor, value, arg, scan>>
    BY <1>18 DEF DestructorReturns, InDestructor, Goto, keyVars
  <2> QED
    BY <1>1, <1>2, <2>1, ValuesOnMove
<1>19. ASSUME NEW t \in Thread, EndScan(t) PROVE Values'
  <2>1. /\ pc[t] = "scanning" /\ pc' = [pc EXCEPT ![t] = "gone"] /\ holder' = NULL /\ Due(t) = {}
        /\ scan' = [scan EXCEPT ![t] = NoScan]
        /\ UNCHANGED <<table, alloc, shared, dtor, value, arg>>
    BY <1>19 DEF EndScan, Goto, keyVars
  <2> QED
    BY <1>1, <1>2, <2>1, ValuesOnMove
<1>20. ASSUME NEW t \in Thread, Start(t) PROVE Values'
  <2>1. /\ pc[t] = "gone" /\ pc' = [pc EXCEPT ![t] = "run"] /\ value' = [value EXCEPT ![t] = {}]
        /\ UNCHANGED <<holder, table, alloc, shared, dtor, arg, scan>>
    BY <1>20 DEF Start, Goto
  <2> QED
    BY <1>1, <1>2, <2>1, NullFacts DEF Values, Args
<1> QED
  BY <1>4, <1>5, <1>6, <1>7, <1>8, <1>9, <1>10, <1>11, <1>12, <1>13, <1>14, <1>15, <1>16, <1>17, <1>18, <1>19, <1>20, NeverFirstOrLast DEF BInv, Next

\* A scan does not pass by a value.
LEMMA ScansStep == BInv /\ base /\ [Next]_vars => Scans'
<1> SUFFICES ASSUME BInv, base, [Next]_vars PROVE Scans'
  OBVIOUS
<1>1. Section /\ Args /\ Table /\ Values /\ Scans /\ OwnDestructor /\ ExitRunsDestructors
  BY DEF BInv
<1>2. /\ pc = [t \in Thread |-> pc[t]] /\ arg = [t \in Thread |-> arg[t]]
      /\ dtor \in [Key -> Destructor \cup {NULL}] /\ value \in [Thread -> SUBSET alloc]
      /\ holder \in Thread \cup {NULL} /\ alloc \subseteq Key /\ shared \subseteq alloc
      /\ late \in [Thread -> SUBSET Key]
      /\ scan \in [Thread -> [at : Nat, last : Nat, lost : Thread \cup {NULL}, entry : Entry]]
      /\ table.entries \in Seq(Entry)
  BY DEF BInv, TypeOK
<1>3. inited >= 2
  BY Counting DEF BInv
<1>4. CASE UNCHANGED vars
  BY <1>1, <1>4 DEF Scans, Ahead, vars
<1>5. ASSUME NEW t \in Thread, Create(t) PROVE Scans'
  <2>1. PICK k \in Key \ alloc, f \in Destructor \cup {NULL} :
           /\ dtor' = [dtor EXCEPT ![k] = f] /\ arg' = [arg EXCEPT ![t] = k]
           /\ pc[t] = "run" /\ pc' = [pc EXCEPT ![t] = "init"]
           /\ UNCHANGED <<holder, table, shared, value, late, scan>>
    BY <1>5 DEF Create, Calling, NestedCall, Goto
  <2> QED
    BY <1>1, <1>2, <2>1, NullFacts DEF Scans, Ahead, Section
<1>6. ASSUME NEW t \in Thread, InitIncrement(t) PROVE Scans'
  <2>1. /\ pc[t] = "init" /\ pc' = [pc EXCEPT ![t] = "add"]
        /\ UNCHANGED <<holder, table, alloc, shared, dtor, value, late, arg, scan>>
    BY <1>6, InitGoesOn
  <2> QED
    BY <1>1, <1>2, <2>1, NullFacts DEF Scans, Ahead, Section
<1>7. ASSUME NEW t \in Thread, Add(t) PROVE Scans'
  <2>1. /\ holder' = holder /\ value' = value /\ late' = late /\ dtor' = dtor
        /\ \A u \in Thread : scan'[u].at = scan[u].at /\ scan'[u].last = scan[u].last
    BY <1>7, AddScan DEF Add, BInv
  <2>2. ASSUME NEW i \in DOMAIN table.entries
        PROVE  i \in DOMAIN table'.entries /\ table'.entries[i] = table.entries[i]
    <3>1. CASE dtor[arg[t]] = NULL
      BY <1>7, <3>1 DEF Add
    <3>2. CASE dtor[arg[t]] # NULL
      <4> DEFINE e == [key |-> arg[t], f |-> dtor[arg[t]]]
      <4>1. e \in Entry
        BY <1>1, <1>2, <1>7, <3>2, NullFacts DEF Args, Add, Entry
      <4>2. table'.entries = Append(table.entries, e)
        BY <1>7, <3>2 DEF Add
      <4>3. Len(table.entries) \in Nat /\ i \in 1 .. Len(table.entries)
        BY <1>2
      <4> QED
        BY <1>2, <4>1, <4>2, <4>3, AddEntry
    <3> QED
      BY <3>1, <3>2
  <2>3. ASSUME NEW u \in Thread, NEW i \in Ahead(u) PROVE i \in Ahead(u)' /\ table'.entries[i] = table.entries[i]
    BY <2>1, <2>2 DEF Ahead
  <2>4. ASSUME holder # NULL, NEW k \in value[holder] \ late[holder], dtor[k] # NULL
        PROVE  \E i \in Ahead(holder)' : table'.entries[i].key = k
    <3>1. PICK i \in Ahead(holder) : table.entries[i].key = k
      BY <1>1, <2>4 DEF Scans
    <3>2. i \in Ahead(holder)' /\ table'.entries[i] = table.entries[i]
      BY <1>2, <2>1, <2>3, <2>4, <3>1
    <3> QED
      BY <3>1, <3>2
  <2> QED
    BY <2>1, <2>4 DEF Scans
<1>8. ASSUME NEW t \in Thread, Free(t) PROVE Scans'
  <2>1. PICK k \in shared :
           /\ ~InUse(k, t) /\ shared' = shared \ {k} /\ arg' = [arg EXCEPT ![t] = k]
           /\ pc[t] = "run" /\ pc' = [pc EXCEPT ![t] = "remove"] /\ holder # t
           /\ UNCHANGED <<holder, table, alloc, dtor, value, late, scan>>
    BY <1>8 DEF Free, Calling, Goto
  <2> QED
    BY <1>1, <2>1 DEF Scans, Ahead
<1>9. ASSUME NEW t \in Thread, Remove(t) PROVE Scans'
  <2>1. /\ pc[t] = "remove" /\ pc' = [pc EXCEPT ![t] = "done"] /\ holder = NULL
        /\ UNCHANGED <<holder, alloc, shared, dtor, value, late, arg, scan>>
    BY <1>1, <1>9 DEF Remove, MayEnter, Goto, keyVars, Section
  <2> QED
    BY <2>1 DEF Scans
<1>10. ASSUME NEW t \in Thread, DoneDecrement(t) PROVE Scans'
  <2>1. /\ pc[t] = "done" /\ pc' = [pc EXCEPT ![t] = "free"]
        /\ UNCHANGED <<holder, table, alloc, shared, dtor, value, late, arg, scan>>
    BY <1>10, DoneGoesOn
  <2> QED
    BY <1>1, <1>2, <2>1, NullFacts DEF Scans, Ahead, Section
<1>11. ASSUME NEW t \in Thread, TlsFree(t) PROVE Scans'
  <2>1. /\ pc[t] = "free" /\ pc' = [pc EXCEPT ![t] = "run"] /\ arg[t] \in Key \ shared
        /\ value' = [u \in Thread |-> value[u] \ {arg[t]}]
        /\ dtor' = [dtor EXCEPT ![arg[t]] = NULL] /\ arg' = [arg EXCEPT ![t] = NULL]
        /\ UNCHANGED <<holder, table, shared, late, scan>>
    BY <1>1, <1>2, <1>11 DEF TlsFree, Goto, Args
  <2> QED
    BY <1>1, <1>2, <2>1, NullFacts DEF Scans, Ahead, Section
<1>12. ASSUME NEW t \in Thread, Set(t) PROVE Scans'
  <2>1. PICK k \in shared :
           /\ value' = [value EXCEPT ![t] = value[t] \cup {k}] /\ pc[t] = "run" /\ holder # t
           /\ UNCHANGED <<pc, holder, table, alloc, shared, dtor, late, arg, scan>>
    BY <1>12 DEF Set, Calling
  <2> QED
    BY <1>1, <1>2, <2>1, NullFacts DEF Scans, Ahead, Section
<1>13. ASSUME NEW t \in Thread, SetInDestructor(t) PROVE Scans'
  <2>1. PICK k \in shared :
           /\ late' = IF dtor[k] # NULL /\ (\A i \in Ahead(t) : table.entries[i].key # k)
                      THEN [late EXCEPT ![t] = late[t] \cup {k}] ELSE late
           /\ value' = [value EXCEPT ![t] = value[t] \cup {k}] /\ pc[t] = "run" /\ holder = t
           /\ UNCHANGED <<pc, holder, table, alloc, shared, dtor, arg, scan>>
    BY <1>13 DEF SetInDestructor, InDestructor
  <2>2. Ahead(t)' = Ahead(t)
    BY <2>1 DEF Ahead
  <2>3. ASSUME NEW g \in value'[t] \ late'[t], dtor[g] # NULL
        PROVE  \E i \in Ahead(t) : table.entries[i].key = g
    <3>1. CASE g = k
      BY <1>2, <2>1, <2>3, <3>1
    <3>2. CASE g # k
      <4>1. g \in value[t] \ late[t]
        BY <1>2, <2>1, <2>3, <3>2
      <4> QED
        BY <1>1, <2>1, <2>3, <4>1, NullFacts DEF Scans
    <3> QED
      BY <3>1, <3>2
  <2> QED
    BY <2>1, <2>2, <2>3 DEF Scans
<1>14. ASSUME NEW t \in Thread, Exit(t) PROVE Scans'
  <2>1. /\ pc[t] = "run" /\ holder # t /\ pc' = [pc EXCEPT ![t] = "scan"]
        /\ UNCHANGED <<holder, table, alloc, shared, dtor, value, late, arg, scan>>
    BY <1>14 DEF Exit, Calling, Goto, keyVars
  <2> QED
    BY <1>1, <1>2, <2>1, NullFacts DEF Scans, Ahead, Section
<1>15. ASSUME NEW t \in Thread, Return(t) PROVE Scans'
  <2>1. /\ pc[t] = "run" /\ holder # t /\ pc' = [pc EXCEPT ![t] = "scan"]
        /\ UNCHANGED <<holder, table, alloc, shared, dtor, value, late, arg, scan>>
    BY <1>15, <1>3 DEF Return, Calling, Goto, keyVars
  <2> QED
    BY <1>1, <1>2, <2>1, NullFacts DEF Scans, Ahead, Section
<1>16. ASSUME NEW t \in Thread, BeginScan(t) PROVE Scans'
  <2>1. /\ pc[t] = "scan" /\ pc' = [pc EXCEPT ![t] = "scanning"] /\ holder = NULL /\ holder' = t
        /\ scan' = [scan EXCEPT ![t] = StartOfTable]
        /\ UNCHANGED <<table, alloc, shared, dtor, value, late, arg>>
    BY <1>1, <1>16 DEF BeginScan, MayEnter, Goto, keyVars, Section
  <2>2. ASSUME NEW k \in value[t] \ late[t], dtor[k] # NULL
        PROVE  \E i \in Ahead(t)' : table.entries[i].key = k
    <3>1. arg[t] # k /\ k \in Key
      BY <1>1, <1>2, <2>1, NullFacts DEF Args
    <3>2. k \in shared
      BY <1>1, <2>1, <2>2, <3>1 DEF Values
    <3>3. PICK i \in DOMAIN table.entries : table.entries[i].key = k
      BY <1>1, <2>2, <3>1, <3>2 DEF Table, Tabled
    <3>4. scan'[t].at = 0 /\ scan'[t].last = Len(table.entries)
      BY <1>2, <2>1 DEF StartOfTable, NoScan
    <3>5. i \in 0 + 1 .. Len(table.entries)
      BY <1>2, <3>3
    <3> QED
      BY <2>1, <3>3, <3>4, <3>5 DEF Ahead
  <2> QED
    BY <2>1, <2>2 DEF Scans
<1>17. ASSUME NEW t \in Thread, CallDestructor(t) PROVE Scans'
  <2>1. PICK i \in Due(t) :
           /\ \A j \in Due(t) : i <= j
           /\ scan' = [scan EXCEPT ![t].at = i, ![t].entry = table.entries[i]]
           /\ value' = [value EXCEPT ![t] = value[t] \ {table.entries[i].key}]
    BY <1>17 DEF CallDestructor
  <2>2. /\ pc[t] = "scanning" /\ pc' = [pc EXCEPT ![t] = "run"] /\ holder = t
        /\ UNCHANGED <<holder, table, alloc, shared, dtor, late, arg>>
    BY <1>1, <1>17 DEF CallDestructor, Goto, Section
  <2>3. i \in Ahead(t) /\ table.entries[i].key \in value[t]
    BY <2>1 DEF Due
  <2>4. /\ scan'[t].at = i /\ scan'[t].last = scan[t].last
        /\ value'[t] = value[t] \ {table.entries[i].key}
    BY <1>2, <2>1
  <2>5. ASSUME NEW k \in value'[t] \ late[t], dtor[k] # NULL
        PROVE  \E j \in Ahead(t)' : table.entries[j].key = k
    <3>1. k \in value[t] \ late[t] /\ k # table.entries[i].key /\ k # 0
      BY <1>2, <2>4, <2>5, NullFacts
    <3>2. PICK j \in Ahead(t) : table.entries[j].key = k
      BY <1>1, <2>2, <2>5, <3>1, NullFacts DEF Scans
    <3>3. table.entries[j].f # NULL
      BY <1>1, <3>1, <3>2 DEF Table, Hole, Ahead
    <3>4. j \in Due(t)
      BY <3>1, <3>2, <3>3 DEF Due
    <3>5. i <= j /\ i # j
      BY <2>1, <3>1, <3>2, <3>4
    <3>6. j \in Ahead(t)'
      <4>1. /\ j \in scan[t].at + 1 .. scan[t].last /\ j \in DOMAIN table.entries
            /\ i \in scan[t].at + 1 .. scan[t].last
        BY <2>3, <3>2 DEF Ahead
      <4>2. scan[t].at \in Nat /\ scan[t].last \in Nat
        BY <1>2
      <4>3. j \in i + 1 .. scan[t].last
        BY <3>5, <4>1, <4>2
      <4> QED
        BY <2>2, <2>4, <4>1, <4>3 DEF Ahead
    <3> QED
      BY <3>2, <3>6
  <2> QED
    BY <2>2, <2>5 DEF Scans
<1>18. ASSUME NEW t \in Thread, DestructorReturns(t) PROVE Scans'
  <2>1. /\ pc[t] = "run" /\ holder = t /\ pc' = [pc EXCEPT ![t] = "scanning"]
        /\ UNCHANGED <<holder, table, alloc, shared, dtor, value, late, arg, scan>>
    BY <1>18 DEF DestructorReturns, InDestructor, Goto, keyVars
  <2> QED
    BY <1>1, <1>2, <2>1, NullFacts DEF Scans, Ahead, Section
<1>19. ASSUME NEW t \in Thread, EndScan(t) PROVE Scans'
  <2>1. /\ pc[t] = "scanning" /\ pc' = [pc EXCEPT ![t] = "gone"] /\ holder' = NULL /\ Due(t) = {}
        /\ scan' = [scan EXCEPT ![t] = NoScan]
        /\ UNCHANGED <<table, alloc, shared, dtor, value, late, arg>>
    BY <1>19 DEF EndScan, Goto, keyVars
  <2> QED
    BY <1>1, <1>2, <2>1, NullFacts DEF Scans, Ahead, Section
<1>20. ASSUME NEW t \in Thread, Start(t) PROVE Scans'
  <2>1. /\ pc[t] = "gone" /\ pc' = [pc EXCEPT ![t] = "run"] /\ value' = [value EXCEPT ![t] = {}]
        /\ late' = [late EXCEPT ![t] = {}]
        /\ UNCHANGED <<holder, table, alloc, shared, dtor, arg, scan>>
    BY <1>20 DEF Start, Goto
  <2> QED
    BY <1>1, <1>2, <2>1, NullFacts DEF Scans, Ahead, Section
<1> QED
  BY <1>4, <1>5, <1>6, <1>7, <1>8, <1>9, <1>10, <1>11, <1>12, <1>13, <1>14, <1>15, <1>16, <1>17, <1>18, <1>19, <1>20, NeverFirstOrLast DEF BInv, Next

\* No thread is gone that has a value with a destructor.
LEMMA ExitStep == BInv /\ base /\ [Next]_vars => ExitRunsDestructors'
<1> SUFFICES ASSUME BInv, base, [Next]_vars PROVE ExitRunsDestructors'
  OBVIOUS
<1>1. Section /\ Args /\ Table /\ Values /\ Scans /\ OwnDestructor /\ ExitRunsDestructors
  BY DEF BInv
<1>2. /\ pc = [t \in Thread |-> pc[t]] /\ arg = [t \in Thread |-> arg[t]]
      /\ dtor \in [Key -> Destructor \cup {NULL}] /\ value \in [Thread -> SUBSET alloc]
      /\ holder \in Thread \cup {NULL} /\ alloc \subseteq Key /\ shared \subseteq alloc
      /\ late \in [Thread -> SUBSET Key]
      /\ scan \in [Thread -> [at : Nat, last : Nat, lost : Thread \cup {NULL}, entry : Entry]]
      /\ table.entries \in Seq(Entry)
  BY DEF BInv, TypeOK
<1>3. inited >= 2
  BY Counting DEF BInv
<1>4. CASE UNCHANGED vars
  BY <1>1, <1>4 DEF ExitRunsDestructors, vars
<1>5. ASSUME NEW t \in Thread, Create(t) PROVE ExitRunsDestructors'
  <2>1. PICK k \in Key \ alloc, f \in Destructor \cup {NULL} :
           /\ dtor' = [dtor EXCEPT ![k] = f] /\ arg' = [arg EXCEPT ![t] = k]
           /\ pc[t] = "run" /\ pc' = [pc EXCEPT ![t] = "init"]
           /\ UNCHANGED <<holder, table, shared, value, late, scan>>
    BY <1>5 DEF Create, Calling, NestedCall, Goto
  <2> QED
    BY <1>1, <1>2, <2>1, NullFacts DEF ExitRunsDestructors, Values, Args
<1>6. ASSUME NEW t \in Thread, InitIncrement(t) PROVE ExitRunsDestructors'
  <2>1. /\ pc[t] = "init" /\ pc' = [pc EXCEPT ![t] = "add"]
        /\ UNCHANGED <<holder, table, alloc, shared, dtor, value, late, arg, scan>>
    BY <1>6, InitGoesOn
  <2> QED
    BY <1>1, <1>2, <2>1, NullFacts DEF ExitRunsDestructors, Values, Args
<1>7. ASSUME NEW t \in Thread, Add(t) PROVE ExitRunsDestructors'
  <2>1. /\ pc[t] = "add" /\ pc' = [pc EXCEPT ![t] = "run"] /\ holder \in {NULL, t}
        /\ arg[t] \in Key \ shared /\ shared' = shared \cup {arg[t]} /\ arg' = [arg EXCEPT ![t] = NULL]
        /\ UNCHANGED <<holder, alloc, dtor, value, late>>
    BY <1>1, <1>2, <1>7 DEF Add, MayEnter, Goto, Args
  <2>2. \A u \in Thread : pc'[u] = "gone" => pc[u] = "gone" /\ arg[t] \notin value[u]
    <3>1. \A u \in Thread : pc'[u] = "gone" => pc[u] = "gone"
      BY <1>2, <2>1
    <3>2. \A u \in Thread : arg[t] \notin value[u]
      BY <1>1, <2>1 DEF Values
    <3> QED
      BY <3>1, <3>2
  <2> QED
    BY <1>1, <2>1, <2>2 DEF ExitRunsDestructors
<1>8. ASSUME NEW t \in Thread, Free(t) PROVE ExitRunsDestructors'
  <2>1. PICK k \in shared :
           /\ ~InUse(k, t) /\ shared' = shared \ {k} /\ arg' = [arg EXCEPT ![t] = k]
           /\ pc[t] = "run" /\ pc' = [pc EXCEPT ![t] = "remove"] /\ holder # t
           /\ UNCHANGED <<holder, table, alloc, dtor, value, late, scan>>
    BY <1>8 DEF Free, Calling, Goto
  <2> QED
    BY <1>1, <1>2, <2>1, NullFacts DEF ExitRunsDestructors, Values, Args
<1>9. ASSUME NEW t \in Thread, Remove(t) PROVE ExitRunsDestructors'
  <2>1. /\ pc[t] = "remove" /\ pc' = [pc EXCEPT ![t] = "done"] /\ holder = NULL
        /\ UNCHANGED <<holder, alloc, shared, dtor, value, late, arg, scan>>
    BY <1>1, <1>9 DEF Remove, MayEnter, Goto, keyVars, Section
  <2> QED
    BY <1>1, <1>2, <2>1, NullFacts DEF ExitRunsDestructors, Values, Args
<1>10. ASSUME NEW t \in Thread, DoneDecrement(t) PROVE ExitRunsDestructors'
  <2>1. /\ pc[t] = "done" /\ pc' = [pc EXCEPT ![t] = "free"]
        /\ UNCHANGED <<holder, table, alloc, shared, dtor, value, late, arg, scan>>
    BY <1>10, DoneGoesOn
  <2> QED
    BY <1>1, <1>2, <2>1, NullFacts DEF ExitRunsDestructors, Values, Args
<1>11. ASSUME NEW t \in Thread, TlsFree(t) PROVE ExitRunsDestructors'
  <2>1. /\ pc[t] = "free" /\ pc' = [pc EXCEPT ![t] = "run"] /\ arg[t] \in Key \ shared
        /\ value' = [u \in Thread |-> value[u] \ {arg[t]}]
        /\ dtor' = [dtor EXCEPT ![arg[t]] = NULL] /\ arg' = [arg EXCEPT ![t] = NULL]
        /\ UNCHANGED <<holder, table, shared, late, scan>>
    BY <1>1, <1>2, <1>11 DEF TlsFree, Goto, Args
  <2> QED
    BY <1>1, <1>2, <2>1, NullFacts DEF ExitRunsDestructors, Values, Args
<1>12. ASSUME NEW t \in Thread, Set(t) PROVE ExitRunsDestructors'
  <2>1. PICK k \in shared :
           /\ value' = [value EXCEPT ![t] = value[t] \cup {k}] /\ pc[t] = "run" /\ holder # t
           /\ UNCHANGED <<pc, holder, table, alloc, shared, dtor, late, arg, scan>>
    BY <1>12 DEF Set, Calling
  <2> QED
    BY <1>1, <1>2, <2>1, NullFacts DEF ExitRunsDestructors, Values, Args
<1>13. ASSUME NEW t \in Thread, SetInDestructor(t) PROVE ExitRunsDestructors'
  <2>1. PICK k \in shared :
           /\ late' = IF dtor[k] # NULL /\ (\A i \in Ahead(t) : table.entries[i].key # k)
                      THEN [late EXCEPT ![t] = late[t] \cup {k}] ELSE late
           /\ value' = [value EXCEPT ![t] = value[t] \cup {k}] /\ pc[t] = "run" /\ holder = t
           /\ UNCHANGED <<pc, holder, table, alloc, shared, dtor, arg, scan>>
    BY <1>13 DEF SetInDestructor, InDestructor
  <2> QED
    BY <1>1, <1>2, <2>1, NullFacts DEF ExitRunsDestructors, Values, Args
<1>14. ASSUME NEW t \in Thread, Exit(t) PROVE ExitRunsDestructors'
  <2>1. /\ pc[t] = "run" /\ holder # t /\ pc' = [pc EXCEPT ![t] = "scan"]
        /\ UNCHANGED <<holder, table, alloc, shared, dtor, value, late, arg, scan>>
    BY <1>14 DEF Exit, Calling, Goto, keyVars
  <2> QED
    BY <1>1, <1>2, <2>1, NullFacts DEF ExitRunsDestructors, Values, Args
<1>15. ASSUME NEW t \in Thread, Return(t) PROVE ExitRunsDestructors'
  <2>1. /\ pc[t] = "run" /\ holder # t /\ pc' = [pc EXCEPT ![t] = "scan"]
        /\ UNCHANGED <<holder, table, alloc, shared, dtor, value, late, arg, scan>>
    BY <1>15, <1>3 DEF Return, Calling, Goto, keyVars
  <2> QED
    BY <1>1, <1>2, <2>1, NullFacts DEF ExitRunsDestructors, Values, Args
<1>16. ASSUME NEW t \in Thread, BeginScan(t) PROVE ExitRunsDestructors'
  <2>1. /\ pc[t] = "scan" /\ pc' = [pc EXCEPT ![t] = "scanning"] /\ holder = NULL /\ holder' = t
        /\ scan' = [scan EXCEPT ![t] = StartOfTable]
        /\ UNCHANGED <<table, alloc, shared, dtor, value, late, arg>>
    BY <1>1, <1>16 DEF BeginScan, MayEnter, Goto, keyVars, Section
  <2> QED
    BY <1>1, <1>2, <2>1, NullFacts DEF ExitRunsDestructors, Values, Args
<1>17. ASSUME NEW t \in Thread, CallDestructor(t) PROVE ExitRunsDestructors'
  <2>1. PICK i \in Due(t) :
           /\ \A j \in Due(t) : i <= j
           /\ scan' = [scan EXCEPT ![t].at = i, ![t].entry = table.entries[i]]
           /\ value' = [value EXCEPT ![t] = value[t] \ {table.entries[i].key}]
    BY <1>17 DEF CallDestructor
  <2>2. /\ pc[t] = "scanning" /\ pc' = [pc EXCEPT ![t] = "run"] /\ holder = t
        /\ UNCHANGED <<holder, table, alloc, shared, dtor, late, arg>>
    BY <1>1, <1>17 DEF CallDestructor, Goto, Section
  <2> QED
    BY <1>1, <1>2, <2>1, <2>2 DEF ExitRunsDestructors
<1>18. ASSUME NEW t \in Thread, DestructorReturns(t) PROVE ExitRunsDestructors'
  <2>1. /\ pc[t] = "run" /\ holder = t /\ pc' = [pc EXCEPT ![t] = "scanning"]
        /\ UNCHANGED <<holder, table, alloc, shared, dtor, value, late, arg, scan>>
    BY <1>18 DEF DestructorReturns, InDestructor, Goto, keyVars
  <2> QED
    BY <1>1, <1>2, <2>1, NullFacts DEF ExitRunsDestructors, Values, Args
<1>19. ASSUME NEW t \in Thread, EndScan(t) PROVE ExitRunsDestructors'
  <2>1. /\ pc[t] = "scanning" /\ pc' = [pc EXCEPT ![t] = "gone"] /\ holder' = NULL /\ Due(t) = {}
        /\ scan' = [scan EXCEPT ![t] = NoScan]
        /\ UNCHANGED <<table, alloc, shared, dtor, value, late, arg>>
    BY <1>19 DEF EndScan, Goto, keyVars
  <2>2. holder = t
    BY <1>1, <2>1 DEF Section
  <2>3. ASSUME NEW k \in (value[t] \cap shared) \ late[t] PROVE dtor[k] = NULL
    <3>1. SUFFICES ASSUME dtor[k] # NULL PROVE FALSE
      OBVIOUS
    <3>2. PICK i \in Ahead(t) : table.entries[i].key = k
      BY <1>1, <2>2, <3>1, NullFacts DEF Scans
    <3>3. k # 0
      BY <1>2, NullFacts
    <3>4. table.entries[i].f # NULL
      BY <1>1, <3>2, <3>3 DEF Table, Hole, Ahead
    <3> QED
      BY <2>1, <3>2, <3>4 DEF Due
  <2> QED
    BY <1>1, <1>2, <2>1, <2>3 DEF ExitRunsDestructors
<1>20. ASSUME NEW t \in Thread, Start(t) PROVE ExitRunsDestructors'
  <2>1. /\ pc[t] = "gone" /\ pc' = [pc EXCEPT ![t] = "run"] /\ value' = [value EXCEPT ![t] = {}]
        /\ late' = [late EXCEPT ![t] = {}]
        /\ UNCHANGED <<holder, table, alloc, shared, dtor, arg, scan>>
    BY <1>20 DEF Start, Goto
  <2> QED
    BY <1>1, <1>2, <2>1, NullFacts DEF ExitRunsDestructors, Values, Args
<1> QED
  BY <1>4, <1>5, <1>6, <1>7, <1>8, <1>9, <1>10, <1>11, <1>12, <1>13, <1>14, <1>15, <1>16, <1>17, <1>18, <1>19, <1>20, NeverFirstOrLast DEF BInv, Next

\* A program that has its own reference keeps it, and the steps keep the invariant.
LEMMA IInvStep == IInv /\ [Next]_vars => IInv'
<1> SUFFICES ASSUME IInv, [Next]_vars, base' PROVE BInv'
  BY DEF IInv
<1>1. base' = base
  <2>1. CASE UNCHANGED vars
    BY <2>1 DEF vars
  <2>2. CASE Next
    BY <2>2 DEF Next, Create, InitIncrement, InitSection, InitDone, Undo, Add, Free, Remove,
                DoneDecrement, Delete, DoneDeleted, TlsFree, Set, SetInDestructor, Exit, Return,
                BeginScan, CallDestructor, DestructorReturns, EndScan, Start, keyVars
  <2> QED
    BY <2>1, <2>2
<1>2. BInv /\ base
  BY <1>1 DEF IInv
<1>3. TypeOK' /\ Steps' /\ Section' /\ Args' /\ Count'
  BY <1>2, TypeStep, StepsStep, SectionStep, ArgsStep, CountStep
<1>4. Table' /\ Size' /\ Values' /\ Scans'
  BY <1>2, TableStep, SizeStep, ValuesStep, ScansStep
<1>5. OwnDestructor' /\ ExitRunsDestructors'
  BY <1>2, OwnDestructorStep, ExitStep
<1> QED
  BY <1>3, <1>4, <1>5 DEF BInv

THEOREM Invariance == Spec => []IInv
<1>1. Init => IInv
  BY IInvInit
<1>2. IInv /\ [Next]_vars => IInv'
  BY IInvStep
<1> QED
  BY <1>1, <1>2, PTL DEF Spec

\* Every variable keeps its type: the count in particular stays a natural number.
THEOREM TypeCorrect == Spec => [](base => TypeOK)
<1>1. IInv => (base => TypeOK)
  BY DEF IInv, BInv
<1> QED
  BY <1>1, Invariance, PTL

\* Nobody uses the CRITICAL_SECTION before it is initialised or after it is deleted.
THEOREM SectionReadyTheorem == Spec => [](base => SectionReady)
<1>1. IInv => (base => SectionReady)
  BY DEF IInv, BInv, Section, SectionReady
<1> QED
  BY <1>1, Invariance, PTL

\* The assertions on the count hold: it never falls below 2.
THEOREM InitedAssertedTheorem == Spec => [](base => InitedAsserted)
<1>1. IInv => (base => InitedAsserted)
  <2> SUFFICES ASSUME IInv, base PROVE InitedAsserted
    OBVIOUS
  <2>1. inited \in Nat /\ inited >= 2
    BY Counting DEF IInv, BInv
  <2>2. inited # 0 /\ inited # 1
    BY <2>1
  <2> QED
    BY <2>2 DEF InitedAsserted
<1> QED
  BY <1>1, Invariance, PTL

\* With nobody inside tss_init or tss_done, the count is that of the keys, the program's
\* own reference and the one for being initialised.
THEOREM CountMatchesKeysTheorem == Spec => []CountMatchesKeys
<1>1. IInv => CountMatchesKeys
  <2> SUFFICES ASSUME IInv, base,
                      \A t \in Thread : pc[t] \in {"run", "init", "scan", "scanning", "gone"}
               PROVE  inited = Cardinality(shared) + 2
    BY DEF CountMatchesKeys
  <2>1. Count
    BY DEF IInv, BInv
  <2>2. Counted = shared
    BY DEF Counted
  <2> QED
    BY <2>1, <2>2 DEF Count
<1> QED
  BY <1>1, Invariance, PTL

\* The table has each key's destructor once, and none of a key that Windows may give
\* out again.
THEOREM TableMatchesKeysTheorem == Spec => [](base => TableMatchesKeys)
<1>1. IInv => (base => TableMatchesKeys)
  <2> SUFFICES ASSUME IInv, base PROVE TableMatchesKeys
    OBVIOUS
  <2> DEFINE Entries(k) == {i \in DOMAIN table.entries :
                               table.entries[i].key = k /\ table.entries[i].f # NULL}
  <2>1. TypeOK /\ Args /\ Table /\ shared \subseteq alloc /\ alloc \subseteq Key
    BY DEF IInv, BInv, TypeOK
  <2>2. ASSUME NEW k \in Key, NEW i \in Entries(k)
        PROVE  Tabled(k) /\ table.entries[i].f = dtor[k] /\ dtor[k] # NULL
    <3>1. table.entries[i] # Hole
      BY <2>2 DEF Hole
    <3> QED
      BY <2>1, <2>2, <3>1 DEF Table
  <2>3. ASSUME NEW k \in Key, NEW i \in Entries(k), NEW j \in Entries(k) PROVE i = j
    <3>1. table.entries[i] # Hole
      BY <2>3 DEF Hole
    <3> QED
      BY <2>1, <2>3, <3>1 DEF Table
  <2>4. ASSUME NEW k \in shared, dtor[k] = NULL PROVE Cardinality(Entries(k)) = 0
    <3>1. Entries(k) = {}
      BY <2>1, <2>2, <2>4
    <3> QED
      BY <3>1, FS_EmptySet
  <2>5. ASSUME NEW k \in shared, dtor[k] # NULL PROVE Cardinality(Entries(k)) = 1
    <3>1. k \in Key /\ Tabled(k) /\ k # 0
      BY <2>1, NullFacts DEF Tabled
    <3>2. PICK i \in DOMAIN table.entries : table.entries[i].key = k
      BY <2>1, <2>5, <3>1 DEF Table
    <3>3. table.entries[i] # Hole
      BY <3>1, <3>2 DEF Hole
    <3>4. i \in Entries(k)
      BY <2>1, <3>2, <3>3 DEF Table
    <3>5. Entries(k) = {i}
      BY <2>3, <3>1, <3>4
    <3> QED
      BY <3>5, FS_Singleton
  <2>6. ASSUME NEW k \in Key, NEW i \in Entries(k) PROVE k \in alloc /\ table.entries[i].f = dtor[k]
    BY <2>1, <2>2, <2>6, NullFacts DEF Tabled, Args
  <2> QED
    BY <2>4, <2>5, <2>6 DEF TableMatchesKeys
<1> QED
  BY <1>1, Invariance, PTL

\* The table is never written beyond its size, and nobody but the scan's own thread, in a
\* destructor, moves it under a scan.
THEOREM TableStaysTheorem == Spec => [](base => TableStays)
<1>1. IInv => (base => TableStays)
  BY NullFacts DEF IInv, BInv, Section, Size, TableStays, InDestructor
<1> QED
  BY <1>1, Invariance, PTL

\* A destructor that runs is that of the key whose value it gets.
THEOREM OwnDestructorTheorem == Spec => [](base => OwnDestructor)
<1>1. IInv => (base => OwnDestructor)
  BY DEF IInv, BInv
<1> QED
  BY <1>1, Invariance, PTL

\* No thread is gone with a value whose destructor was not called, but for those that its
\* destructors set when the scan was past their entries.
THEOREM ExitRunsDestructorsTheorem == Spec => [](base => ExitRunsDestructors)
<1>1. IInv => (base => ExitRunsDestructors)
  BY DEF IInv, BInv
<1> QED
  BY <1>1, Invariance, PTL
=============================================================================

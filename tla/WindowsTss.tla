------------------------------ MODULE WindowsTss ------------------------------
(***************************************************************************)
(* Thread specific storage on Windows: the values are Windows', but the    *)
(* destructors are emulated by a global table of (key, destructor), which  *)
(* an exiting thread scans.  The table and its CRITICAL_SECTION exist only *)
(* while keys do: `inited' counts the keys, plus one while initialised,    *)
(* and mulle_thread_tss_init and _done set up and tear down by it.         *)
(* Each Interlocked operation, each entry into the section with what is    *)
(* done inside, and each destructor call is a step of its own.             *)
(***************************************************************************)
EXTENDS Naturals, Sequences, FiniteSets

CONSTANTS Thread,
          Key,          \* what TlsAlloc may return
          Destructor,   \* the destructor functions
          NULL,
          FirstSize,    \* the size of a new table, 4 in the code
          MaxEntries,   \* bound: no key is created once the table has so many
          Base,         \* may the program have called mulle_thread_tss_init first?
          Calls         \* what the program calls

ASSUME WindowsTssAssumption ==
    /\ NULL \notin Thread \cup Destructor \cup Nat
    /\ Key \subseteq Nat \ {0} /\ FirstSize \in Nat \ {0} /\ MaxEntries \in Nat
    /\ Base \subseteq BOOLEAN
    /\ Calls \subseteq {"create", "free", "set", "exit", "return", "return unready",
                       "exit unready", "create in destructor", "set in destructor"}

VARIABLES base,     \* has the program called mulle_thread_tss_init first?
          inited,   \* global.inited
          ready,    \* is global.lock an initialised section?
          holder,   \* the thread inside it for a scan, or NULL
          table,    \* global.table; of size 0 if NULL
          alloc,    \* the keys Windows has given out
          shared,   \* those of them that the program uses
          dtor,     \* the destructor each key was created with, or NULL
          value,    \* the keys under which a thread has stored a value
          late,     \* history: those that a destructor set when the scan was past them
          pc, arg,  \* the next step of t's call, and its key
          scan      \* t's way through the table: `at' of `last', the entry run, and the
                    \* thread that moved or freed the table that it goes through, or NULL

vars == <<base, inited, ready, holder, table, alloc, shared, dtor, value, late, pc, arg, scan>>
keyVars == <<base, alloc, shared, dtor, value, late, arg>>

Label == {"run",        \* in the program, or in a destructor
          "init", "setup", "ready", "undo", "add",       \* tss_create
          "remove", "done", "delete", "deleted", "free", \* tss_free
          "scan", "scanning", "gone"}                    \* exit

Entry == [key : Key \cup {0}, f : Destructor \cup {NULL}]
Hole == [key |-> 0, f |-> NULL]
NoTable == [size |-> 0, entries |-> <<>>]
NoScan == [at |-> 0, last |-> 0, lost |-> NULL, entry |-> Hole]
StartOfTable == [NoScan EXCEPT !.last = Len(table.entries)]

TypeOK == /\ base \in BOOLEAN /\ inited \in Nat /\ ready \in BOOLEAN
          /\ holder \in Thread \cup {NULL}
          /\ table \in [size : Nat, entries : Seq(Entry)]
          /\ alloc \subseteq Key /\ shared \subseteq alloc
          /\ dtor \in [Key -> Destructor \cup {NULL}]
          /\ value \in [Thread -> SUBSET alloc] /\ late \in [Thread -> SUBSET Key]
          /\ pc \in [Thread -> Label]
          /\ arg \in [Thread -> Key \cup {NULL}]
          /\ scan \in [Thread -> [at : Nat, last : Nat, lost : Thread \cup {NULL}, entry : Entry]]

Init == /\ base \in Base
        /\ inited = (IF base THEN 2 ELSE 0)
        /\ ready = base
        /\ holder = NULL
        /\ table = NoTable
        /\ alloc = {} /\ shared = {}
        /\ dtor = [k \in Key |-> NULL]
        /\ value = [t \in Thread |-> {}] /\ late = [t \in Thread |-> {}]
        /\ pc = [t \in Thread |-> "run"]
        /\ arg = [t \in Thread |-> NULL]
        /\ scan = [t \in Thread |-> NoScan]

Goto(t, label) == pc' = [pc EXCEPT ![t] = label]

\* A destructor called from t's scan has not returned, though it may be in a call.
InDestructor(t) == holder = t /\ pc[t] # "scanning"

\* The section may be entered again by the thread inside.  What happens to a thread
\* that uses it uninitialised is undefined: it goes no further here.
MayEnter(t) == ready /\ holder \in {NULL, t}

\* The program's thread t may make the call c.
Calling(t, c) == pc[t] = "run" /\ holder # t /\ c \in Calls

-----------------------------------------------------------------------------
(* mulle_thread_tss_create *)

\* A destructor may create a key.
NestedCall(t) == InDestructor(t) /\ pc[t] = "run" /\ "create in destructor" \in Calls

\* TlsAlloc gives out a key under which no thread has a value; when it has none, the
\* call fails and changes nothing.
Create(t) ==
    /\ Calling(t, "create") \/ NestedCall(t)
    /\ Len(table.entries) < MaxEntries
    /\ \E k \in Key \ alloc, f \in Destructor \cup {NULL} :
          /\ alloc' = alloc \cup {k}
          /\ dtor' = [dtor EXCEPT ![k] = f]
          /\ arg' = [arg EXCEPT ![t] = k]
    /\ Goto(t, "init")
    /\ UNCHANGED <<base, inited, ready, holder, table, shared, value, late, scan>>

\* Mutant: the increment is lost.
InitIncrementLost(t) ==
    /\ pc[t] = "init"
    /\ Goto(t, CASE inited = 0 -> "setup" [] inited = 1 -> "undo" [] OTHER -> "add")
    /\ UNCHANGED <<inited, ready, holder, table, keyVars, scan>>

\* mulle_thread_tss_init, which each key is created with.
InitIncrement(t) ==
    /\ pc[t] = "init"
    /\ inited' = inited + 1
    /\ Goto(t, CASE inited' = 1 -> "setup" [] inited' = 2 -> "undo" [] OTHER -> "add")
    /\ UNCHANGED <<ready, holder, table, keyVars, scan>>

InitSection(t) ==
    /\ pc[t] = "setup"
    /\ ready' = TRUE
    /\ Goto(t, "ready")
    /\ UNCHANGED <<inited, holder, table, keyVars, scan>>

InitDone(t) ==
    /\ pc[t] = "ready"
    /\ inited' = inited + 1
    /\ Goto(t, "add")
    /\ UNCHANGED <<ready, holder, table, keyVars, scan>>

\* Mutant: a competing initialiser does not wait.
UndoAndGo(t) ==
    /\ pc[t] = "undo"
    /\ inited' = inited - 1
    /\ Goto(t, "add")
    /\ UNCHANGED <<ready, holder, table, keyVars, scan>>

Undo(t) ==
    /\ pc[t] = "undo"
    /\ inited' = inited - 1
    /\ Goto(t, "init")
    /\ UNCHANGED <<ready, holder, table, keyVars, scan>>

Full == table.size > 0 /\ Len(table.entries) = table.size
Grown == IF table.size = 0 THEN FirstSize ELSE IF Full THEN 2 * table.size ELSE table.size

\* t moves or frees the table that a scan goes through.
Lost(t) == [u \in Thread |-> IF scan[u].last = 0 THEN scan[u] ELSE [scan[u] EXCEPT !.lost = t]]

\* Add the destructor, if any, inside the section.  A full table is grown by realloc,
\* which may find the room where the table is, or move it.
Add(t) ==
    /\ pc[t] = "add" /\ MayEnter(t)
    /\ IF dtor[arg[t]] = NULL THEN UNCHANGED <<table, scan>>
       ELSE /\ table' = [size |-> Grown,
                         entries |-> Append(table.entries, [key |-> arg[t], f |-> dtor[arg[t]]])]
            /\ scan' = scan \/ (Full /\ scan' = Lost(t))
    /\ shared' = shared \cup {arg[t]}
    /\ arg' = [arg EXCEPT ![t] = NULL]
    /\ Goto(t, "run")
    /\ UNCHANGED <<base, inited, ready, holder, alloc, dtor, value, late>>

-----------------------------------------------------------------------------
(* mulle_thread_tss_free *)

InUse(k, t) == \E u \in Thread \ {t} :
                  \/ k \in value[u] /\ pc[u] # "gone"
                  \/ InDestructor(u) /\ scan[u].entry.key = k

\* Mutant: the key is given back before its destructor is removed.
FreeKeyFirst(t) ==
    /\ Calling(t, "free")
    /\ \E k \in shared : /\ ~InUse(k, t)
                         /\ arg' = [arg EXCEPT ![t] = k]
                         /\ shared' = shared \ {k}
                         /\ alloc' = alloc \ {k}
                         /\ value' = [u \in Thread |-> value[u] \ {k}]
    /\ Goto(t, "remove")
    /\ UNCHANGED <<base, inited, ready, holder, table, dtor, late, scan>>

\* "Be sure that you do not free a key, when it is still in use by other threads".
Free(t) ==
    /\ Calling(t, "free")
    /\ \E k \in shared : /\ ~InUse(k, t)
                         /\ arg' = [arg EXCEPT ![t] = k]
                         /\ shared' = shared \ {k}
    /\ Goto(t, "remove")
    /\ UNCHANGED <<base, inited, ready, holder, table, alloc, dtor, value, late, scan>>

FirstEntryOf(k) == {i \in DOMAIN table.entries :
                       /\ table.entries[i].key = k
                       /\ \A j \in 1 .. i - 1 : table.entries[j].key # k}

\* Mutant: the entry is dropped off the end of the table, wherever it is.
RemoveLast(t) ==
    /\ pc[t] = "remove" /\ MayEnter(t)
    /\ table' = IF FirstEntryOf(arg[t]) = {} THEN table
                ELSE [table EXCEPT !.entries = SubSeq(@, 1, Len(@) - 1)]
    /\ Goto(t, "done")
    /\ UNCHANGED <<inited, ready, holder, keyVars, scan>>

\* The entry becomes a hole, which is not used again.
Remove(t) ==
    /\ pc[t] = "remove" /\ MayEnter(t)
    /\ table' = [table EXCEPT !.entries =
                    [i \in DOMAIN @ |-> IF i \in FirstEntryOf(arg[t]) THEN Hole ELSE @[i]]]
    /\ Goto(t, "done")
    /\ UNCHANGED <<inited, ready, holder, keyVars, scan>>

\* mulle_thread_tss_done, which each key is freed with.
DoneDecrement(t) ==
    /\ pc[t] = "done"
    /\ inited' = inited - 1
    /\ Goto(t, IF inited' = 1 THEN "delete" ELSE "free")
    /\ UNCHANGED <<ready, holder, table, keyVars, scan>>

Delete(t) ==
    /\ pc[t] = "delete"
    /\ ready' = FALSE
    /\ table' = NoTable
    /\ scan' = Lost(t)
    /\ Goto(t, "deleted")
    /\ UNCHANGED <<inited, holder, keyVars>>

DoneDeleted(t) ==
    /\ pc[t] = "deleted"
    /\ inited' = inited - 1
    /\ Goto(t, "free")
    /\ UNCHANGED <<ready, holder, table, keyVars, scan>>

TlsFree(t) ==
    /\ pc[t] = "free"
    /\ alloc' = alloc \ {arg[t]}
    /\ value' = [u \in Thread |-> value[u] \ {arg[t]}]
    /\ dtor' = [dtor EXCEPT ![arg[t]] = NULL]
    /\ arg' = [arg EXCEPT ![t] = NULL]
    /\ Goto(t, "run")
    /\ UNCHANGED <<base, inited, ready, holder, table, shared, late, scan>>

-----------------------------------------------------------------------------
(* mulle_thread_tss_set and the end of a thread *)

\* The entries that t's scan has yet to come to.
Ahead(t) == (scan[t].at + 1 .. scan[t].last) \cap DOMAIN table.entries

Set(t) ==
    /\ Calling(t, "set")
    /\ \E k \in shared : value' = [value EXCEPT ![t] = @ \cup {k}]
    /\ UNCHANGED <<base, inited, ready, holder, table, alloc, shared, dtor, late, pc, arg, scan>>

\* A destructor may set values, too, and the scan does not come back for those whose
\* entries it has passed, or that were added since it began.
SetInDestructor(t) ==
    /\ InDestructor(t) /\ pc[t] = "run"
    /\ "set in destructor" \in Calls
    /\ \E k \in shared :
          LET missed == dtor[k] # NULL /\ \A i \in Ahead(t) : table.entries[i].key # k
          IN /\ value' = [value EXCEPT ![t] = @ \cup {k}]
             /\ late' = IF missed THEN [late EXCEPT ![t] = @ \cup {k}] ELSE late
    /\ UNCHANGED <<base, inited, ready, holder, table, alloc, shared, dtor, pc, arg, scan>>

\* mulle_thread_exit goes to the table in any case, initialised or not.  "exit unready"
\* is the call in a program that has not called mulle_thread_tss_init.
Exit(t) ==
    /\ Calling(t, "exit")
    /\ base \/ "exit unready" \in Calls
    /\ Goto(t, "scan")
    /\ UNCHANGED <<inited, ready, holder, table, keyVars, scan>>

\* mulle_thread_return only if it finds it initialised.
Return(t) ==
    /\ Calling(t, "return")
    /\ base \/ "return unready" \in Calls
    /\ Goto(t, IF inited >= 2 THEN "scan" ELSE "gone")
    /\ UNCHANGED <<inited, ready, holder, table, keyVars, scan>>

\* Mutant: the table is scanned without the section.
BeginScanUnlocked(t) ==
    /\ pc[t] = "scan"
    /\ scan' = [scan EXCEPT ![t] = StartOfTable]
    /\ Goto(t, "scanning")
    /\ UNCHANGED <<inited, ready, holder, table, keyVars>>

BeginScan(t) ==
    /\ pc[t] = "scan" /\ MayEnter(t)
    /\ holder' = t
    /\ scan' = [scan EXCEPT ![t] = StartOfTable]
    /\ Goto(t, "scanning")
    /\ UNCHANGED <<inited, ready, table, keyVars>>

\* Mutant: a hole ends the scan.
DueBeforeHole(t) == {i \in Ahead(t) :
                       /\ table.entries[i].key \in value[t]
                       /\ \A j \in 1 .. i : table.entries[j].f # NULL}

\* The entries ahead for which there is a value.
Due(t) == {i \in Ahead(t) :
             /\ table.entries[i].f # NULL
             /\ table.entries[i].key \in value[t]}

\* The value is cleared before the destructor is called with it.  What happens when the
\* scan reads on in a table that is no longer there is undefined: it stops here.
CallDestructor(t) ==
    /\ pc[t] = "scanning" /\ ready /\ scan[t].lost = NULL
    /\ \E i \in Due(t) :
          /\ \A j \in Due(t) : i <= j
          /\ scan' = [scan EXCEPT ![t].at = i, ![t].entry = table.entries[i]]
          /\ value' = [value EXCEPT ![t] = @ \ {table.entries[i].key}]
    /\ Goto(t, "run")
    /\ UNCHANGED <<base, inited, ready, holder, table, alloc, shared, dtor, late, arg>>

DestructorReturns(t) ==
    /\ InDestructor(t) /\ pc[t] = "run"
    /\ Goto(t, "scanning")
    /\ UNCHANGED <<inited, ready, holder, table, keyVars, scan>>

EndScan(t) ==
    /\ pc[t] = "scanning" /\ ready /\ Due(t) = {}
    /\ scan[t].lost # NULL => scan[t].at = scan[t].last
    /\ holder' = NULL
    /\ scan' = [scan EXCEPT ![t] = NoScan]
    /\ Goto(t, "gone")
    /\ UNCHANGED <<inited, ready, table, keyVars>>

\* Another thread, without values, takes the place of one that has ended.
Start(t) ==
    /\ pc[t] = "gone"
    /\ value' = [value EXCEPT ![t] = {}] /\ late' = [late EXCEPT ![t] = {}]
    /\ Goto(t, "run")
    /\ UNCHANGED <<base, inited, ready, holder, table, alloc, shared, dtor, arg, scan>>

Next == \E t \in Thread :
           \/ Create(t) \/ InitIncrement(t) \/ InitSection(t) \/ InitDone(t) \/ Undo(t) \/ Add(t)
           \/ Free(t) \/ Remove(t) \/ DoneDecrement(t) \/ Delete(t) \/ DoneDeleted(t) \/ TlsFree(t)
           \/ Set(t) \/ SetInDestructor(t) \/ Exit(t) \/ Return(t) \/ BeginScan(t)
           \/ CallDestructor(t) \/ DestructorReturns(t) \/ EndScan(t) \/ Start(t)

Spec == Init /\ [][Next]_vars

-----------------------------------------------------------------------------
(* Properties *)

\* "reference-counted init/cleanup of the global TSS destructor table":
\* whoever is about to enter the section, or is inside, finds it initialised.
SectionReady == \A t \in Thread :
    pc[t] \in {"add", "remove", "scan", "scanning"} \/ InDestructor(t) => ready

\* "reference-counted": while every thread is outside of tss_init and tss_done, or
\* about to begin (again) in tss_init, the count is one more than the number of
\* keys, the program's own reference included.
CountMatchesKeys == base =>
    ((\A t \in Thread : pc[t] \in {"run", "init", "scan", "scanning", "gone"}) =>
        inited = Cardinality(shared) + 2)

\* The same of every program: without a key or a reference of its own, the count is
\* zero.  It is not so: the increment that a competing initialiser has yet to undo may
\* hide the last key from tss_done, and leave a count of 1 for good.
CountAlwaysMatches ==
    (\A t \in Thread : pc[t] \in {"run", "init", "scan", "scanning", "gone"}) =>
        inited = Cardinality(shared) + (IF base THEN 2 ELSE IF shared = {} THEN 0 ELSE 1)

\* assert( global.inited) of tss_free and of exit, and of tss_done, that it is
\* not "called too often".
InitedAsserted == \A t \in Thread :
    /\ pc[t] \in {"remove", "scan"} => inited # 0
    /\ pc[t] = "done" => inited # 1

\* The table has the destructor of every key in use once, and none of a key
\* that was given back, so that the key can be given out again.
TableMatchesKeys ==
    LET Entries(k) == {i \in DOMAIN table.entries :
                          table.entries[i].key = k /\ table.entries[i].f # NULL}
    IN /\ \A k \in shared : Cardinality(Entries(k)) = IF dtor[k] = NULL THEN 0 ELSE 1
       /\ \A k \in Key : \A i \in Entries(k) : k \in alloc /\ table.entries[i].f = dtor[k]

\* A destructor that runs is that of a key in use, and its own key's.
OwnDestructor == \A t \in Thread : InDestructor(t) =>
    scan[t].entry.key \in shared /\ scan[t].entry.f = dtor[scan[t].entry.key]

\* "The destructor function will be called, whenever a thread terminates properly":
\* a thread that is gone has no value left that has a destructor, but for those that its
\* destructors set when the scan was past their entries.
ExitRunsDestructors == \A t \in Thread : pc[t] = "gone" =>
    \A k \in (value[t] \cap shared) \ late[t] : dtor[k] = NULL

\* Taken at its word, the promise is of every value.
EveryValueDestroyed == \A t \in Thread : pc[t] = "gone" =>
    \A k \in value[t] \cap shared : dtor[k] = NULL

\* The section is what keeps the table in place for a scan: nobody but a destructor that
\* the scan itself has called moves it.  There is no table without the section, and none
\* is written beyond its size.
TableStays == /\ ~ready => table = NoTable
              /\ Len(table.entries) <= table.size
              /\ \A t \in Thread : pc[t] = "scanning" \/ InDestructor(t) =>
                    ready /\ scan[t].lost \in {NULL, t}

\* "is it a problem that we are doing this while being locked?": it is, if the section
\* does not keep the scan's own destructors from moving the table.  A scan with entries to
\* come has its table.
WalkedTableStays == \A t \in Thread :
    pc[t] = "scanning" /\ scan[t].at < scan[t].last => scan[t].lost = NULL
=============================================================================

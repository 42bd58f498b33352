--------------------------- MODULE MCAtomicPointer ---------------------------
(***************************************************************************)
(* Small programs for AtomicPointer: what two or three threads do to a few *)
(* words, one call after the other.                                        *)
(***************************************************************************)
EXTENDS AtomicPointer

CONSTANTS T1, T2, T3, Flag, Other, Data

C(name, at, value) == [name |-> name, at |-> at, value |-> value, expect |-> 0]
R(name, at) == C(name, at, 0)
B == R("barrier", Flag)

On(backends, kind, name, p1, p2, p3) ==
    {[name |-> name, backend |-> b, kind |-> kind,
      program |-> [t \in Thread |-> IF t = T1 THEN p1 ELSE IF t = T2 THEN p2 ELSE p3]] : b \in backends}

Both == {"c11", "mintomic"}

Flags(b, kind) == On(b, kind, "flags", <<C("write", Flag, 1), R("read", Other)>>,
                                       <<C("write", Other, 1), R("read", Flag)>>, <<>>)

\* With write and read_acquire, handed on by a second thread, and with barriers and a
\* compare and swap, as a once flag is published.
Publish(kind) ==
    On(Both, kind, "publish", <<C("write_nonatomic", Data, 1), C("write", Flag, 1)>>,
                              <<R("read_acquire", Flag), C("write", Other, 1)>>,
                              <<R("read_acquire", Other), R("read_nonatomic", Data)>>)
    \cup UNION {On(Both, kind, "publish", <<C("write_nonatomic", Data, 1), B, C(cas, Flag, 1)>>,
                                          <<R("read_relaxed", Flag), B, R("read_nonatomic", Data)>>,
                                          <<>>) : cas \in {"cas", "weakcas", "cas_relaxed"}}

References == On({"c11"}, "pointer", "refcount",
    <<C("write_nonatomic", Data, 1), R("decrement", Flag), R("read_nonatomic", Other)>>,
    <<C("write_nonatomic", Other, 1), R("decrement", Flag), R("read_nonatomic", Data)>>, <<>>)

Numbers == On(Both, "pointer", "numbers", <<R("increment", Flag)>>, <<C("intptr_add", Flag, 1)>>,
                                          <<R("cas_increment", Flag)>>)
    \cup On(Both, "pointer", "numbers", <<C("add", Flag, 1)>>, <<R("relaxed_increment", Flag)>>,
                                        <<R("cas_increment", Flag)>>)

Swaps(kind) == On(Both, kind, "swap", <<C("cas_actual", Flag, 1), C("cas_actual", Other, 2)>>,
                                      <<C("cas_actual", Other, 1), C("cas_actual", Flag, 2)>>,
                                      <<C("cas_actual", Flag, 3)>>)

Sums == On(Both, "pointer", "sum", <<R("decrement", Flag), R("cas_increment", Flag)>>,
                        <<C("add", Flag, 1), R("relaxed_increment", Flag)>>, <<C("add_relaxed", Flag, 2)>>)
    \cup On(Both, "pointer", "sum", <<R("intptr_increment", Flag), C("intptr_add", Flag, 2)>>,
                        <<R("intptr_decrement", Flag), R("intptr_read", Flag)>>,
                        <<C("intptr_write", Data, 1), R("intptr_increment", Flag)>>)

Sets(b, kind) == On(b, kind, "set", <<C("set", Flag, 1)>>, <<C("set", Flag, 2)>>, <<C("set", Flag, 3)>>)

Guaranteed == References \cup Numbers \cup Sums
    \cup UNION {Flags({"c11"}, kind) \cup Publish(kind) \cup Swaps(kind) \cup Sets({"mintomic"}, kind) :
                kind \in {"pointer", "function"}}
FlagsMintomic == Flags({"mintomic"}, "pointer")
SetsC11 == Sets({"c11"}, "function") \cup Sets({"c11"}, "pointer")
=============================================================================

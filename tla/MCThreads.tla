------------------------------ MODULE MCThreads ------------------------------
(***************************************************************************)
(* Small instances of Threads.  Handles are interchangeable.               *)
(***************************************************************************)
EXTENDS Threads, TLC

MinusOne == {-1}

Symmetry == Permutations(Handle)
=============================================================================

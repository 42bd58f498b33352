--------------------------- MODULE ReentrantLock ---------------------------
(***************************************************************************)
(* What a recursive mutex promises: it has at most one owner, only the     *)
(* owner can take it again, and it is free again exactly when the owner    *)
(* has given back every hold.                                              *)
(***************************************************************************)
EXTENDS Naturals

CONSTANTS Thread, NULL

VARIABLES owner,  \* the thread that holds the lock, or NULL
          holds   \* how often the owner has taken it and not given it back

vars == <<owner, holds>>

Init == owner = NULL /\ holds = 0

Take(t) == /\ owner \in {NULL, t}
           /\ owner' = t
           /\ holds' = holds + 1

GiveBack(t) == /\ owner = t
               /\ holds' = holds - 1
               /\ owner' = IF holds = 1 THEN NULL ELSE t

Next == \E t \in Thread : Take(t) \/ GiveBack(t)

Spec == Init /\ [][Next]_vars
=============================================================================

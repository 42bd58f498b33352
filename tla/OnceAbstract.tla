---------------------------- MODULE OnceAbstract ----------------------------
(***************************************************************************)
(* What a family of once flags promises its callers, without saying how:   *)
(* the initialiser of a flag is begun at most once, by one thread, and a   *)
(* thread "passes" a flag (its blocking call is back) only when that one   *)
(* initialisation is complete.  Nothing is ever taken back.                *)
(***************************************************************************)
CONSTANTS Thread, Flag, NULL

VARIABLES phase,   \* phase[f]: "fresh", "running" or "done"
          runner,  \* runner[f]: the thread that began f's initialiser
          passed   \* passed[t]: the flags thread t has passed

vars == <<phase, runner, passed>>

Init == /\ phase = [f \in Flag |-> "fresh"]
        /\ runner = [f \in Flag |-> NULL]
        /\ passed = [t \in Thread |-> {}]

Begin(t, f) == /\ phase[f] = "fresh"
               /\ phase' = [phase EXCEPT ![f] = "running"]
               /\ runner' = [runner EXCEPT ![f] = t]
               /\ UNCHANGED passed

\* The runner completes the flag and is the first to pass it.
Complete(t, f) == /\ phase[f] = "running" /\ runner[f] = t
                  /\ phase' = [phase EXCEPT ![f] = "done"]
                  /\ passed' = [passed EXCEPT ![t] = @ \cup {f}]
                  /\ UNCHANGED runner

Pass(t, f) == /\ phase[f] = "done"
              /\ passed' = [passed EXCEPT ![t] = @ \cup {f}]
              /\ UNCHANGED <<phase, runner>>

Next == \E t \in Thread, f \in Flag :
           Begin(t, f) \/ Complete(t, f) \/ Pass(t, f)

Spec == Init /\ [][Next]_vars
=============================================================================

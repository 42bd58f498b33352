------------------------------- MODULE MCOnce -------------------------------
(***************************************************************************)
(* A small instance of Once.  Cache is recursive and its initialiser calls *)
(* it again; Config's initialiser obtains Cache, so that a flag can be     *)
(* BUSY by a thread that itself waits for another flag.  With NeedsNothing *)
(* the initialisers call no other flag.                                    *)
(***************************************************************************)
EXTENDS Once

CONSTANTS Config, Cache

NeedsCache == [f \in Flag |-> {Cache}]

NeedsNothing == [f \in Flag |-> {}]
=============================================================================

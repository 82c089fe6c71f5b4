------------------------- MODULE MCMappedRequestPull -------------------------
(* Instances of MappedRequestPull for TLC. *)
EXTENDS MappedRequestPull, TLC

CONSTANTS r1, r2, r3

\* Two requests of one priority, told apart by their timestamps, and an urgent
\* one.  The timestamp of the first cannot be read: the second is blocked while
\* it is there, the urgent one never.
MCPrio == (r1 :> 2) @@ (r2 :> 2) @@ (r3 :> 1)
MCTime == (r1 :> 1) @@ (r2 :> 2) @@ (r3 :> 3)
=============================================================================

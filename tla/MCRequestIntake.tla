--------------------------- MODULE MCRequestIntake ---------------------------
(* Instances of RequestIntake for TLC. *)
EXTENDS RequestIntake, TLC

CONSTANTS r1, r2, r3, r4, r5, r6

\* r1 breaks a rule (priority 0), r2 and r3 pass and are mapped by the first and
\* the second rule set, r4 has no rule set, the queue refuses the priority of r5,
\* and the issuer of r6 may not submit it.
MCPrio == (r1 :> 0) @@ (r2 :> 3) @@ (r3 :> 5) @@ (r4 :> 3) @@ (r5 :> -1)
          @@ (r6 :> 7)
MCImpact == (r1 :> "motor") @@ (r2 :> "motor") @@ (r3 :> "flow") @@ (r4 :> "none")
            @@ (r5 :> "motor") @@ (r6 :> "motor")
MCRuleSets == <<"motor", "flow">>
=============================================================================

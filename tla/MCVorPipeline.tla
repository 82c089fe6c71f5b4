---------------------------- MODULE MCVorPipeline ----------------------------
(* Instances of VorPipeline for TLC. *)
EXTENDS VorPipeline, TLC

CONSTANTS r1, r2, r3

\* r1 and r3 pass, and the queue and the table disagree on which comes first;
\* r2 breaks a rule (priority 0), so that one of the others is saved again.
MCPrio == (r1 :> 2) @@ (r2 :> 0) @@ (r3 :> 3)
MCTime == (r1 :> 1) @@ (r2 :> 2) @@ (r3 :> 3)
MCImpact == (r1 :> "motor") @@ (r2 :> "motor") @@ (r3 :> "flow")
MCRuleSets == <<"motor", "flow">>
==============================================================================

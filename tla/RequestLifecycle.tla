--------------------------- MODULE RequestLifecycle ---------------------------
(***************************************************************************)
(* What the verification of requests promises of each request, whatever    *)
(* fails in between: it goes through three verifications in their order,   *)
(* by the interface partition, the intermediate VoR partition and the      *)
(* CPC-side partition; none is skipped and none is undone.                 *)
(***************************************************************************)
CONSTANTS Requests,
          Allowed,      \* the requests whose issuer may submit them
          Eligible      \* those the VoR partition may hand on

VARIABLE phase

Init == phase = [r \in Requests |-> "new"]

Goes(r, from, to) == phase[r] = from /\ phase' = [phase EXCEPT ![r] = to]

Submitted(r) == \/ Goes(r, "new", "refused")
                \/ Goes(r, "new", "accepted") /\ r \in Allowed

Mapped(r) == Goes(r, "accepted", "mapped") /\ r \in Eligible

Decided(r) == Goes(r, "mapped", "decided")

Next == \E r \in Requests : Submitted(r) \/ Mapped(r) \/ Decided(r)

Spec == Init /\ [][Next]_phase
===============================================================================

---------------------------- MODULE SampleChannel ----------------------------
(***************************************************************************)
(* What the shared memory hand-off promises: every segment is a channel    *)
(* that keeps the latest sample.  Samples are numbered in the order they   *)
(* are taken and published in; a consumer may miss samples, and gets those *)
(* it does get in that order.                                              *)
(***************************************************************************)
EXTENDS Naturals

CONSTANT N          \* number of segments

Segs == 1..N

VARIABLES published,    \* published[s]: the last sample written to s
          delivered     \* delivered[s]: the last sample decoded from s

vars == <<published, delivered>>

Init ==
    /\ published = [s \in Segs |-> 0]
    /\ delivered = [s \in Segs |-> 0]

\* A sample is published to the segments in their order, before the next one.
Publish(s) ==
    /\ \A t \in Segs : published[t] = published[s] + (IF t < s THEN 1 ELSE 0)
    /\ published' = [published EXCEPT ![s] = @ + 1]
    /\ UNCHANGED delivered

Deliver(s) ==
    /\ \E v \in (delivered[s] + 1)..published[s] :
           delivered' = [delivered EXCEPT ![s] = v]
    /\ UNCHANGED published

Next == \E s \in Segs : Publish(s) \/ Deliver(s)

Spec == Init /\ [][Next]_vars

=============================================================================

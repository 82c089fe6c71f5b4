----------------------------- MODULE VorPipeline -----------------------------
(***************************************************************************)
(* The verification of requests from end to end: RequestIntake (interface  *)
(* partition and intermediate VoR partition) and MappedRequestPull (CPC-   *)
(* side partition) over one table mapped_requests, which is all that they  *)
(* share.  The intermediate partition inserts rows, and may insert a row   *)
(* again that was pulled long ago; the CPC-side partition removes them.    *)
(* The module extends the second by the first, whose constants and         *)
(* variables it declares: what a step of one leaves alone is the other's.  *)
(***************************************************************************)
EXTENDS MappedRequestPull, Sequences

CONSTANTS Allowed, Sendable, Described, Impact, RuleSets, MqMax, MaxStops

VARIABLES stage, mq, arrival, armed, proc, hpc, msg, verified, current, feedback,
          lost, stops

intake == <<stage, mq, arrival, armed, proc, hpc, msg, verified, current,
            feedback, lost, stops>>
pull == <<pc, cur, pulls, decided, unanswered, dropped, locks, crashes>>
pipelineVars == <<rows, saved, intake, pull>>

I == INSTANCE RequestIntake

ASSUME PipelineAssumption == I!RequestAssumption

PipelineInit == I!Init /\ Init

\* A step of the interface or of the intermediate partition; a row it inserts
\* is one that was saved.
Intake(A) == A /\ saved' = saved \cup rows' /\ UNCHANGED pull

Pull(A) == A /\ UNCHANGED intake

PipelineNext ==
    \/ Intake(I!Next)
    \/ \E p \in Pullers : Pull(Puller(p))
    \/ Pull(Crash)

PipelineSpec == PipelineInit /\ [][PipelineNext]_pipelineVars

\* The fairness of the two components, but for what is still to be submitted.
PipelineFairSpec ==
    /\ PipelineSpec
    /\ WF_pipelineVars(Intake(I!Start)) /\ WF_pipelineVars(Intake(I!Handler))
    /\ WF_pipelineVars(Intake(proc = "stopping" /\ I!Stop))
    /\ \A p \in Pullers : WF_pipelineVars(Pull(Puller(p)))

-----------------------------------------------------------------------------
(* Properties.                                                             *)

Eligible == Allowed \cap I!Plausible \cap I!Mappable

\* Where a request is, seen from end to end.
Phase(r) ==
    CASE r \in decided -> "decided"
      [] r \in saved \ decided -> "mapped"
      [] r \notin saved \cup decided /\ stage[r] = "sending" -> "new"
      [] OTHER -> stage[r]

L == INSTANCE RequestLifecycle WITH phase <- [r \in Requests |-> Phase(r)]

\* The three steps are taken in their order and never back, although the
\* verifier hands out requests of before, rows come a second time, tables stay
\* locked and both processes end at any point.
LifecycleSpec == L!Spec

\* What became of a request that was not handed on.
Refused(r) ==
    \/ <<r, "rejected">> \in feedback
    \/ <<r, "verified">> \in feedback /\ r \notin I!Mappable

Held(r) ==
    \/ r \in mq \/ r = msg \/ r \in rows
    \/ \E p \in Pullers : pc[p] = "verify" /\ cur[p] = r

\* No acknowledged request disappears between the partitions: it is refused, it
\* is held in one of four places, it has its decision, or it was in the hands
\* of a process that ended, that found the database locked or whose verification
\* raised.
GivenUp(r) == r \in lost \cup dropped \cup unanswered

EndToEnd ==
    \A r \in Requests : stage[r] = "accepted" =>
        Refused(r) \/ Held(r) \/ r \in decided \/ GivenUp(r)

\* main.py:51 of the CPC-side partition removes a request it pulled.  Each puller
\* of the two sees it once, since both may select the row before one deletes it,
\* and again only because the VoR partition saved it again, which takes a request
\* that broke a rule and was answered with this one instead.
Rejections == {q \in Requests : <<q, "rejected">> \in feedback}

AgainOnlyByRejection ==
    \A r \in Requests :
        pulls[r] <= Cardinality(Pullers) * (1 + Cardinality(Rejections))

\* Every request in the queue is refused or decided in the end, by way of both
\* partitions, unless it was given up, nobody was notified of it, or a row whose
\* timestamp cannot be read keeps it in the table.
DecidedUnlessStuck ==
    \A r \in Requests :
        r \in mq ~> \/ Refused(r) \/ r \in decided \/ GivenUp(r)
                    \/ I!Unnoticed \/ Blocked(r)

\* main.py:21 of the CPC-side partition: "Pull the highest priority request from
\* the database".  The message queue delivers the highest number first, so the
\* row selected has none beside it that the queue would have delivered before it.
HighestFirst ==
    [][\A p \in Pullers : pc[p] = "select" /\ pc'[p] = "delete" =>
           \A q \in rows : Prio[q] <= Prio[cur'[p]]]_pipelineVars
=============================================================================

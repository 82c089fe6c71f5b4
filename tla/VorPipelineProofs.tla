-------------------------- MODULE VorPipelineProofs --------------------------
(***************************************************************************)
(* Theorems about the verification of requests, for any number of pullers. *)
(* First of its last step alone, MappedRequestPull: no mapped request is   *)
(* forgotten.  Then of the three steps together, VorPipeline: a step of one*)
(* component preserves its own invariant, by its own lemmas, and all that a*)
(* step of the other does to it is to remove rows, or to insert rows of    *)
(* requests.                                                               *)
(***************************************************************************)
EXTENDS VorPipeline, FiniteSetTheorems, TLAPS

-----------------------------------------------------------------------------
(* The pull alone: types, and no request forgotten.                        *)

\* No step takes a variable out of its type, or leaves a puller without the
\* request its place in the code needs.
LEMMA TypePreserved == TypeOK /\ [Next]_vars => TypeOK'
<1> SUFFICES ASSUME TypeOK, [Next]_vars PROVE TypeOK'
  OBVIOUS
<1> USE PullAssumption DEF TypeOK
<1>1. ASSUME NEW r \in Requests, SaveRow(r) PROVE TypeOK'
  BY <1>1 DEF SaveRow
<1>2. ASSUME NEW p \in Pullers, Select(p) PROVE TypeOK'
  <2>1. PICK r \in Requests : /\ First(r)
                             /\ IF r \in Dated THEN Goto(p, "delete", r)
                                              ELSE Goto(p, "select", NoRequest)
    BY <1>2 DEF Select
  <2>2. CASE r \in Dated
    BY <1>2, <2>1, <2>2 DEF Select, First, Goto
  <2>3. CASE r \notin Dated
    BY <1>2, <2>1, <2>3 DEF Select, Goto
  <2> QED
    BY <2>2, <2>3
<1>3. ASSUME NEW p \in Pullers, Delete(p) PROVE TypeOK'
  <2>1. cur[p] \in saved /\ cur[p] \in Requests
    BY <1>3 DEF Delete
  <2>2. pulls' \in [Requests -> Nat]
    BY <1>3, <2>1 DEF Delete
  <2> QED
    BY <1>3, <2>1, <2>2 DEF Delete, Goto
<1>4. ASSUME NEW p \in Pullers, DeleteFails(p) PROVE TypeOK'
  BY <1>4 DEF DeleteFails, Goto
<1>5. ASSUME NEW p \in Pullers, Verify(p) \/ VerifyRaises(p) PROVE TypeOK'
  BY <1>5 DEF Verify, VerifyRaises, Goto
<1>6. CASE Crash
  BY <1>6 DEF Crash
<1>7. CASE UNCHANGED vars
  BY <1>7 DEF vars
<1> QED
  BY <1>1, <1>2, <1>3, <1>4, <1>5, <1>6, <1>7 DEF Next, Puller

\* Every variable keeps its type, and a puller past its SELECT holds a request
\* that the VoR partition saved and whose timestamp it could read.
THEOREM TypeCorrect == Spec => []TypeOK
<1>1. Init => TypeOK
  BY PullAssumption DEF Init, TypeOK
<1> QED
  BY <1>1, TypePreserved, PTL DEF Spec

-----------------------------------------------------------------------------

\* What NoneForgotten says of one request.
Kept(r) == r \in rows \/ Verifying(r) \/ r \in decided \cup unanswered \cup dropped

\* Every step keeps every saved request in the table, in verification, decided
\* or on record as given up, by an exception or an end of the container.
LEMMA KeptPreserved ==
    ASSUME TypeOK, NEW r \in Requests, Kept(r), [Next]_vars PROVE Kept(r)'
<1> USE PullAssumption DEF TypeOK, Kept, Verifying
<1>1. ASSUME NEW s \in Requests, SaveRow(s) PROVE Kept(r)'
  BY <1>1 DEF SaveRow
<1>2. ASSUME NEW p \in Pullers, Select(p) PROVE Kept(r)'
  <2>1. /\ rows' = rows /\ UNCHANGED <<decided, unanswered, dropped>> /\ pc[p] = "select"
        /\ \A q \in Pullers \ {p} : pc'[q] = pc[q] /\ cur'[q] = cur[q]
    BY <1>2 DEF Select, Goto
  <2> QED
    BY <2>1
<1>3. ASSUME NEW p \in Pullers, Delete(p) PROVE Kept(r)'
  <2>1. CASE cur[p] = r
    BY <1>3, <2>1 DEF Delete, Goto
  <2>2. CASE cur[p] # r
    BY <1>3, <2>2 DEF Delete, Goto
  <2> QED
    BY <2>1, <2>2
<1>4. ASSUME NEW p \in Pullers, DeleteFails(p) PROVE Kept(r)'
  BY <1>4 DEF DeleteFails, Goto
<1>5. ASSUME NEW p \in Pullers, Verify(p) \/ VerifyRaises(p) PROVE Kept(r)'
  <2>1. CASE cur[p] = r
    BY <1>5, <2>1 DEF Verify, VerifyRaises
  <2>2. CASE cur[p] # r
    BY <1>5, <2>2 DEF Verify, VerifyRaises, Goto
  <2> QED
    BY <2>1, <2>2
<1>6. CASE Crash
  BY <1>6 DEF Crash
<1>7. CASE UNCHANGED vars
  BY <1>7 DEF vars
<1> QED
  BY <1>1, <1>2, <1>3, <1>4, <1>5, <1>6, <1>7 DEF Next, Puller

\* A request enters saved together with its row.
LEMMA SavedWithRow ==
    ASSUME TypeOK, [Next]_vars, NEW r \in saved', r \notin saved
    PROVE  r \in rows'
BY DEF Next, Puller, SaveRow, Select, Delete, DeleteFails, Verify, VerifyRaises,
       Crash, vars

\* No mapped request disappears without a decision, whatever the number of
\* pullers, the order of their SELECTs and DELETEs and locked tables, but by an
\* exception or an end of the container in its verification.
THEOREM NothingForgotten == Spec => []NoneForgotten
<1>1. Init => NoneForgotten
  BY DEF Init, NoneForgotten
<1>2. TypeOK /\ TypeOK' /\ NoneForgotten /\ [Next]_vars => NoneForgotten'
  <2> SUFFICES ASSUME TypeOK, TypeOK', NoneForgotten, [Next]_vars,
                      NEW r \in saved'
               PROVE  Kept(r)'
    BY DEF NoneForgotten, Kept
  <2>1. r \in Requests
    BY DEF TypeOK
  <2>2. CASE r \in saved
    BY <2>1, <2>2, KeptPreserved DEF NoneForgotten, Kept
  <2>3. CASE r \notin saved
    BY <2>3, SavedWithRow DEF Kept
  <2> QED
    BY <2>2, <2>3
<1> QED
  BY <1>1, <1>2, TypeCorrect, PTL DEF Spec

-----------------------------------------------------------------------------
(* The actions of the intake are those its theorems speak of.              *)

IP == INSTANCE RequestIntakeProofs

LEMMA Assumptions ==
    /\ IP!RequestAssumption
    /\ IsFiniteSet(Requests) /\ NoRequest \notin Requests
BY PipelineAssumption, PullAssumption
   DEF I!RequestAssumption, IP!RequestAssumption, I!IsFiniteSet, IP!IsFiniteSet

LEMMA IntakeIsIntake == I!Next => IP!Next
<1> USE DEF I!submission, IP!submission, I!handler, IP!handler
<1>1. ASSUME NEW r \in Requests, I!Submission(r) PROVE IP!Submission(r)
  <2>1. I!Authorize(r) => IP!Authorize(r)
    BY DEF I!Authorize, IP!Authorize
  <2>2. I!SendRaises(r) => IP!SendRaises(r)
    BY DEF I!SendRaises, IP!SendRaises
  <2>3. I!Send(r) => IP!Send(r)
    BY DEF I!Send, IP!Send, I!Accepted, IP!Accepted, I!Cardinality, IP!Cardinality
  <2> QED
    BY <1>1, <2>1, <2>2, <2>3 DEF I!Submission, IP!Submission
<1>2. I!Start => IP!Start
  BY DEF I!Start, IP!Start
<1>3. I!Signal => IP!Signal
  BY DEF I!Signal, IP!Signal
<1>4. I!Stop => IP!Stop
  BY DEF I!Stop, IP!Stop
<1>5. I!Handler => IP!Handler
  <2>1. I!Receive => IP!Receive
    BY DEF I!Receive, IP!Receive, I!Before, IP!Before
  <2>2. I!Verify => IP!Verify
    BY DEF I!Verify, IP!Verify, I!Plausible, IP!Plausible
  <2>3. I!Map => IP!Map
    BY DEF I!Map, IP!Map, I!Mappable, IP!Mappable
  <2>4. I!Save => IP!Save
    BY DEF I!Save, IP!Save
  <2>5. I!SaveFails => IP!SaveFails
    BY DEF I!SaveFails, IP!SaveFails
  <2>6. I!Rearm => IP!Rearm
    BY DEF I!Rearm, IP!Rearm
  <2> QED
    BY <2>1, <2>2, <2>3, <2>4, <2>5, <2>6 DEF I!Handler, IP!Handler
<1> QED
  BY <1>1, <1>2, <1>3, <1>4, <1>5 DEF I!Next, IP!Next

-----------------------------------------------------------------------------
(* The inductive invariant: those of the components, and what links them.  *)

IntakeInv ==
    IP!TypeOK /\ IP!RegisteredInv /\ IP!VerifiedInv /\ IP!AccountedInv

PullInv == TypeOK /\ \A r \in saved : Kept(r)

\* What is saved was acknowledged, verified and mapped, and is what was reported
\* as completed; what is decided was saved.
Link ==
    /\ \A r \in saved : /\ stage[r] = "accepted" /\ r \in Eligible
                        /\ <<r, "verified">> \in feedback
    /\ \A r \in Requests : <<r, "completed">> \in feedback => r \in saved
    /\ decided \subseteq saved

IInv == IntakeInv /\ PullInv /\ Link

LEMMA InitInv == PipelineInit => IInv
<1> SUFFICES ASSUME PipelineInit PROVE IInv
  OBVIOUS
<1>1. IP!Init /\ Init
  BY DEF PipelineInit, I!Init, IP!Init, Init
<1>2. IntakeInv
  <2>1. IP!TypeOK
    BY <1>1, IP!TypeInit, Assumptions
  <2>2. NoRequest \notin Requests
    BY Assumptions
  <2> QED
    BY <1>1, <2>1, <2>2
       DEF IntakeInv, IP!Init, IP!RegisteredInv, IP!Registered, IP!VerifiedInv,
           IP!VerifiedOnly, IP!AccountedInv, IP!Accounted, IP!Outcome
<1>3. PullInv /\ Link
  BY <1>1, Assumptions, PullAssumption DEF PullInv, Link, Init, TypeOK, IP!Init
<1> QED
  BY <1>2, <1>3 DEF IInv

-----------------------------------------------------------------------------
(* Steps of the intake.                                                    *)

\* What such a step does to the table and to what was reported.
LEMMA IntakeFootprint ==
    ASSUME IP!TypeOK, IP!Next
    PROVE  /\ rows' = rows \/ (hpc \in {"save"} /\ rows' = rows \cup {current})
           /\ feedback \subseteq feedback'
           /\ \A r \in Requests :
                 /\ stage[r] = "accepted" => stage'[r] = "accepted"
                 /\ <<r, "completed">> \in feedback' =>
                       \/ <<r, "completed">> \in feedback
                       \/ r = current /\ r \in rows'
<1> USE DEF IP!TypeOK, IP!Sets, IP!submission, IP!handler
<1>1. ASSUME NEW q \in Requests, IP!Submission(q)
      PROVE  /\ UNCHANGED <<rows, feedback>>
             /\ \A r \in Requests : stage[r] = "accepted" => stage'[r] = "accepted"
  BY <1>1 DEF IP!Submission, IP!Authorize, IP!SendRaises, IP!Send
<1>2. CASE IP!Start \/ IP!Signal \/ IP!Stop
  BY <1>2 DEF IP!Start, IP!Signal, IP!Stop
<1>3. CASE IP!Receive \/ IP!SaveFails \/ IP!Rearm
  BY <1>3 DEF IP!Receive, IP!SaveFails, IP!Rearm
<1>4. CASE IP!Verify
  <2>1. UNCHANGED <<rows, stage>> /\ feedback \subseteq feedback'
    BY <1>4 DEF IP!Verify
  <2>2. \A r \in Requests : <<r, "completed">> \in feedback' =>
            <<r, "completed">> \in feedback
    BY <1>4 DEF IP!Verify
  <2> QED
    BY <2>1, <2>2
<1>5. CASE IP!Map
  <2>1. UNCHANGED <<rows, stage>> /\ feedback \subseteq feedback'
    BY <1>5 DEF IP!Map
  <2>2. \A r \in Requests : <<r, "completed">> \in feedback' =>
            <<r, "completed">> \in feedback
    BY <1>5 DEF IP!Map
  <2> QED
    BY <2>1, <2>2
<1>6. CASE IP!Save
  BY <1>6 DEF IP!Save
<1> QED
  BY <1>1, <1>2, <1>3, <1>4, <1>5, <1>6 DEF IP!Next, IP!Handler

LEMMA IntakePreserves == ASSUME IInv, Intake(I!Next) PROVE IInv'
<1> USE DEF IInv, Intake
<1>1. IP!Next
  BY IntakeIsIntake
<1>2. IntakeInv'
  <2>1. IP!TypeOK'
    BY <1>1, Assumptions, IP!TypePreserved DEF IntakeInv
  <2>2. IP!RegisteredInv'
    BY <1>1, Assumptions, IP!RegisteredPreserved DEF IntakeInv
  <2>3. IP!VerifiedInv'
    BY <1>1, Assumptions, IP!VerifiedPreserved DEF IntakeInv
  <2>4. IP!AccountedInv'
    BY <1>1, Assumptions, IP!AccountedPreserved DEF IntakeInv
  <2> QED
    BY <2>1, <2>2, <2>3, <2>4 DEF IntakeInv
<1>3. /\ rows' = rows \/ (hpc = "save" /\ rows' = rows \cup {current})
      /\ feedback \subseteq feedback'
      /\ \A r \in Requests :
            /\ stage[r] = "accepted" => stage'[r] = "accepted"
            /\ <<r, "completed">> \in feedback' =>
                  \/ <<r, "completed">> \in feedback
                  \/ r = current /\ r \in rows'
  BY <1>1, IntakeFootprint DEF IntakeInv
<1>4. saved' = saved \cup rows' /\ UNCHANGED pull
  OBVIOUS
<1>5. hpc = "save" =>
         /\ current \in Requests /\ current \in Eligible /\ stage[current] = "accepted"
         /\ <<current, "verified">> \in feedback
  BY Assumptions
     DEF IntakeInv, IP!TypeOK, IP!VerifiedInv, IP!VerifiedOnly, IP!AccountedInv,
         Eligible, I!Plausible, IP!Plausible, I!Mappable, IP!Mappable
<1>6. PullInv'
  <2>1. rows' \subseteq saved' /\ saved \subseteq saved' /\ saved' \subseteq Requests
    BY <1>3, <1>4, <1>5 DEF PullInv, TypeOK
  <2>2. TypeOK'
    BY <1>4, <2>1 DEF PullInv, TypeOK, pull
  <2>3. ASSUME NEW r \in saved' PROVE Kept(r)'
    BY <1>3, <1>4, <2>3 DEF PullInv, Kept, Verifying, pull
  <2> QED
    BY <2>2, <2>3 DEF PullInv
<1>7. Link'
  <2>1. \A r \in saved' : r \in saved \/ (hpc = "save" /\ r = current)
    BY <1>3, <1>4 DEF PullInv, TypeOK
  <2>2. \A r \in saved' : /\ stage'[r] = "accepted" /\ r \in Eligible
                          /\ <<r, "verified">> \in feedback'
    BY <1>3, <1>5, <2>1 DEF Link, PullInv, TypeOK
  <2>3. \A r \in Requests : <<r, "completed">> \in feedback' => r \in saved'
    BY <1>3, <1>4 DEF Link
  <2>4. decided' \subseteq saved'
    BY <1>4 DEF Link, pull
  <2> QED
    BY <2>2, <2>3, <2>4 DEF Link, Eligible, I!Plausible, I!Mappable
<1> QED
  BY <1>2, <1>6, <1>7

-----------------------------------------------------------------------------
(* Steps of the pull.                                                      *)

LEMMA PullFootprint ==
    ASSUME TypeOK, (\E p \in Pullers : Puller(p)) \/ Crash
    PROVE  /\ rows' \subseteq rows /\ saved' = saved
           /\ decided' \subseteq saved
<1> QED
  BY DEF TypeOK, Puller, Select, Delete, DeleteFails, Verify, VerifyRaises, Crash

\* The intake's invariant bears the loss of rows.
LEMMA IntakeBearsRemoval ==
    ASSUME IntakeInv, UNCHANGED intake, rows' \subseteq rows PROVE IntakeInv'
<1> USE DEF IntakeInv, intake
<1>1. IP!TypeOK'
  BY DEF IP!TypeOK, IP!Sets, IP!Results, IP!Cardinality
<1>2. IP!RegisteredInv'
  BY DEF IP!RegisteredInv, IP!Registered
<1>3. IP!VerifiedInv'
  BY DEF IP!VerifiedInv, IP!VerifiedOnly
<1>4. IP!AccountedInv'
  BY DEF IP!AccountedInv, IP!Accounted, IP!Settled, IP!Outcome
<1> QED
  BY <1>1, <1>2, <1>3, <1>4

LEMMA PullPreserves ==
    ASSUME IInv, (\E p \in Pullers : Pull(Puller(p))) \/ Pull(Crash)
    PROVE  IInv'
<1> USE DEF IInv, Pull
<1>1. (\E p \in Pullers : Puller(p)) \/ Crash
  OBVIOUS
<1>2. Next
  BY <1>1 DEF Next
<1>3. UNCHANGED intake
  OBVIOUS
<1>4. /\ rows' \subseteq rows /\ saved' = saved
      /\ decided' \subseteq saved
  BY <1>1, PullFootprint DEF PullInv
<1>5. IntakeInv'
  BY <1>3, <1>4, IntakeBearsRemoval
<1>6. PullInv'
  <2>1. TypeOK'
    BY <1>2, Assumptions, TypePreserved DEF PullInv
  <2>2. ASSUME NEW r \in saved PROVE Kept(r)'
    <3>1. r \in Requests /\ Kept(r) /\ TypeOK
      BY DEF PullInv, TypeOK
    <3> QED
      BY <1>2, <3>1, Assumptions, KeptPreserved
  <2> QED
    BY <1>4, <2>1, <2>2 DEF PullInv
<1>7. Link'
  BY <1>3, <1>4 DEF Link, intake, PullInv, TypeOK, Eligible, I!Plausible, I!Mappable
<1> QED
  BY <1>5, <1>6, <1>7

LEMMA InvPreserved == IInv /\ [PipelineNext]_pipelineVars => IInv'
<1> SUFFICES ASSUME IInv, [PipelineNext]_pipelineVars PROVE IInv'
  OBVIOUS
<1>1. CASE UNCHANGED pipelineVars
  <2>1. UNCHANGED intake /\ UNCHANGED pull /\ rows' = rows /\ saved' = saved
    BY <1>1 DEF pipelineVars
  <2>2. IntakeInv'
    BY <2>1, IntakeBearsRemoval DEF IInv
  <2>3. PullInv' /\ Link'
    BY <2>1 DEF IInv, PullInv, Link, TypeOK, Kept, Verifying, pull, intake
  <2> QED
    BY <2>2, <2>3 DEF IInv
<1> QED
  BY <1>1, IntakePreserves, PullPreserves DEF PipelineNext

LEMMA InvHolds == PipelineSpec => []IInv
BY InitInv, InvPreserved, PTL DEF PipelineSpec

-----------------------------------------------------------------------------
(* Safety from end to end.                                                 *)

LEMMA AccountedFor == IInv => EndToEnd
<1> SUFFICES ASSUME IInv, NEW r \in Requests, stage[r] = "accepted"
             PROVE  Refused(r) \/ Held(r) \/ r \in decided \/ GivenUp(r)
  BY DEF EndToEnd
<1>1. \/ r \in mq \/ r = msg \/ IP!Outcome(r) \/ r \in lost
  BY DEF IInv, IntakeInv, IP!AccountedInv, IP!Accounted
<1>2. CASE <<r, "completed">> \in feedback
  <2>1. Kept(r)
    BY <1>2 DEF IInv, Link, PullInv
  <2> QED
    BY <2>1 DEF Kept, Verifying, Held, GivenUp
<1>3. CASE IP!Outcome(r) /\ <<r, "completed">> \notin feedback
  BY <1>3 DEF IP!Outcome, Refused, IP!Mappable, I!Mappable
<1> QED
  BY <1>1, <1>2, <1>3 DEF Held, GivenUp

\* An acknowledged request is refused, in one of four places, decided, or was
\* in the hands of a process that ended, found the database locked or met an
\* exception: for any number of requests and pullers, any rules, ends and locks.
THEOREM NothingLost == PipelineSpec => []EndToEnd
BY InvHolds, AccountedFor, PTL

-----------------------------------------------------------------------------
(* The pipeline implements RequestLifecycle.                               *)

\* Phase, case by case.
LEMMA PhaseIs ==
    ASSUME NEW r
    PROVE  /\ r \in decided => Phase(r) = "decided"
           /\ r \notin decided /\ r \in saved => Phase(r) = "mapped"
           /\ r \notin decided /\ r \notin saved /\ stage[r] = "sending" =>
                  Phase(r) = "new"
           /\ r \notin decided /\ r \notin saved /\ stage[r] # "sending" =>
                  Phase(r) = stage[r]
BY DEF Phase

LEMMA PhaseIsNext ==
    ASSUME NEW r
    PROVE  /\ r \in decided' => Phase(r)' = "decided"
           /\ r \notin decided' /\ r \in saved' => Phase(r)' = "mapped"
           /\ r \notin decided' /\ r \notin saved' /\ stage'[r] = "sending" =>
                  Phase(r)' = "new"
           /\ r \notin decided' /\ r \notin saved' /\ stage'[r] # "sending" =>
                  Phase(r)' = stage'[r]
BY DEF Phase

phase == [r \in Requests |-> Phase(r)]

\* A step that changes what one request's phase is made of changes one phase.
LEMMA OneGoes ==
    ASSUME NEW r \in Requests,
           \A q \in Requests \ {r} :
               /\ q \in decided' <=> q \in decided
               /\ stage'[q] = stage[q]
               /\ q \in saved' <=> q \in saved
    PROVE  phase' = [phase EXCEPT ![r] = Phase(r)']
<1>1. \A q \in Requests \ {r} : Phase(q)' = Phase(q)
  BY PhaseIs, PhaseIsNext
<1> QED
  BY <1>1 DEF phase

LEMMA NoneGoes ==
    ASSUME UNCHANGED <<decided, stage, saved>> PROVE phase' = phase
<1>1. \A q \in Requests : Phase(q)' = Phase(q)
  BY PhaseIs, PhaseIsNext
<1> QED
  BY <1>1 DEF phase

LEMMA LifecycleInit == PipelineInit => L!Init
<1> SUFFICES ASSUME PipelineInit PROVE \A r \in Requests : Phase(r) = "new"
  BY DEF L!Init
<1> QED
  BY PhaseIs DEF PipelineInit, I!Init, Init

LEMMA SubmissionRefines ==
    ASSUME IInv, NEW r \in Requests, IP!Submission(r), saved' = saved,
           decided' = decided
    PROVE  L!Submitted(r) \/ phase' = phase
<1> USE DEF IInv, IntakeInv, IP!TypeOK, IP!Sets, IP!submission
<1>1. /\ stage[r] # "accepted" /\ r \notin saved /\ r \notin decided
      /\ \A q \in Requests \ {r} : stage'[q] = stage[q]
  BY DEF Link, PullInv, TypeOK, IP!Submission, IP!Authorize, IP!SendRaises, IP!Send
<1>2. phase' = [phase EXCEPT ![r] = Phase(r)']
  BY <1>1, OneGoes
<1>3. phase[r] = Phase(r) /\ phase = [q \in Requests |-> Phase(q)]
  BY DEF phase
<1>4. Phase(r) = IF stage[r] = "sending" THEN "new" ELSE stage[r]
  BY <1>1, PhaseIs
<1>5. Phase(r)' = IF stage'[r] = "sending" THEN "new" ELSE stage'[r]
  BY <1>1, PhaseIsNext
<1>6. CASE IP!Authorize(r)
  <2>1. CASE r \in Allowed
    <3>1. Phase(r)' = Phase(r)
      BY <1>4, <1>5, <1>6, <2>1 DEF IP!Authorize
    <3> QED
      BY <1>2, <1>3, <3>1 DEF phase
  <2>2. CASE r \notin Allowed
    <3>1. Phase(r) = "new" /\ Phase(r)' = "refused"
      BY <1>4, <1>5, <1>6, <2>2 DEF IP!Authorize
    <3> QED
      BY <1>2, <1>3, <3>1 DEF L!Submitted, L!Goes, phase
  <2> QED
    BY <2>1, <2>2
<1>7. CASE IP!SendRaises(r)
  <2>1. Phase(r) = "new" /\ Phase(r)' = "refused"
    BY <1>4, <1>5, <1>7 DEF IP!SendRaises
  <2> QED
    BY <1>2, <1>3, <2>1 DEF L!Submitted, L!Goes, phase
<1>8. CASE IP!Send(r)
  <2>1. Phase(r) = "new" /\ Phase(r)' = "accepted"
    BY <1>4, <1>5, <1>8 DEF IP!Send
  <2>2. r \in Allowed
    BY <1>8 DEF IP!Send, IP!RegisteredInv, IP!VerifiedInv, IP!AccountedInv
  <2> QED
    BY <1>2, <1>3, <2>1, <2>2 DEF L!Submitted, L!Goes, phase
<1> QED
  BY <1>6, <1>7, <1>8 DEF IP!Submission

LEMMA SaveRefines ==
    ASSUME IInv, hpc = "save", saved' = saved \cup {current}, decided' = decided,
           stage' = stage
    PROVE  L!Mapped(current) \/ phase' = phase
<1>1. /\ current \in Requests /\ current \in Eligible /\ stage[current] = "accepted"
  BY Assumptions
     DEF IInv, IntakeInv, IP!TypeOK, IP!VerifiedInv, IP!VerifiedOnly, IP!AccountedInv,
         Eligible, I!Plausible, IP!Plausible, I!Mappable, IP!Mappable
<1>2. PICK r \in Requests : r = current
  BY <1>1
<1>3. CASE r \in saved
  BY <1>2, <1>3, NoneGoes
<1>4. CASE r \notin saved
  <2>1. r \notin decided
    BY <1>4 DEF IInv, Link
  <2>2. Phase(r) = "accepted" /\ Phase(r)' = "mapped"
    BY <1>1, <1>2, <1>4, <2>1, PhaseIs, PhaseIsNext
  <2>3. phase' = [phase EXCEPT ![r] = "mapped"]
    BY <1>2, <2>2, OneGoes
  <2> QED
    BY <1>1, <1>2, <2>2, <2>3 DEF L!Mapped, L!Goes, phase
<1> QED
  BY <1>3, <1>4

LEMMA VerifyRefines ==
    ASSUME IInv, NEW p \in Pullers, Verify(p), stage' = stage
    PROVE  L!Decided(cur[p]) \/ phase' = phase
<1> USE DEF IInv, PullInv, TypeOK
<1>1. PICK r \in Requests : r = cur[p]
  BY DEF Verify
<1>2. /\ r \in saved /\ saved' = saved /\ r \in decided'
      /\ decided' = decided \cup {r}
  BY <1>1 DEF Verify
<1>3. Phase(r)' = "decided"
  BY <1>2, PhaseIsNext
<1>4. phase' = [phase EXCEPT ![r] = "decided"]
  BY <1>2, <1>3, OneGoes
<1>5. CASE r \notin decided
  <2>1. Phase(r) = "mapped"
    BY <1>2, <1>5, PhaseIs
  <2> QED
    BY <1>1, <1>4, <2>1 DEF L!Decided, L!Goes, phase
<1>6. CASE r \in decided
  <2>1. Phase(r) = "decided"
    BY <1>6, PhaseIs
  <2>2. phase[r] = "decided" /\ phase = [q \in Requests |-> phase[q]]
    BY <2>1 DEF phase
  <2> QED
    BY <1>4, <2>2
<1> QED
  BY <1>5, <1>6

LEMMA IntakeRefines ==
    ASSUME IInv, Intake(I!Next) PROVE L!Next \/ phase' = phase
<1> USE DEF IInv, Intake, pull
<1>1. IP!Next
  BY IntakeIsIntake
<1>2. rows \subseteq saved /\ decided' = decided /\ saved' = saved \cup rows'
  BY DEF PullInv, TypeOK
<1>3. ASSUME NEW r \in Requests, IP!Submission(r) PROVE L!Next \/ phase' = phase
  <2>1. rows' = rows
    BY <1>3 DEF IP!Submission, IP!Authorize, IP!SendRaises, IP!Send
  <2> QED
    BY <1>2, <1>3, <2>1, SubmissionRefines DEF L!Next
<1>4. CASE IP!Save
  <2>1. /\ hpc = "save" /\ saved' = saved \cup {current} /\ stage' = stage
    BY <1>2, <1>4 DEF IP!Save, IP!submission
  <2>2. current \in Requests
    BY <2>1, Assumptions DEF IntakeInv, IP!TypeOK
  <2> QED
    BY <1>2, <2>1, <2>2, SaveRefines DEF L!Next
<1>5. ASSUME UNCHANGED <<rows, stage>> PROVE phase' = phase
  BY <1>2, <1>5, NoneGoes
<1>6. CASE IP!Start \/ IP!Signal \/ IP!Stop
  BY <1>5, <1>6 DEF IP!Start, IP!Signal, IP!Stop, IP!submission
<1>7. CASE IP!Receive \/ IP!Verify \/ IP!Map \/ IP!SaveFails \/ IP!Rearm
  BY <1>5, <1>7
     DEF IP!Receive, IP!Verify, IP!Map, IP!SaveFails, IP!Rearm, IP!submission
<1> QED
  BY <1>1, <1>3, <1>4, <1>6, <1>7 DEF IP!Next, IP!Handler

LEMMA PullRefines ==
    ASSUME IInv, (\E p \in Pullers : Pull(Puller(p))) \/ Pull(Crash)
    PROVE  L!Next \/ phase' = phase
<1> USE DEF Pull, intake
<1>1. stage' = stage
  OBVIOUS
<1>2. ASSUME NEW p \in Pullers, Verify(p) PROVE L!Next \/ phase' = phase
  <2>1. cur[p] \in Requests
    BY <1>2 DEF Verify, IInv, PullInv, TypeOK
  <2> QED
    BY <1>1, <1>2, <2>1, VerifyRefines DEF L!Next
<1>3. ASSUME NEW p \in Pullers, Select(p) \/ Delete(p) \/ DeleteFails(p) \/ VerifyRaises(p)
      PROVE  phase' = phase
  BY <1>1, <1>3, NoneGoes DEF Select, Delete, DeleteFails, VerifyRaises
<1>4. Crash => phase' = phase
  BY <1>1, NoneGoes DEF Crash
<1> QED
  BY <1>2, <1>3, <1>4 DEF Puller

LEMMA StepRefines == IInv /\ [PipelineNext]_pipelineVars => [L!Next]_phase
<1>1. ASSUME UNCHANGED pipelineVars PROVE phase' = phase
  BY <1>1, NoneGoes DEF pipelineVars, intake, pull
<1> QED
  BY <1>1, IntakeRefines, PullRefines DEF PipelineNext

\* The three verifications are taken in their order, none is skipped and none
\* undone, for any number of requests, pullers, ends and locked tables.
THEOREM LifecycleHolds == PipelineSpec => LifecycleSpec
<1>1. phase = [r \in Requests |-> Phase(r)]
  BY DEF phase
<1>2. IInv /\ [PipelineNext]_pipelineVars => [L!Next]_[r \in Requests |-> Phase(r)]
  BY StepRefines DEF phase
<1> QED
  BY <1>2, LifecycleInit, InvHolds, PTL DEF PipelineSpec, LifecycleSpec, L!Spec

-----------------------------------------------------------------------------
(* A request is verified again only if another was rejected.               *)

Reported(r) == <<r, "rejected">> \in feedback \/ <<r, "verified">> \in feedback

\* A request is reported on once: what is still to be verified was not.
ReportInv ==
    /\ msg \notin mq
    /\ \A r \in Requests : Reported(r) =>
          stage[r] = "accepted" /\ r \notin mq /\ ~(hpc = "verify" /\ msg = r)

LEMMA ReportPreserved ==
    ASSUME IInv, ReportInv, [PipelineNext]_pipelineVars PROVE ReportInv'
<1> USE DEF ReportInv, Reported
<1>1. CASE UNCHANGED intake
  BY <1>1 DEF intake
<1>2. ASSUME IP!Next PROVE ReportInv'
  <2> USE DEF IInv, IntakeInv, IP!TypeOK, IP!Sets, IP!submission, IP!handler,
              IP!AccountedInv, IP!Accounted
  <2>1. ASSUME NEW q \in Requests, IP!Submission(q) PROVE ReportInv'
    <3>1. msg # NoRequest => stage[msg] = "accepted"
      OBVIOUS
    <3>2. CASE IP!Authorize(q) \/ IP!SendRaises(q)
      BY <3>2 DEF IP!Authorize, IP!SendRaises
    <3>3. CASE IP!Send(q)
      <4>1. /\ stage[q] = "sending" /\ stage' = [stage EXCEPT ![q] = "accepted"]
            /\ mq' = mq \cup {q} /\ UNCHANGED <<msg, feedback>>
            /\ hpc' = hpc \/ hpc' = "receive"
        BY <3>3 DEF IP!Send
      <4>2. msg \notin mq'
        BY <3>1, <4>1, Assumptions
      <4> QED
        BY <4>1, <4>2
    <3> QED
      BY <2>1, <3>2, <3>3 DEF IP!Submission
  <2>2. CASE IP!Start \/ IP!Signal
    BY <2>2 DEF IP!Start, IP!Signal
  <2>3. CASE IP!Stop
    BY <2>3, Assumptions DEF IP!Stop
  <2>4. CASE IP!Receive
    BY <2>4 DEF IP!Receive
  <2>5. CASE IP!Verify
    <3>1. msg \in Requests /\ stage[msg] = "accepted"
      BY <2>5 DEF IP!Verify
    <3>2. /\ feedback' \subseteq feedback \cup {<<msg, "rejected">>, <<msg, "verified">>}
          /\ hpc' # "verify" /\ UNCHANGED <<stage, mq, msg>>
      BY <2>5 DEF IP!Verify
    <3> QED
      BY <3>1, <3>2
  <2>6. CASE IP!Map \/ IP!Save
    <3>1. /\ feedback' \subseteq feedback \cup {<<current, "failed">>, <<current, "completed">>}
          /\ hpc' # "verify" /\ UNCHANGED <<stage, mq, msg>>
      BY <2>6 DEF IP!Map, IP!Save
    <3> QED
      BY <3>1
  <2>7. CASE IP!SaveFails \/ IP!Rearm
    BY <2>7, Assumptions DEF IP!SaveFails, IP!Rearm
  <2> QED
    BY <1>2, <2>1, <2>2, <2>3, <2>4, <2>5, <2>6, <2>7 DEF IP!Next, IP!Handler
<1> QED
  BY <1>1, <1>2, IntakeIsIntake DEF PipelineNext, Intake, Pull, pipelineVars

\* The number of pullers, and those that have read the row of r and go on to
\* delete it.
n == Cardinality(Pullers)

Deleting(r) == {p \in Pullers : pc[p] = "delete" /\ cur[p] = r}

\* The pulls of a request that were, and those there may still be without a
\* further step of the VoR partition: n of the row, or one of each puller that
\* read it before it was deleted, and n of the row that is about to be saved.
Carried(r) == hpc \in {"map", "save"} /\ current = r

InTable(r) == IF r \in rows THEN n ELSE Cardinality(Deleting(r))

OnItsWay(r) == IF Carried(r) THEN n ELSE 0

Load(r) == pulls[r] + InTable(r) + OnItsWay(r)

\* What this takes: the report of its own verification, or a rejection.
Passed(r) == IF <<r, "verified">> \in feedback THEN 1 ELSE 0

Grounds(r) == Passed(r) + Cardinality(Rejections)

LoadInv == \A r \in Requests : Load(r) <= n * Grounds(r)

LEMMA PullersDeleting ==
    ASSUME IsFiniteSet(Pullers), NEW r
    PROVE  /\ n \in Nat
           /\ Cardinality(Deleting(r)) \in 0 .. n
           /\ Cardinality(Deleting(r))' \in 0 .. n
           /\ Deleting(r)' \subseteq Deleting(r) =>
                  Cardinality(Deleting(r))' <= Cardinality(Deleting(r))
           /\ \A p \in Deleting(r) : Deleting(r)' = Deleting(r) \ {p} =>
                  Cardinality(Deleting(r))' = Cardinality(Deleting(r)) - 1
<1>1. Deleting(r) \subseteq Pullers /\ Deleting(r)' \subseteq Pullers
  BY DEF Deleting
<1>2. IsFiniteSet(Deleting(r)) /\ IsFiniteSet(Deleting(r)')
  BY <1>1, FS_Subset
<1>3. /\ n \in Nat
      /\ Cardinality(Deleting(r)) \in Nat /\ Cardinality(Deleting(r)) <= n
      /\ Cardinality(Deleting(r)') \in Nat /\ Cardinality(Deleting(r)') <= n
  BY <1>1, <1>2, FS_Subset, FS_CardinalityType DEF n
<1>4. Deleting(r)' \subseteq Deleting(r) =>
          Cardinality(Deleting(r)') <= Cardinality(Deleting(r))
  BY <1>2, FS_Subset
<1>5. \A p \in Deleting(r) : Deleting(r)' = Deleting(r) \ {p} =>
          Cardinality(Deleting(r)') = Cardinality(Deleting(r)) - 1
  BY <1>2, FS_RemoveElement
<1> QED
  BY <1>3, <1>4, <1>5

\* One ground more makes room for n pulls more.
LEMMA OneGroundMore ==
    ASSUME NEW k \in Nat, NEW g \in Nat
    PROVE  k * g \in Nat /\ k * (g + 1) = k * g + k
OBVIOUS

\* The number of rejections is one, and a new one adds one.
LEMMA RejectionsCount ==
    /\ Cardinality(Rejections) \in Nat
    /\ Cardinality(Rejections)' \in Nat
    /\ Rejections' = Rejections => Cardinality(Rejections)' = Cardinality(Rejections)
    /\ \A r \in Requests : (r \notin Rejections /\ Rejections' = Rejections \cup {r}) =>
           Cardinality(Rejections)' = Cardinality(Rejections) + 1
<1>1. IsFiniteSet(Rejections) /\ IsFiniteSet(Rejections')
  BY FS_Subset, Assumptions DEF Rejections
<1> QED
  BY <1>1, FS_CardinalityType, FS_AddElement

\* What the two sides of LoadInv are made of, before a step and after it.
LEMMA LoadTypes ==
    ASSUME IsFiniteSet(Pullers), TypeOK, NEW r \in Requests, pulls'[r] \in Nat
    PROVE  /\ n \in Nat
           /\ pulls[r] \in Nat /\ InTable(r) \in 0 .. n /\ OnItsWay(r) \in 0 .. n
           /\ InTable(r)' \in 0 .. n /\ OnItsWay(r)' \in 0 .. n
           /\ Load(r) \in Nat /\ Load(r)' \in Nat
           /\ Grounds(r) \in Nat /\ Grounds(r)' \in Nat
<1>1. /\ n \in Nat /\ Cardinality(Deleting(r)) \in 0 .. n
      /\ Cardinality(Deleting(r))' \in 0 .. n
  BY PullersDeleting
<1>2. n' = n
  BY DEF n
<1>3. /\ pulls[r] \in Nat /\ InTable(r) \in 0 .. n /\ OnItsWay(r) \in 0 .. n
      /\ InTable(r)' \in 0 .. n /\ OnItsWay(r)' \in 0 .. n
  BY <1>1, <1>2 DEF TypeOK, InTable, OnItsWay
<1>4. Load(r) \in Nat /\ Load(r)' \in Nat
  BY <1>1, <1>3 DEF Load
<1>5. Grounds(r) \in Nat /\ Grounds(r)' \in Nat
  BY RejectionsCount DEF Grounds, Passed
<1> QED
  BY <1>1, <1>3, <1>4, <1>5

\* A step that adds nothing to the load of a request keeps the balance if it
\* takes no ground away, and one that adds n if it brings a ground.
LEMMA LoadKept ==
    ASSUME IsFiniteSet(Pullers), TypeOK, LoadInv, NEW r \in Requests, pulls'[r] \in Nat,
           \/ Load(r)' <= Load(r) /\ Grounds(r)' = Grounds(r)
           \/ Load(r)' <= Load(r) + n /\ Grounds(r)' = Grounds(r) + 1
    PROVE  Load(r)' <= n * Grounds(r)'
<1>1. /\ n \in Nat /\ Load(r) \in Nat /\ Load(r)' \in Nat /\ Grounds(r) \in Nat
      /\ Load(r) <= n * Grounds(r)
  BY LoadTypes DEF LoadInv
<1>2. n * Grounds(r) \in Nat /\ n * (Grounds(r) + 1) = n * Grounds(r) + n
  BY <1>1, OneGroundMore
<1>3. CASE Load(r)' <= Load(r) /\ Grounds(r)' = Grounds(r)
  BY <1>1, <1>2, <1>3
<1>4. CASE Load(r)' <= Load(r) + n /\ Grounds(r)' = Grounds(r) + 1
  BY <1>1, <1>2, <1>4
<1> QED
  BY <1>3, <1>4

\* A verification of the VoR partition carries a request on, its own one or,
\* with a rejection, the one before.
LEMMA LoadVerify ==
    ASSUME IsFiniteSet(Pullers), IInv, ReportInv, LoadInv, IP!Verify,
           UNCHANGED <<rows, pulls, pc, cur>>, NEW r \in Requests
    PROVE  Load(r)' <= n * Grounds(r)'
<1> USE DEF IInv, IntakeInv, IP!TypeOK, IP!Sets, PullInv
<1>1. msg \in Requests /\ hpc = "verify" /\ ~Reported(msg)
  BY DEF IP!Verify, ReportInv
<1>2. pulls'[r] = pulls[r] /\ pulls[r] \in Nat /\ InTable(r)' = InTable(r)
  BY DEF TypeOK, InTable, Deleting, n
<1>3. ~Carried(r) /\ OnItsWay(r) = 0
  BY <1>1 DEF Carried, OnItsWay
<1>4. /\ n \in Nat /\ InTable(r) \in 0 .. n /\ OnItsWay(r)' \in 0 .. n
      /\ Load(r) \in Nat /\ Grounds(r) \in Nat
  BY <1>2, LoadTypes
<1>5. Load(r)' <= Load(r) + n
  BY <1>2, <1>3, <1>4 DEF Load
<1>6. CASE msg \in IP!Plausible
  <2>1. feedback' = feedback \cup {<<msg, "verified">>} /\ current' = msg
    BY <1>6 DEF IP!Verify
  <2>2. Rejections' = Rejections
    BY <2>1 DEF Rejections
  <2>3. Cardinality(Rejections)' = Cardinality(Rejections) /\ Cardinality(Rejections) \in Nat
    BY <2>2, RejectionsCount
  <2>4. CASE r = msg
    <3>1. Passed(r) = 0 /\ Passed(r)' = 1
      BY <1>1, <2>1, <2>4 DEF Passed, Reported
    <3>2. Grounds(r)' = Grounds(r) + 1
      BY <2>3, <3>1 DEF Grounds
    <3> QED
      BY <1>2, <1>5, <3>2, LoadKept
  <2>5. CASE r # msg
    <3>1. Passed(r)' = Passed(r)
      BY <2>1, <2>5 DEF Passed
    <3>2. Grounds(r)' = Grounds(r)
      BY <2>3, <3>1 DEF Grounds
    <3>3. OnItsWay(r)' = 0
      BY <2>1, <2>5 DEF OnItsWay, Carried
    <3>4. Load(r)' = Load(r)
      BY <1>2, <1>3, <3>3 DEF Load
    <3> QED
      BY <1>2, <1>4, <3>2, <3>4, LoadKept
  <2> QED
    BY <2>4, <2>5
<1>7. CASE msg \notin IP!Plausible
  <2>1. feedback' = feedback \cup {<<msg, "rejected">>}
    BY <1>7 DEF IP!Verify
  <2>2. Rejections' = Rejections \cup {msg} /\ msg \notin Rejections
    BY <1>1, <2>1 DEF Rejections, Reported
  <2>3. /\ Cardinality(Rejections) \in Nat
        /\ Cardinality(Rejections)' = Cardinality(Rejections) + 1
    <3>1. PICK q \in Requests : q = msg
      BY <1>1
    <3> QED
      BY <2>2, <3>1, RejectionsCount
  <2>4. Passed(r)' = Passed(r) /\ Passed(r) \in Nat
    BY <2>1 DEF Passed
  <2>5. Grounds(r)' = Grounds(r) + 1
    BY <2>3, <2>4 DEF Grounds
  <2> QED
    BY <1>2, <1>5, <2>5, LoadKept
<1> QED
  BY <1>6, <1>7

LEMMA LoadIntake ==
    ASSUME IsFiniteSet(Pullers), IInv, ReportInv, LoadInv, Intake(I!Next)
    PROVE  LoadInv'
<1> USE DEF Intake, pull
<1> SUFFICES ASSUME NEW r \in Requests PROVE Load(r)' <= n * Grounds(r)'
  BY DEF LoadInv, n
<1>1. IP!Next /\ UNCHANGED <<pulls, pc, cur>>
  BY IntakeIsIntake
<1>2. TypeOK /\ pulls'[r] = pulls[r] /\ pulls[r] \in Nat
  BY <1>1 DEF IInv, PullInv, TypeOK
<1>3. /\ n \in Nat /\ InTable(r) \in 0 .. n /\ OnItsWay(r) \in 0 .. n
      /\ InTable(r)' \in 0 .. n /\ OnItsWay(r)' \in 0 .. n
      /\ Load(r) \in Nat /\ Grounds(r) \in Nat
  BY <1>2, LoadTypes
<1>4. ASSUME rows' = rows PROVE InTable(r)' = InTable(r)
  BY <1>1, <1>4 DEF InTable, Deleting, n
<1>5. ASSUME \A o \in {"rejected", "verified"}, q \in Requests :
                 <<q, o>> \in feedback' <=> <<q, o>> \in feedback
      PROVE  Grounds(r)' = Grounds(r)
  <2>1. Rejections' = Rejections /\ Passed(r)' = Passed(r)
    BY <1>5 DEF Rejections, Passed
  <2> QED
    BY <2>1 DEF Grounds
<1>6. CASE IP!Verify
  <2>1. rows' = rows
    BY <1>6 DEF IP!Verify
  <2> QED
    BY <1>1, <1>6, <2>1, LoadVerify
<1>7. CASE IP!Save
  <2>1. /\ feedback' = feedback \cup {<<current, "completed">>}
        /\ hpc = "save" /\ hpc' = "rearm" /\ rows' = rows \cup {current}
    BY <1>7 DEF IP!Save
  <2>2. Grounds(r)' = Grounds(r)
    BY <1>5, <2>1
  <2>3. OnItsWay(r)' = 0
    BY <2>1 DEF OnItsWay, Carried
  <2>4. CASE r = current
    <3>1. OnItsWay(r) = n
      BY <2>1, <2>4 DEF OnItsWay, Carried
    <3>2. Load(r)' <= Load(r)
      BY <1>2, <1>3, <2>3, <3>1 DEF Load
    <3> QED
      BY <1>2, <2>2, <3>2, LoadKept
  <2>5. CASE r # current
    <3>1. InTable(r)' = InTable(r)
      BY <1>1, <2>1, <2>5 DEF InTable, Deleting, n
    <3>2. Load(r)' <= Load(r)
      BY <1>2, <1>3, <2>3, <3>1 DEF Load
    <3> QED
      BY <1>2, <2>2, <3>2, LoadKept
  <2> QED
    BY <2>4, <2>5
<1>8. CASE IP!Map
  <2>1. /\ feedback' \subseteq feedback \cup {<<current, "failed">>}
        /\ feedback \subseteq feedback'
        /\ hpc = "map" /\ rows' = rows /\ current' = current
    BY <1>8, <1>2 DEF IP!Map
  <2>2. Grounds(r)' = Grounds(r)
    BY <1>5, <2>1
  <2>3. OnItsWay(r)' <= OnItsWay(r)
    BY <1>3, <2>1 DEF OnItsWay, Carried, n
  <2>4. Load(r)' <= Load(r)
    BY <1>2, <1>3, <1>4, <2>1, <2>3 DEF Load
  <2> QED
    BY <1>2, <2>2, <2>4, LoadKept
<1>9. ASSUME UNCHANGED <<feedback, rows>>,
             UNCHANGED <<hpc, current>> \/ hpc' \notin {"map", "save"}
      PROVE  Load(r)' <= n * Grounds(r)'
  <2>1. Grounds(r)' = Grounds(r)
    BY <1>5, <1>9
  <2>2. OnItsWay(r)' <= OnItsWay(r)
    BY <1>3, <1>9 DEF OnItsWay, Carried, n
  <2>3. Load(r)' <= Load(r)
    BY <1>2, <1>3, <1>4, <1>9, <2>2 DEF Load
  <2> QED
    BY <1>2, <2>1, <2>3, LoadKept
<1>10. ASSUME NEW q \in Requests, IP!Submission(q)
       PROVE  /\ UNCHANGED <<feedback, rows>>
              /\ UNCHANGED <<hpc, current>> \/ hpc' \notin {"map", "save"}
  BY <1>10 DEF IP!Submission, IP!Authorize, IP!SendRaises, IP!Send, IP!handler
<1>11. CASE IP!Start \/ IP!Signal \/ IP!Stop
  BY <1>9, <1>11 DEF IP!Start, IP!Signal, IP!Stop, IP!handler
<1>12. CASE IP!Receive \/ IP!SaveFails \/ IP!Rearm
  BY <1>9, <1>12 DEF IP!Receive, IP!SaveFails, IP!Rearm
<1> QED
  BY <1>1, <1>6, <1>7, <1>8, <1>9, <1>10, <1>11, <1>12 DEF IP!Next, IP!Handler

\* A puller that reads a row, or deletes it, uses up what the row allowed.
LEMMA LoadPull ==
    ASSUME IsFiniteSet(Pullers), IInv, LoadInv,
           (\E p \in Pullers : Pull(Puller(p))) \/ Pull(Crash)
    PROVE  LoadInv'
<1> USE DEF Pull, intake
<1> SUFFICES ASSUME NEW r \in Requests PROVE Load(r)' <= n * Grounds(r)'
  BY DEF LoadInv, n
<1>1. (\E p \in Pullers : Puller(p)) \/ Crash
  OBVIOUS
<1>2. TypeOK /\ TypeOK' /\ pulls[r] \in Nat /\ pulls'[r] \in Nat
  <2>1. TypeOK'
    BY <1>1, TypePreserved DEF IInv, PullInv, Next
  <2> QED
    BY <2>1 DEF IInv, PullInv, TypeOK
<1>3. Grounds(r)' = Grounds(r) /\ OnItsWay(r)' = OnItsWay(r)
  BY DEF Grounds, Passed, Rejections, OnItsWay, Carried, n
<1>4. /\ n \in Nat /\ InTable(r) \in 0 .. n /\ InTable(r)' \in 0 .. n
      /\ OnItsWay(r) \in 0 .. n
  BY <1>2, LoadTypes
<1>5. ASSUME pulls'[r] + InTable(r)' <= pulls[r] + InTable(r)
      PROVE  Load(r)' <= n * Grounds(r)'
  <2>1. Load(r)' <= Load(r)
    BY <1>2, <1>3, <1>4, <1>5 DEF Load
  <2> QED
    BY <1>2, <1>3, <2>1, LoadKept
\* Nobody joins those that delete, and nothing is pulled.
<1>6. ASSUME rows' = rows, pulls' = pulls,
             r \notin rows => Deleting(r)' \subseteq Deleting(r)
      PROVE  Load(r)' <= n * Grounds(r)'
  <2>1. InTable(r)' <= InTable(r)
    BY <1>6, PullersDeleting DEF InTable, n
  <2> QED
    BY <1>2, <1>4, <1>5, <1>6, <2>1
<1>7. ASSUME NEW p \in Pullers, Select(p) PROVE Load(r)' <= n * Grounds(r)'
  <2>1. PICK q \in Requests : /\ First(q)
                              /\ IF q \in Dated THEN Goto(p, "delete", q)
                                               ELSE Goto(p, "select", NoRequest)
    BY <1>7 DEF Select
  <2>2. r \notin rows => Deleting(r)' \subseteq Deleting(r)
    BY <1>2, <2>1 DEF First, Goto, Deleting, TypeOK
  <2> QED
    BY <1>6, <1>7, <2>2 DEF Select
<1>8. ASSUME NEW p \in Pullers, Delete(p) PROVE Load(r)' <= n * Grounds(r)'
  <2>1. CASE cur[p] = r
    <3>1. p \in Deleting(r) /\ Deleting(r)' = Deleting(r) \ {p}
      BY <1>2, <1>8, <2>1 DEF Delete, Goto, Deleting, TypeOK
    <3>2. /\ Cardinality(Deleting(r))' = Cardinality(Deleting(r)) - 1
          /\ Cardinality(Deleting(r)) \in 0 .. n
      BY <3>1, PullersDeleting
    <3>3. r \notin rows' /\ pulls'[r] = pulls[r] + 1
      BY <1>2, <1>8, <2>1 DEF Delete, TypeOK
    <3>4. InTable(r)' = Cardinality(Deleting(r)) - 1
      BY <3>2, <3>3 DEF InTable
    <3>5. Cardinality(Deleting(r)) <= InTable(r)
      BY <1>4, <3>2 DEF InTable
    <3>6. pulls'[r] + InTable(r)' <= pulls[r] + InTable(r)
      BY <1>2, <1>4, <3>2, <3>3, <3>4, <3>5
    <3> QED
      BY <1>5, <3>6
  <2>2. CASE cur[p] # r
    <3>1. pulls'[r] = pulls[r] /\ (r \in rows' <=> r \in rows)
      BY <1>2, <1>8, <2>2 DEF Delete, TypeOK
    <3>2. Deleting(r)' = Deleting(r)
      BY <1>2, <1>8, <2>2 DEF Delete, Goto, Deleting, TypeOK
    <3>3. InTable(r)' = InTable(r)
      BY <3>1, <3>2 DEF InTable, n
    <3> QED
      BY <1>2, <1>4, <1>5, <3>1, <3>3
  <2> QED
    BY <2>1, <2>2
<1>9. ASSUME NEW p \in Pullers, DeleteFails(p) \/ Verify(p) \/ VerifyRaises(p)
      PROVE  Load(r)' <= n * Grounds(r)'
  <2>1. UNCHANGED <<rows, pulls>> /\ Deleting(r)' \subseteq Deleting(r)
    BY <1>2, <1>9 DEF DeleteFails, Verify, VerifyRaises, Goto, Deleting, TypeOK
  <2> QED
    BY <1>6, <2>1
<1>10. CASE Crash
  <2>1. UNCHANGED <<rows, pulls>> /\ Deleting(r)' \subseteq Deleting(r)
    BY <1>10 DEF Crash, Deleting
  <2> QED
    BY <1>6, <2>1
<1> QED
  BY <1>1, <1>7, <1>8, <1>9, <1>10 DEF Puller

LEMMA LoadPreserved ==
    ASSUME IsFiniteSet(Pullers)
    PROVE  IInv /\ ReportInv /\ LoadInv /\ [PipelineNext]_pipelineVars => LoadInv'
<1> SUFFICES ASSUME IInv, ReportInv, LoadInv, [PipelineNext]_pipelineVars PROVE LoadInv'
  OBVIOUS
<1>1. CASE UNCHANGED pipelineVars
  BY <1>1 DEF pipelineVars, intake, pull, LoadInv, Load, InTable, OnItsWay, Deleting,
              Carried, Grounds, Passed, Rejections, n
<1> QED
  BY <1>1, LoadIntake, LoadPull DEF PipelineNext

\* Each puller begins to verify a request once, and once more for each request
\* the VoR partition rejected: for the two the reloader starts and any other
\* number, whatever ends, is locked, raises or comes again.
THEOREM AgainByRejection ==
    ASSUME IsFiniteSet(Pullers)
    PROVE  PipelineSpec => []AgainOnlyByRejection
<1>1. PipelineInit => ReportInv /\ LoadInv
  <2> SUFFICES ASSUME PipelineInit PROVE ReportInv /\ LoadInv
    OBVIOUS
  <2>1. ReportInv
    BY DEF PipelineInit, I!Init, ReportInv, Reported
  <2>2. ASSUME NEW r \in Requests PROVE Load(r) <= n * Grounds(r)
    <3>1. Deleting(r) = {}
      BY DEF PipelineInit, Init, Deleting
    <3>2. Load(r) = 0
      BY <3>1, FS_EmptySet
         DEF PipelineInit, I!Init, Init, Load, InTable, OnItsWay, Carried
    <3>3. n \in Nat /\ Grounds(r) \in Nat
      BY PullersDeleting, RejectionsCount DEF Grounds, Passed
    <3> QED
      BY <3>2, <3>3, OneGroundMore
  <2> QED
    BY <2>1, <2>2 DEF LoadInv
<1>2. IInv /\ ReportInv /\ [PipelineNext]_pipelineVars => ReportInv'
  BY ReportPreserved
<1>3. IInv /\ ReportInv /\ LoadInv /\ [PipelineNext]_pipelineVars => LoadInv'
  BY LoadPreserved
<1>4. IInv /\ LoadInv => AgainOnlyByRejection
  <2> SUFFICES ASSUME IInv, LoadInv, NEW r \in Requests
               PROVE  pulls[r] <= n * (1 + Cardinality(Rejections))
    BY DEF AgainOnlyByRejection, n
  <2>1. pulls[r] \in Nat /\ n \in Nat /\ Cardinality(Deleting(r)) \in 0 .. n
    BY PullersDeleting DEF IInv, PullInv, TypeOK
  <2>2. pulls[r] <= Load(r) /\ Load(r) \in Nat
    BY <2>1 DEF Load, InTable, OnItsWay
  <2>3. Cardinality(Rejections) \in Nat
    BY RejectionsCount
  <2>4. /\ n * Cardinality(Rejections) \in Nat
        /\ n * (Cardinality(Rejections) + 1) = n * Cardinality(Rejections) + n
    BY <2>1, <2>3, OneGroundMore
  <2>5. Grounds(r) \in {Cardinality(Rejections), Cardinality(Rejections) + 1}
    BY <2>3 DEF Grounds, Passed
  <2>6. Load(r) <= n * Grounds(r)
    BY DEF LoadInv
  <2> QED
    BY <2>1, <2>2, <2>3, <2>4, <2>5, <2>6
<1> QED
  BY <1>1, <1>2, <1>3, <1>4, InvHolds, PTL DEF PipelineSpec

-----------------------------------------------------------------------------
(* What AllPulledUnlessBlocked and DecidedUnlessStuck exempt.              *)

\* A row whose timestamp cannot be read stays, and no puller takes up a row that
\* is selected after it.
UnreadableBlocks ==
    \A q \in rows \ Dated :
        /\ q \in rows'
        /\ \A p \in Pullers :
               pc[p] = "select" /\ pc'[p] = "delete" => Precedes(cur'[p], q)

LEMMA PullBlocked == ASSUME TypeOK, [Next]_vars PROVE UnreadableBlocks
<1> SUFFICES ASSUME NEW q \in rows \ Dated
             PROVE  /\ q \in rows'
                    /\ \A p \in Pullers :
                          pc[p] = "select" /\ pc'[p] = "delete" => Precedes(cur'[p], q)
  BY DEF UnreadableBlocks
<1> USE DEF TypeOK
<1>1. ASSUME NEW p \in Pullers, Select(p)
      PROVE  \A x \in Pullers :
                 pc[x] = "select" /\ pc'[x] = "delete" => Precedes(cur'[x], q)
  <2>1. PICK r \in Requests : /\ First(r)
                              /\ IF r \in Dated THEN Goto(p, "delete", r)
                                               ELSE Goto(p, "select", NoRequest)
    BY <1>1 DEF Select
  <2>2. Precedes(r, q)
    BY <2>1 DEF First
  <2> HIDE DEF Precedes
  <2> QED
    BY <2>1, <2>2 DEF Goto
<1>2. ASSUME NEW p \in Pullers,
             Delete(p) \/ DeleteFails(p) \/ Verify(p) \/ VerifyRaises(p)
      PROVE  \A x \in Pullers : ~(pc[x] = "select" /\ pc'[x] = "delete")
  BY <1>2 DEF Delete, DeleteFails, Verify, VerifyRaises, Goto
<1>3. CASE (\E r \in Requests : SaveRow(r)) \/ Crash \/ UNCHANGED vars
  BY <1>3 DEF SaveRow, Crash, vars
<1>4. q \in rows'
  BY DEF Next, Puller, SaveRow, Select, Delete, DeleteFails, Verify, VerifyRaises,
         Crash, vars
<1> QED
  BY <1>1, <1>2, <1>3, <1>4 DEF Next, Puller

\* One unreadable timestamp (main.py:42) stops the pull of everything behind it,
\* for ever and in both pullers: no step of the CPC-side partition, none of the
\* VoR partition and no restart removes the row.
THEOREM UnreadableRowBlocks ==
    /\ Spec => [][UnreadableBlocks]_vars
    /\ PipelineSpec => [][UnreadableBlocks]_pipelineVars
<1>1. TypeOK /\ [Next]_vars => [UnreadableBlocks]_vars
  BY PullBlocked
<1>2. IInv /\ [PipelineNext]_pipelineVars => [UnreadableBlocks]_pipelineVars
  <2> SUFFICES ASSUME IInv, PipelineNext PROVE UnreadableBlocks
    OBVIOUS
  <2>1. CASE (\E p \in Pullers : Pull(Puller(p))) \/ Pull(Crash)
    BY <2>1, PullBlocked DEF Pull, Next, IInv, PullInv
  <2>2. CASE Intake(I!Next)
    <3>1. rows \subseteq rows' /\ pc' = pc
      BY <2>2, IntakeIsIntake, IntakeFootprint DEF Intake, pull, IInv, IntakeInv
    <3> QED
      BY <3>1 DEF UnreadableBlocks
  <2> QED
    BY <2>1, <2>2 DEF PipelineNext
<1> QED
  BY <1>1, <1>2, TypeCorrect, InvHolds, PTL DEF Spec, PipelineSpec
===============================================================================

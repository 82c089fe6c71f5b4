------------------------- MODULE RequestIntakeProofs -------------------------
(***************************************************************************)
(* Theorems about the intake of requests, for any finite set of requests,  *)
(* any priorities, rules, rule sets and queue limit, and any number of     *)
(* stops of the VoR process.                                               *)
(***************************************************************************)
EXTENDS RequestIntake, FiniteSetTheorems, TLAPS

\* The queue is finite, and sending to a queue with a place left keeps it within
\* its limit, as does receiving from it.
LEMMA QueueBound ==
    ASSUME TypeOK, NEW r \in Requests
    PROVE  /\ Cardinality(mq) < MqMax => Cardinality(mq \cup {r}) <= MqMax
           /\ Cardinality(mq \ {r}) <= MqMax
           /\ Cardinality(mq) \in Nat
<1>1. IsFiniteSet(mq)
  BY FS_Subset, RequestAssumption DEF TypeOK, Sets
<1>2. Cardinality(mq) \in Nat
  BY <1>1, FS_CardinalityType
<1>3. Cardinality(mq \cup {r}) <= Cardinality(mq) + 1
  <2>1. Cardinality(mq \cup {r}) =
           IF r \in mq THEN Cardinality(mq) ELSE Cardinality(mq) + 1
    BY <1>1, FS_AddElement
  <2> QED
    BY <1>2, <2>1
<1>4. Cardinality(mq \ {r}) <= Cardinality(mq)
  <2>1. Cardinality(mq \ {r}) =
           IF r \in mq THEN Cardinality(mq) - 1 ELSE Cardinality(mq)
    BY <1>1, FS_RemoveElement
  <2> QED
    BY <1>2, <2>1
<1>5. /\ Cardinality(mq \cup {r}) \in Nat
      /\ Cardinality(mq \ {r}) \in Nat
  BY <1>1, FS_AddElement, FS_RemoveElement, FS_CardinalityType
<1> QED
  BY <1>2, <1>3, <1>4, <1>5, RequestAssumption DEF TypeOK

\* The time of arrival of a request is a number.
LEMMA ArrivalType == Cardinality(Accepted) + 1 \in Nat
<1>1. IsFiniteSet(Accepted)
  BY FS_Subset, RequestAssumption DEF Accepted
<1> QED
  BY <1>1, FS_CardinalityType

\* The actions of the handler's thread keep every variable in its type.
LEMMA HandlerType == TypeOK /\ Handler => TypeOK'
<1> SUFFICES ASSUME TypeOK, Handler PROVE TypeOK'
  OBVIOUS
<1> USE DEF TypeOK, Sets, submission, Results
<1>1. CASE Receive
  <2>1. CASE proc = "up"
    <3>1. PICK r \in mq : mq' = mq \ {r} /\ msg' = r /\ hpc' = "verify"
      BY <1>1, <2>1 DEF Receive
    <3>2. Cardinality(mq') <= MqMax
      BY <3>1, QueueBound
    <3> QED
      BY <1>1, <3>1, <3>2, RequestAssumption DEF Receive
  <2>2. CASE proc # "up"
    BY <1>1, <2>2 DEF Receive
  <2> QED
    BY <2>1, <2>2
<1>2. CASE Verify
  <2>1. msg \in Requests
    BY <1>2 DEF Verify
  <2>2. verified' \in Requests \cup {NoRequest} /\ current' = verified'
    BY <1>2, <2>1 DEF Verify
  <2>3. feedback' \subseteq Requests \X Results
    BY <1>2, <2>1 DEF Verify
  <2> QED
    BY <1>2, <2>1, <2>2, <2>3 DEF Verify
<1>3. CASE Map
  <2>1. current \in Requests
    BY <1>3 DEF Map
  <2>2. feedback' \subseteq Requests \X Results
    BY <1>3, <2>1 DEF Map
  <2> QED
    BY <1>3, <2>1, <2>2 DEF Map
<1>4. CASE Save
  <2>1. current \in Requests
    BY <1>4 DEF Save
  <2> QED
    BY <1>4, <2>1 DEF Save
<1>5. CASE SaveFails
  <2>1. current \in Requests
    BY <1>5 DEF SaveFails
  <2> QED
    BY <1>5, <2>1 DEF SaveFails
<1>6. CASE Rearm
  BY <1>6 DEF Rearm
<1> QED
  BY <1>1, <1>2, <1>3, <1>4, <1>5, <1>6 DEF Handler

\* No step takes a variable out of its type.
LEMMA TypePreserved == TypeOK /\ [Next]_vars => TypeOK'
<1> SUFFICES ASSUME TypeOK, [Next]_vars PROVE TypeOK'
  OBVIOUS
<1> USE DEF TypeOK, Sets, submission, handler
<1>1. ASSUME NEW r \in Requests, Authorize(r) PROVE TypeOK'
  BY <1>1 DEF Authorize
<1>2. ASSUME NEW r \in Requests, SendRaises(r) PROVE TypeOK'
  BY <1>2 DEF SendRaises
<1>3. ASSUME NEW r \in Requests, Send(r) PROVE TypeOK'
  <2>1. Cardinality(mq') <= MqMax
    BY <1>3, QueueBound DEF Send
  <2>2. arrival' \in [Requests -> Nat]
    BY <1>3, ArrivalType DEF Send
  <2>3. mq' \subseteq Requests /\ stage' \in [Requests -> {"new", "sending", "accepted", "refused"}]
    BY <1>3 DEF Send
  <2>4. /\ armed' \in BOOLEAN /\ hpc' \in {hpc, "receive"}
        /\ UNCHANGED <<proc, msg, current, verified, rows, feedback, lost, stops>>
    BY <1>3 DEF Send
  <2> QED
    BY <2>1, <2>2, <2>3, <2>4
<1>4. CASE Start
  BY <1>4 DEF Start
<1>5. CASE Signal
  BY <1>5 DEF Signal
<1>6. CASE Stop
  <2>1. stops' \in 0 .. MaxStops
    BY <1>6, RequestAssumption DEF Stop
  <2>2. lost' \subseteq Requests
    BY <1>6 DEF Stop
  <2> QED
    BY <1>6, <2>1, <2>2 DEF Stop
<1>7. CASE Handler
  BY <1>7, HandlerType
<1>8. CASE UNCHANGED vars
  BY <1>8 DEF vars
<1> QED
  BY <1>1, <1>2, <1>3, <1>4, <1>5, <1>6, <1>7, <1>8 DEF Next, Submission

\* The initial values have their types.
LEMMA TypeInit == Init => TypeOK
<1>1. Cardinality({}) = 0
  BY FS_EmptySet
<1>2. Init => Sets
  BY DEF Init, Sets
<1>3. Init => Cardinality(mq) <= MqMax
  BY <1>1, RequestAssumption DEF Init
<1>4. Init => stops \in 0 .. MaxStops
  BY RequestAssumption DEF Init
<1> QED
  BY <1>2, <1>3, <1>4 DEF Init, TypeOK

\* Every variable keeps its type, the handler holds the requests its place in
\* the code says, and the queue stays within its limit.
THEOREM TypeCorrect == Spec => []TypeOK
BY TypeInit, TypePreserved, PTL DEF Spec

-----------------------------------------------------------------------------
(* Registration.                                                           *)

\* A process that is down has no handler: what Start needs, beyond Registered,
\* to register without a handler at work.
RegisteredInv == Registered /\ (proc = "down" => hpc = "idle")

\* Every step keeps the registration and the handler's thread apart.
LEMMA RegisteredPreserved ==
    TypeOK /\ RegisteredInv /\ [Next]_vars => RegisteredInv'
<1> SUFFICES ASSUME TypeOK, RegisteredInv, [Next]_vars PROVE RegisteredInv'
  OBVIOUS
<1> USE DEF RegisteredInv, Registered, submission, handler
<1>1. ASSUME NEW r \in Requests, Submission(r) PROVE RegisteredInv'
  BY <1>1 DEF Submission, Authorize, SendRaises, Send
<1>2. CASE Start
  BY <1>2 DEF Start
<1>3. CASE Signal
  BY <1>3 DEF Signal
<1>4. CASE Stop
  BY <1>4 DEF Stop
<1>5. CASE Handler
  <2> USE <1>5 DEF TypeOK
  <2>1. CASE Receive
    BY <2>1 DEF Receive
  <2>2. CASE Verify
    BY <2>2 DEF Verify
  <2>3. CASE Map
    BY <2>3 DEF Map
  <2>4. CASE Save
    BY <2>4 DEF Save
  <2>5. CASE SaveFails
    BY <2>5 DEF SaveFails
  <2>6. CASE Rearm
    BY <2>6 DEF Rearm
  <2> QED
    BY <2>1, <2>2, <2>3, <2>4, <2>5, <2>6 DEF Handler
<1>6. CASE UNCHANGED vars
  BY <1>6 DEF vars
<1> QED
  BY <1>1, <1>2, <1>3, <1>4, <1>5, <1>6 DEF Next

\* The running partition is registered for a notification exactly when no handler
\* is at work, whatever the outcome of the requests handled before.
THEOREM AlwaysRegistered == Spec => []Registered
<1>1. Init => RegisteredInv
  BY DEF Init, RegisteredInv, Registered
<1>2. RegisteredInv => Registered
  BY DEF RegisteredInv
<1> QED
  BY <1>1, <1>2, RegisteredPreserved, TypeCorrect, PTL DEF Spec

-----------------------------------------------------------------------------
(* What is stored was verified.                                            *)

\* The verifier's verified_request is a request that passed the rules after its
\* issuer passed step one, and it is the one the handler maps.  Everything on
\* its way to the verifier has passed step one.
VerifiedInv ==
    /\ VerifiedOnly
    /\ verified # NoRequest => /\ verified \in Allowed \cap Plausible
                               /\ <<verified, "verified">> \in feedback
    /\ hpc \in {"map", "save"} => current = verified
    /\ \A r \in Requests : stage[r] = "sending" => r \in Allowed
    /\ mq \subseteq Allowed
    /\ msg # NoRequest => msg \in Allowed

\* The actions of the handler's thread keep VerifiedInv.
LEMMA VerifiedHandler == TypeOK /\ VerifiedInv /\ Handler => VerifiedInv'
<1> SUFFICES ASSUME TypeOK, VerifiedInv, Handler PROVE VerifiedInv'
  OBVIOUS
<1> USE DEF VerifiedInv, VerifiedOnly, TypeOK, Sets, submission
<1>1. CASE Receive
  BY <1>1 DEF Receive
<1>2. CASE Verify
  <2>1. msg \in Requests /\ msg \in Allowed
    BY <1>2 DEF Verify
  <2>2. CASE msg \in Plausible
    BY <1>2, <2>1, <2>2, RequestAssumption DEF Verify
  <2>3. CASE msg \notin Plausible
    <3>1. verified' = verified /\ current' = verified /\ feedback \subseteq feedback'
      BY <1>2, <2>3 DEF Verify
    <3>2. hpc' = IF verified = NoRequest THEN "rearm" ELSE "map"
      BY <1>2, <3>1 DEF Verify
    <3> QED
      BY <1>2, <2>1, <2>3, <3>1, <3>2 DEF Verify
  <2> QED
    BY <2>2, <2>3
<1>3. CASE Map
  <2>1. feedback \subseteq feedback'
    BY <1>3 DEF Map
  <2> QED
    BY <1>3, <2>1 DEF Map
<1>4. CASE Save
  BY <1>4 DEF Save
<1>5. CASE SaveFails
  BY <1>5 DEF SaveFails
<1>6. CASE Rearm
  BY <1>6 DEF Rearm
<1> QED
  BY <1>1, <1>2, <1>3, <1>4, <1>5, <1>6 DEF Handler

\* Every step keeps VerifiedInv.
LEMMA VerifiedPreserved ==
    TypeOK /\ VerifiedInv /\ [Next]_vars => VerifiedInv'
<1> SUFFICES ASSUME TypeOK, VerifiedInv, [Next]_vars PROVE VerifiedInv'
  OBVIOUS
<1>5. CASE Handler
  BY <1>5, VerifiedHandler
<1> USE DEF VerifiedInv, VerifiedOnly, TypeOK, Sets, submission, handler
<1>1. ASSUME NEW r \in Requests, Submission(r) PROVE VerifiedInv'
  <2>1. CASE Authorize(r)
    BY <2>1 DEF Authorize
  <2>2. CASE SendRaises(r)
    BY <2>2 DEF SendRaises
  <2>3. CASE Send(r)
    <3>1. r \in Allowed
      BY <2>3 DEF Send
    <3>2. mq' \subseteq Allowed
      BY <2>3, <3>1 DEF Send
    <3>3. \A q \in Requests : stage'[q] = "sending" => q \in Allowed
      BY <2>3 DEF Send
    <3>4. hpc' \in {hpc, "receive"} /\ UNCHANGED <<msg, current, verified, rows, feedback>>
      BY <2>3 DEF Send
    <3> QED
      BY <3>2, <3>3, <3>4
  <2> QED
    BY <1>1, <2>1, <2>2, <2>3 DEF Submission
<1>2. CASE Start
  BY <1>2 DEF Start
<1>3. CASE Signal
  BY <1>3 DEF Signal
<1>4. CASE Stop
  BY <1>4 DEF Stop
<1>6. CASE UNCHANGED vars
  BY <1>6 DEF vars
<1> QED
  BY <1>1, <1>2, <1>3, <1>4, <1>5, <1>6 DEF Next

\* Whatever the verifier hands out, only a request that passed step one, the
\* rules and the search for a rule set is ever stored.
THEOREM OnlyVerifiedStored == Spec => []VerifiedOnly
<1>1. Init => VerifiedInv
  BY DEF Init, VerifiedInv, VerifiedOnly
<1>2. VerifiedInv => VerifiedOnly
  BY DEF VerifiedInv
<1> QED
  BY <1>1, <1>2, VerifiedPreserved, TypeCorrect, PTL DEF Spec

-----------------------------------------------------------------------------
(* Every acknowledged request is accounted for.                            *)

Settled(r) == Outcome(r) \/ r \in lost

\* What the handler has reported of the request it received, at each of its
\* places; the request verified last was acknowledged.
AccountedInv ==
    /\ Accounted
    /\ hpc \in {"idle", "receive"} => msg = NoRequest
    /\ hpc \in {"map", "save"} =>
          /\ current = verified
          /\ \/ <<msg, "rejected">> \in feedback
             \/ msg = current /\ <<msg, "verified">> \in feedback
    /\ hpc = "rearm" => Settled(msg)
    /\ verified # NoRequest => stage[verified] = "accepted"

\* The actions of the handler's thread keep AccountedInv.
LEMMA AccountedHandler == TypeOK /\ AccountedInv /\ Handler => AccountedInv'
<1> SUFFICES ASSUME TypeOK, AccountedInv, Handler PROVE AccountedInv'
  OBVIOUS
<1> USE DEF AccountedInv, Accounted, Settled, Outcome, TypeOK, Sets, submission
<1>1. CASE Receive
  BY <1>1, RequestAssumption DEF Receive
<1>2. CASE Verify
  <2>1. msg \in Requests /\ stage[msg] = "accepted"
    BY <1>2 DEF Verify
  <2>2. CASE msg \in Plausible
    BY <1>2, <2>1, <2>2, RequestAssumption DEF Verify
  <2>3. CASE msg \notin Plausible
    <3>1. verified' = verified /\ current' = verified
      BY <1>2, <2>3 DEF Verify
    <3>2. feedback' = feedback \cup {<<msg, "rejected">>}
      BY <1>2, <2>3 DEF Verify
    <3>3. hpc' \in {"rearm", "map"} /\ UNCHANGED <<stage, mq, msg, lost>>
      BY <1>2 DEF Verify
    <3>4. Accounted'
      BY <2>1, <3>2, <3>3
    <3> QED
      BY <3>1, <3>2, <3>3, <3>4
  <2> QED
    BY <2>2, <2>3
<1>3. CASE Map
  <2>1. \A r \in Requests : \A o \in {"rejected", "completed", "verified"} :
           <<r, o>> \in feedback' <=> <<r, o>> \in feedback
    BY <1>3 DEF Map
  <2>2. UNCHANGED <<stage, mq, msg, verified, current, lost>>
    BY <1>3 DEF Map
  <2>3. msg \in Requests
    BY <1>3 DEF Map
  <2>4. Accounted'
    BY <2>1, <2>2
  <2>5. hpc' = IF current \in Mappable THEN "save" ELSE "rearm"
    BY <1>3 DEF Map
  <2>6. \/ <<msg, "rejected">> \in feedback
        \/ msg = current /\ <<msg, "verified">> \in feedback
    BY <1>3 DEF Map
  <2>7. current = verified
    BY <1>3 DEF Map
  <2>8. CASE current \in Mappable
    BY <2>1, <2>2, <2>3, <2>4, <2>5, <2>6, <2>7, <2>8
  <2>9. CASE current \notin Mappable
    BY <2>1, <2>2, <2>3, <2>4, <2>5, <2>6, <2>7, <2>9
  <2> QED
    BY <2>8, <2>9
<1>4. CASE Save
  <2>1. msg \in Requests /\ current \in Requests /\ stage[current] = "accepted"
    BY <1>4 DEF Save
  <2> QED
    BY <1>4, <2>1 DEF Save
<1>5. CASE SaveFails
  <2>1. msg \in Requests /\ current \in Requests /\ stage[current] = "accepted"
    BY <1>5 DEF SaveFails
  <2> QED
    BY <1>5, <2>1 DEF SaveFails
<1>6. CASE Rearm
  BY <1>6, RequestAssumption DEF Rearm
<1> QED
  BY <1>1, <1>2, <1>3, <1>4, <1>5, <1>6 DEF Handler

\* Every step keeps AccountedInv.
LEMMA AccountedPreserved ==
    TypeOK /\ RegisteredInv /\ AccountedInv /\ [Next]_vars => AccountedInv'
<1> SUFFICES ASSUME TypeOK, RegisteredInv, AccountedInv, [Next]_vars
             PROVE  AccountedInv'
  OBVIOUS
<1>5. CASE Handler
  BY <1>5, AccountedHandler
<1> USE DEF AccountedInv, Accounted, Settled, Outcome, TypeOK, Sets,
            submission, handler
<1>1. ASSUME NEW r \in Requests, Submission(r) PROVE AccountedInv'
  <2>1. CASE Authorize(r)
    BY <2>1 DEF Authorize
  <2>2. CASE SendRaises(r)
    BY <2>2 DEF SendRaises
  <2>3. CASE Send(r)
    <3>1. /\ stage' = [stage EXCEPT ![r] = "accepted"] /\ mq' = mq \cup {r}
          /\ UNCHANGED <<msg, current, verified, feedback, lost>>
      BY <2>3 DEF Send
    <3>2. \/ hpc' = hpc
          \/ hpc = "idle" /\ hpc' = "receive"
      <4>1. CASE armed
        BY <2>3, <4>1 DEF Send, RegisteredInv, Registered
      <4>2. CASE ~ armed
        BY <2>3, <4>2 DEF Send
      <4> QED
        BY <4>1, <4>2
    <3>3. Accounted'
      BY <3>1
    <3>4. verified' # NoRequest => stage'[verified'] = "accepted"
      BY <3>1
    <3> QED
      BY <3>1, <3>2, <3>3, <3>4
  <2> QED
    BY <1>1, <2>1, <2>2, <2>3 DEF Submission
<1>2. CASE Start
  BY <1>2 DEF Start
<1>3. CASE Signal
  BY <1>3 DEF Signal
<1>4. CASE Stop
  BY <1>4, RequestAssumption DEF Stop
<1>6. CASE UNCHANGED vars
  BY <1>6 DEF vars
<1> QED
  BY <1>1, <1>2, <1>3, <1>4, <1>5, <1>6 DEF Next

\* An acknowledged request is in the queue, in the handler, has had its outcome,
\* or is lost to a stop of the process or a locked database; nothing else is.
THEOREM AllAccounted == Spec => []Accounted
<1>1. Init => AccountedInv
  BY RequestAssumption DEF Init, AccountedInv, Accounted, Settled, Outcome
<1>2. AccountedInv => Accounted
  BY DEF AccountedInv
<1>3. Init => RegisteredInv
  BY DEF Init, RegisteredInv, Registered
<1> QED
  BY <1>1, <1>2, <1>3, AccountedPreserved, RegisteredPreserved, TypeCorrect, PTL
     DEF Spec

-----------------------------------------------------------------------------

(* What AnsweredUnlessUnnoticed exempts is no passing state.               *)

\* What waits in the queue while the partition is registered, and all that comes
\* after it, waits until the process ends: a later submission finds the queue
\* not empty and gives no notification either.
THEOREM UnnoticedStays ==
    Spec => [][Unnoticed => \/ Unnoticed' /\ mq \subseteq mq'
                            \/ proc' = "down"]_vars
<1>1. Registered /\ [Next]_vars
         => [Unnoticed => (Unnoticed' /\ mq \subseteq mq') \/ proc' = "down"]_vars
  <2> SUFFICES ASSUME Registered, Next, Unnoticed
               PROVE  (Unnoticed' /\ mq \subseteq mq') \/ proc' = "down"
    OBVIOUS
  <2> USE DEF Unnoticed, Registered, submission, handler
  <2>1. ASSUME NEW r \in Requests, Submission(r) PROVE Unnoticed' /\ mq \subseteq mq'
    BY <2>1 DEF Submission, Authorize, SendRaises, Send
  <2>2. CASE Start \/ Signal
    BY <2>2 DEF Start, Signal
  <2>3. CASE Stop
    BY <2>3 DEF Stop
  <2>4. ~Handler
    BY DEF Handler, Receive, Verify, Map, Save, SaveFails, Rearm
  <2> QED
    BY <2>1, <2>2, <2>3, <2>4 DEF Next
<1> QED
  BY <1>1, AlwaysRegistered, PTL DEF Spec
=============================================================================

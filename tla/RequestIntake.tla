---------------------------- MODULE RequestIntake ----------------------------
(***************************************************************************)
(* Steps one and two of the verification of requests (VoR): submit_request *)
(* of the interface partition authenticates and authorises a request and   *)
(* sends it through a POSIX message queue; the intermediate VoR partition  *)
(* is notified, receives, verifies and maps it, and saves the mapped       *)
(* request for the CPC-side partition.                                     *)
(*                                                                         *)
(* The queue is a set of requests: mq_receive takes the one of the highest *)
(* priority number, the earliest of those.  mq_notify notifies once, and   *)
(* only of a message that arrives at an empty queue.                       *)
(***************************************************************************)
EXTENDS Integers, Sequences, FiniteSets

CONSTANTS Requests,     \* the requests submitted, each with an id of its own
          NoRequest,    \* None
          Prio,         \* Prio[r]: priority argument of the submission
          Allowed,      \* the requests whose issuer passes VoR step one
          Sendable,     \* those with a priority and a length the queue takes
          Described,    \* the requests with a description
          Impact,       \* Impact[r]: impact argument of the submission
          RuleSets,     \* names of the mapping rule sets, in file order
          MqMax,        \* messages the queue holds
          MaxStops      \* bound: ends of the VoR process explored

ASSUME RequestAssumption ==
    /\ IsFiniteSet(Requests) /\ NoRequest \notin Requests
    /\ Prio \in [Requests -> Int]
    /\ Allowed \subseteq Requests
    /\ Sendable \subseteq {r \in Requests : Prio[r] >= 0}
    /\ Described \subseteq Requests
    /\ MqMax \in Nat \ {0}
    /\ MaxStops \in Nat

\* The rules of Request_Verification_Ruleset.xml a request that passed step one
\* can still break.
Plausible == {r \in Requests : r \in Described /\ Prio[r] > 0}

Mappable == {r \in Requests : \E i \in DOMAIN RuleSets : RuleSets[i] = Impact[r]}

Results == {"rejected", "verified", "failed", "completed"}

VARIABLES
    stage,      \* stage[r]: how far submit_request got
    mq,         \* the messages in the queue
    arrival,    \* arrival[r]: when the queue took r, 0 before
    armed,      \* a notification request is registered
    proc,       \* the VoR process is up, stopping (_running = False) or down
    hpc,        \* next statement of the notification handler
    msg,        \* the request the handler received
    verified,   \* RequestVerifier.verified_request, NoRequest before it is set
    current,    \* the request the handler maps
    rows,       \* keys of table mapped_requests
    feedback,   \* what was reported of which request
    lost,       \* requests received whose handling ended without an outcome
    stops       \* ends of the VoR process so far

vars == <<stage, mq, arrival, armed, proc, hpc, msg, verified, current, rows,
          feedback, lost, stops>>

submission == <<stage, arrival>>
handler == <<hpc, msg, current>>

\* The interface partition has created the queue; the VoR partition starts later.
Init ==
    /\ stage = [r \in Requests |-> "new"]
    /\ mq = {} /\ arrival = [r \in Requests |-> 0]
    /\ armed = FALSE /\ proc = "down"
    /\ hpc = "idle" /\ msg = NoRequest /\ current = NoRequest
    /\ verified = NoRequest
    /\ rows = {} /\ feedback = {} /\ lost = {} /\ stops = 0

-----------------------------------------------------------------------------
(* Interface partition: submit_request.                                    *)

\* Credentials and role of the issuer; a refusal is the method's return value.
Authorize(r) ==
    /\ stage[r] = "new"
    /\ stage' = [stage EXCEPT ![r] = IF r \in Allowed THEN "sending" ELSE "refused"]
    /\ UNCHANGED <<mq, arrival, armed, proc, handler, verified, rows, feedback,
                   lost, stops>>

\* send raises for a priority that is negative or beyond the system's limit and
\* for a message longer than the queue's; the method returns the error.
SendRaises(r) ==
    /\ stage[r] = "sending" /\ r \notin Sendable
    /\ stage' = [stage EXCEPT ![r] = "refused"]
    /\ UNCHANGED <<mq, arrival, armed, proc, handler, verified, rows, feedback,
                   lost, stops>>

Accepted == {r \in Requests : stage[r] = "accepted"}

\* send(timeout=None) blocks while the queue is full.  An arrival at an empty
\* queue uses up the registered notification and starts the handler's thread.
Send(r) ==
    /\ stage[r] = "sending" /\ r \in Sendable
    /\ Cardinality(mq) < MqMax
    /\ mq' = mq \cup {r}
    /\ arrival' = [arrival EXCEPT ![r] = Cardinality(Accepted) + 1]
    /\ stage' = [stage EXCEPT ![r] = "accepted"]
    /\ IF armed /\ mq = {}
       THEN armed' = FALSE /\ hpc' = "receive"
       ELSE UNCHANGED <<armed, hpc>>
    /\ UNCHANGED <<proc, msg, current, verified, rows, feedback, lost, stops>>

-----------------------------------------------------------------------------
(* Intermediate VoR partition.                                             *)

\* main: attach to the queue and receive_message, which registers for a
\* notification whatever the queue holds.
Start ==
    /\ proc = "down"
    /\ proc' = "up" /\ armed' = TRUE
    /\ UNCHANGED <<submission, mq, handler, verified, rows, feedback, lost, stops>>

\* SIGINT or SIGTERM.
Signal ==
    /\ proc = "up" /\ stops < MaxStops
    /\ proc' = "stopping"
    /\ UNCHANGED <<submission, mq, armed, handler, verified, rows, feedback, lost,
                   stops>>

\* The process ends, after a signal or by a crash: the registration and what
\* the handler and the verifier hold end with it.
Stop ==
    /\ proc \in {"up", "stopping"} /\ stops < MaxStops
    /\ proc' = "down" /\ stops' = stops + 1
    /\ armed' = FALSE
    /\ hpc' = "idle" /\ msg' = NoRequest /\ current' = NoRequest
    /\ verified' = NoRequest
    /\ lost' = lost \cup ({msg} \ {NoRequest})
    /\ UNCHANGED <<submission, mq, rows, feedback>>

\* The order of mq_receive.
Before(r, q) == \/ Prio[r] > Prio[q]
                \/ Prio[r] = Prio[q] /\ arrival[r] <= arrival[q]

\* Mutant: _running is looked at after the message is received.
ReceiveFirst ==
    /\ hpc = "receive"
    /\ \E r \in mq : /\ \A q \in mq : Before(r, q)
                     /\ mq' = mq \ {r}
                     /\ IF proc = "up" THEN msg' = r /\ hpc' = "verify"
                                       ELSE msg' = msg /\ hpc' = "idle"
    /\ UNCHANGED <<submission, armed, proc, verified, current, rows, feedback,
                   lost, stops>>

\* One message per notification; a stopping process leaves it in the queue.
Receive ==
    /\ hpc = "receive"
    /\ IF proc = "up"
       THEN \E r \in mq : /\ \A q \in mq : Before(r, q)
                          /\ mq' = mq \ {r} /\ msg' = r /\ hpc' = "verify"
       ELSE hpc' = "idle" /\ UNCHANGED <<mq, msg>>
    /\ UNCHANGED <<submission, armed, proc, verified, current, rows, feedback,
                   lost, stops>>

\* Mutants of Verify: no verified request is not an error; a request that breaks
\* a rule becomes the verified request like any other.
VerifyNone ==
    /\ hpc = "verify"
    /\ verified' = IF msg \in Plausible THEN msg ELSE verified
    /\ feedback' = feedback \cup
          {<<msg, IF msg \in Plausible THEN "verified" ELSE "rejected">>}
    /\ current' = verified' /\ hpc' = "map"
    /\ UNCHANGED <<submission, mq, armed, proc, msg, rows, lost, stops>>

VerifyAnything ==
    /\ hpc = "verify"
    /\ verified' = msg
    /\ feedback' = feedback \cup
          {<<msg, IF msg \in Plausible THEN "verified" ELSE "rejected">>}
    /\ current' = verified' /\ hpc' = "map"
    /\ UNCHANGED <<submission, mq, armed, proc, msg, rows, lost, stops>>

\* process_requests reports on the request received and returns the request
\* verified last: there may be none (AttributeError, caught by the caller).
Verify ==
    /\ hpc = "verify"
    /\ verified' = IF msg \in Plausible THEN msg ELSE verified
    /\ feedback' = feedback \cup
          {<<msg, IF msg \in Plausible THEN "verified" ELSE "rejected">>}
    /\ current' = verified'
    /\ hpc' = IF verified' = NoRequest THEN "rearm" ELSE "map"
    /\ UNCHANGED <<submission, mq, armed, proc, msg, rows, lost, stops>>

\* map_requests: every rule set before the one that matches is reported as a
\* failure to map; without a match nothing is saved.
Map ==
    /\ hpc = "map"
    /\ feedback' = IF RuleSets # <<>> /\ RuleSets[1] # Impact[current]
                   THEN feedback \cup {<<current, "failed">>} ELSE feedback
    /\ hpc' = IF current \in Mappable THEN "save" ELSE "rearm"
    /\ UNCHANGED <<submission, mq, armed, proc, msg, verified, current, rows,
                   lost, stops>>

\* save_to_db: INSERT OR REPLACE under the request's id.
Save ==
    /\ hpc = "save"
    /\ rows' = rows \cup {current}
    /\ feedback' = feedback \cup {<<current, "completed">>}
    /\ hpc' = "rearm"
    /\ UNCHANGED <<submission, mq, armed, proc, msg, verified, current, lost, stops>>

\* The database stays locked: the mapped request is dropped without feedback.
SaveFails ==
    /\ hpc = "save"
    /\ lost' = lost \cup {current}
    /\ hpc' = "rearm"
    /\ UNCHANGED <<submission, mq, armed, proc, msg, verified, current, rows,
                   feedback, stops>>

\* Mutant: a handler that found nothing to map does not register again.
RearmMapped ==
    /\ hpc = "rearm"
    /\ armed' = (proc = "up" /\ current # NoRequest)
    /\ hpc' = "idle" /\ msg' = NoRequest /\ current' = NoRequest
    /\ UNCHANGED <<submission, mq, proc, verified, rows, feedback, lost, stops>>

\* The handler registers for the next notification and its thread ends.
Rearm ==
    /\ hpc = "rearm"
    /\ armed' = (proc = "up")
    /\ hpc' = "idle" /\ msg' = NoRequest /\ current' = NoRequest
    /\ UNCHANGED <<submission, mq, proc, verified, rows, feedback, lost, stops>>

Handler == Receive \/ Verify \/ Map \/ Save \/ SaveFails \/ Rearm

Submission(r) == Authorize(r) \/ SendRaises(r) \/ Send(r)

Next ==
    \/ \E r \in Requests : Submission(r)
    \/ Start \/ Signal \/ Stop
    \/ Handler

Spec == Init /\ [][Next]_vars

\* The main loop looks at _running every five seconds, the handler's thread is
\* scheduled, and somebody starts the container again; a submission that is past
\* its authorisation goes on while the queue has room.  Clients submit when they
\* like, and nothing but a signal has to stop the process.
FairSpec ==
    /\ Spec
    /\ WF_vars(Start) /\ WF_vars(Handler) /\ WF_vars(proc = "stopping" /\ Stop)
    /\ WF_vars(\E r \in Requests : SendRaises(r) \/ Send(r))

-----------------------------------------------------------------------------
(* Properties.                                                             *)

Sets == /\ stage \in [Requests -> {"new", "sending", "accepted", "refused"}]
        /\ mq \subseteq Requests
        /\ arrival \in [Requests -> Nat]
        /\ rows \subseteq Requests
        /\ feedback \subseteq Requests \X Results
        /\ lost \subseteq Requests

\* Types of the variables, and what the handler's place in its code says of the
\* requests it holds; the queue never holds more than its limit.
TypeOK ==
    /\ Sets
    /\ armed \in BOOLEAN /\ proc \in {"up", "stopping", "down"}
    /\ hpc \in {"idle", "receive", "verify", "map", "save", "rearm"}
    /\ msg \in Requests \cup {NoRequest}
    /\ verified \in Requests \cup {NoRequest}
    /\ current \in Requests \cup {NoRequest}
    /\ stops \in 0 .. MaxStops
    /\ hpc \in {"verify", "map", "save", "rearm"} => msg # NoRequest
    /\ hpc \in {"map", "save"} => current # NoRequest
    /\ Cardinality(mq) <= MqMax

\* Whatever happens to a request (rejected, unmappable, not saved, a verifier
\* that raises), the running partition is registered again once the handler's
\* thread has ended, and never while it runs: no request finds it deaf, and no
\* two handlers share the verifier's verified_request.
Registered ==
    /\ proc = "up" => (armed <=> hpc = "idle")
    /\ armed => proc # "down" /\ hpc = "idle"

\* A request the interface partition acknowledged with "Submission received" is
\* in the queue, in the handler, or has had its outcome: a stop of the VoR
\* process, at any point, costs at most the request the handler holds.
Outcome(r) ==
    \/ <<r, "rejected">> \in feedback \/ <<r, "completed">> \in feedback
    \/ <<r, "verified">> \in feedback /\ r \notin Mappable

Accounted ==
    \A r \in Requests :
        stage[r] = "accepted" <=> \/ r \in mq \/ r = msg \/ Outcome(r)
                                  \/ r \in lost

\* Only a request that passed authorisation, the rules and the search for a
\* rule set is ever stored, although the verifier hands out a request it
\* verified earlier; a request that passed the rules is not replaced by another.
VerifiedOnly ==
    /\ rows \subseteq Allowed \cap Plausible \cap Mappable
    /\ \A r \in rows : <<r, "verified">> \in feedback
    /\ hpc \in {"map", "save"} => /\ current \in Plausible
                                  /\ msg \in Plausible => current = msg
    /\ hpc = "save" => current \in Mappable

\* Every acknowledged request is received and gets its outcome, or is lost to a
\* stop of the process or a database that stays locked, unless the partition
\* registers while requests wait: mq_notify then stays silent for ever.
\* It happens if nothing fails, too: a request sent before the partition is up.
\* Nor does a method that blocks in send at a full queue block for ever otherwise.
Unnoticed == armed /\ mq # {}

AnsweredUnlessUnnoticed ==
    /\ \A r \in Requests : r \in mq ~> (Outcome(r) \/ r \in lost \/ Unnoticed)
    /\ \A r \in Requests : stage[r] = "sending" ~> (stage[r] # "sending" \/ Unnoticed)
=============================================================================

-------------------------- MODULE MappedRequestPull --------------------------
(***************************************************************************)
(* Step three of the verification of requests: the CPC-side partition      *)
(* polls the table of mapped requests, takes one row at a time, asks the   *)
(* flask bridge for the state of the plant, and verifies the acceptance    *)
(* and the mapping of the request.                                         *)
(*                                                                         *)
(* Every process that runs main() has a thread that pulls.  The bridge runs*)
(* flask with debug=True, whose reloader executes main() in a second       *)
(* process: Pullers has two members in the code as it is, one without.     *)
(***************************************************************************)
EXTENDS Integers, FiniteSets

CONSTANTS Requests,     \* the requests the VoR partition maps
          NoRequest,    \* None
          Prio,         \* Prio[r]: column priority
          Time,         \* Time[r]: rank of the text generation_timestamp
          Dated,        \* the requests whose timestamp fromisoformat can read
          Pullers,      \* threads that execute pull_request_and_process
          MaxPulls,     \* bound: a request pulled that often is not saved again
          MaxLocks,     \* bound: times the table stays locked for a puller
          MaxCrashes    \* bound: ends of the container explored

ASSUME PullAssumption ==
    /\ IsFiniteSet(Requests) /\ NoRequest \notin Requests
    /\ Prio \in [Requests -> Int] /\ Time \in [Requests -> Int]
    /\ Dated \subseteq Requests
    /\ MaxPulls \in Nat /\ MaxLocks \in Nat /\ MaxCrashes \in Nat

VARIABLES
    rows,       \* keys of table mapped_requests
    saved,      \* requests the VoR partition has saved so far
    pc,         \* next statement of each puller
    cur,        \* the request each puller holds
    pulls,      \* pulls[r]: times a puller began to verify r
    decided,    \* requests whose acceptance or mapping was decided
    unanswered, \* requests whose verification ended in an exception
    dropped,    \* requests that a puller held when it died
    locks,      \* times the table stayed locked so far
    crashes     \* ends of the container so far

vars == <<rows, saved, pc, cur, pulls, decided, unanswered, dropped, locks, crashes>>

Init ==
    /\ rows = {} /\ saved = {}
    /\ pc = [p \in Pullers |-> "select"]
    /\ cur = [p \in Pullers |-> NoRequest]
    /\ pulls = [r \in Requests |-> 0]
    /\ decided = {} /\ unanswered = {} /\ dropped = {}
    /\ locks = 0 /\ crashes = 0

Goto(p, l, r) ==
    /\ pc' = [pc EXCEPT ![p] = l]
    /\ cur' = [cur EXCEPT ![p] = r]

\* save_to_db of the VoR partition: INSERT OR REPLACE, of a request that may have
\* been pulled before.
SaveRow(r) ==
    /\ pulls[r] < MaxPulls
    /\ saved' = saved \cup {r} /\ rows' = rows \cup {r}
    /\ UNCHANGED <<pc, cur, pulls, decided, unanswered, dropped, locks, crashes>>

\* ORDER BY priority, generation_timestamp LIMIT 1.
Precedes(r, q) == \/ Prio[r] < Prio[q]
                  \/ Prio[r] = Prio[q] /\ Time[r] <= Time[q]

First(r) == r \in rows /\ \A q \in rows : Precedes(r, q)

\* Mutant: the row is removed as it is read, in a transaction of its own.
SelectRemoves(p) ==
    /\ pc[p] = "select"
    /\ \E r \in Requests :
          /\ First(r) /\ rows' = rows \ {r}
          /\ IF r \in Dated THEN Goto(p, "delete", r) ELSE Goto(p, "select", NoRequest)
    /\ UNCHANGED <<saved, pulls, decided, unanswered, dropped, locks, crashes>>

\* The SELECT of pull_request; without a row it returns None and the loop sleeps.
\* The timestamp is the client's text, which nobody has looked at: if
\* fromisoformat raises, the pull ends with the row in its place, and so does the
\* next one.
Select(p) ==
    /\ pc[p] = "select"
    /\ \E r \in Requests :
          /\ First(r)
          /\ IF r \in Dated THEN Goto(p, "delete", r) ELSE Goto(p, "select", NoRequest)
    /\ UNCHANGED <<rows, saved, pulls, decided, unanswered, dropped, locks, crashes>>

\* Mutant: the DELETE is not committed before the connection is closed.
DeleteUncommitted(p) ==
    /\ pc[p] = "delete"
    /\ pulls' = [pulls EXCEPT ![cur[p]] = IF @ < 3 THEN @ + 1 ELSE @]
    /\ Goto(p, "verify", cur[p])
    /\ UNCHANGED <<rows, saved, decided, unanswered, dropped, locks, crashes>>

\* The DELETE and its commit, which succeed whether or not the row is there.
Delete(p) ==
    /\ pc[p] = "delete"
    /\ rows' = rows \ {cur[p]}
    /\ pulls' = [pulls EXCEPT ![cur[p]] = @ + 1]
    /\ Goto(p, "verify", cur[p])
    /\ UNCHANGED <<saved, decided, unanswered, dropped, locks, crashes>>

\* Mutant: the request is kept.
DeleteFailsKeeps(p) ==
    /\ pc[p] = "delete" /\ locks < MaxLocks
    /\ locks' = locks + 1
    /\ Goto(p, "select", cur[p])
    /\ UNCHANGED <<rows, saved, pulls, decided, unanswered, dropped, crashes>>

\* Another connection holds the lock beyond sqlite's timeout: the exception ends
\* the pull and the row stays.
DeleteFails(p) ==
    /\ pc[p] = "delete" /\ locks < MaxLocks
    /\ locks' = locks + 1
    /\ Goto(p, "select", NoRequest)
    /\ UNCHANGED <<rows, saved, pulls, decided, unanswered, dropped, crashes>>

\* The acceptance fails, or a constraint of the mapping fails, or all pass:
\* mapping_verification then raises NotImplementedError, which the loop catches
\* like any other.  What was decided leaves a line in the log.
Verify(p) ==
    /\ pc[p] = "verify"
    /\ decided' = decided \cup {cur[p]}
    /\ Goto(p, "select", NoRequest)
    /\ UNCHANGED <<rows, saved, pulls, unanswered, dropped, locks, crashes>>

\* The row is gone, and nothing is decided: the bridge does not listen yet, or
\* replies with an error, or with a plant state in which the mapping finds no
\* value, or the modification of the request is no number.
VerifyRaises(p) ==
    /\ pc[p] = "verify"
    /\ unanswered' = unanswered \cup {cur[p]}
    /\ Goto(p, "select", NoRequest)
    /\ UNCHANGED <<rows, saved, pulls, decided, dropped, locks, crashes>>

Puller(p) == Select(p) \/ Delete(p) \/ DeleteFails(p) \/ Verify(p) \/ VerifyRaises(p)

\* The container ends and is started again: what the pullers hold is gone, the
\* table on its volume is not.
Crash ==
    /\ crashes < MaxCrashes
    /\ crashes' = crashes + 1
    /\ dropped' = dropped \cup {cur[p] : p \in {q \in Pullers : pc[q] = "verify"}}
    /\ pc' = [p \in Pullers |-> "select"]
    /\ cur' = [p \in Pullers |-> NoRequest]
    /\ UNCHANGED <<rows, saved, pulls, decided, unanswered, locks>>

Next ==
    \/ \E r \in Requests : SaveRow(r)
    \/ \E p \in Pullers : Puller(p)
    \/ Crash

Spec == Init /\ [][Next]_vars

\* Each puller is a thread that sleeps at most 10 ms between two rounds.
FairSpec == Spec /\ \A p \in Pullers : WF_vars(Puller(p))

-----------------------------------------------------------------------------
(* Properties.                                                             *)

\* Types; a puller past its SELECT holds a request the VoR partition saved, with
\* a timestamp it could read.
TypeOK ==
    /\ saved \subseteq Requests /\ rows \subseteq saved
    /\ decided \subseteq saved /\ unanswered \subseteq saved /\ dropped \subseteq saved
    /\ pc \in [Pullers -> {"select", "delete", "verify"}]
    /\ cur \in [Pullers -> Requests \cup {NoRequest}]
    /\ pulls \in [Requests -> Nat]
    /\ locks \in 0 .. MaxLocks /\ crashes \in 0 .. MaxCrashes
    /\ \A p \in Pullers : IF pc[p] = "select" THEN cur[p] = NoRequest
                                              ELSE cur[p] \in saved \cap Dated

\* No saved request disappears from the table without a decision, whatever the
\* order of SELECTs and DELETEs and locked tables, except one whose verification
\* raised, or that was in verification when the container ended.
Verifying(r) == \E p \in Pullers : pc[p] = "verify" /\ cur[p] = r

NoneForgotten ==
    \A r \in saved : \/ r \in rows \/ Verifying(r)
                     \/ r \in decided \cup unanswered \cup dropped

\* main.py:251: "the next execution cycle until all requests are pulled": a row
\* does not stay in the table, unless its own timestamp or that of a row that
\* is selected before it cannot be read.
Blocked(r) == \E q \in rows \ Dated : r \in rows /\ Precedes(q, r)

AllPulledUnlessBlocked == \A r \in Requests : r \in rows ~> r \notin rows \/ Blocked(r)
=============================================================================

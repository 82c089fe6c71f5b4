----------------------------- MODULE DataSource -----------------------------
(***************************************************************************)
(* The threads of the data aggregation as one consumer partition sees them:*)
(* each writes a segment of its own in cycles, under a semaphore that gets *)
(* one permit more in every cycle.  ShmHandoff has the statements; here a  *)
(* cycle is four steps, and a thread may end: because it has no clients,  *)
(* because it waits for another partition's permit, or because a sample    *)
(* does not fit (or does not convert to JSON), with the permit in its      *)
(* hands.                                                                  *)
(***************************************************************************)
EXTENDS Naturals

CONSTANTS Sources,      \* "opcua", "modbus": one thread and segment each
          Blanks,       \* those whose sample may have no entries: "opcua"
          MaxPermits    \* bound: permits told apart per semaphore

ASSUME PermitsAssumption == MaxPermits \in Nat /\ MaxPermits >= 2

VARIABLES
    free,       \* free[s]: value of the semaphore, MaxPermits if it is more
    src,        \* src[s]: place of the thread in its cycle
    text        \* text[s]: what the segment holds

sourceVars == <<free, src, text>>

SourceInit ==
    /\ free = [s \in Sources |-> 0]
    /\ src = [s \in Sources |-> "rest"]
    /\ text = [s \in Sources |-> "empty"]

\* MaxPermits stands for that many or more: a permit taken of them may leave as
\* many, so that no count the semaphore can have is left out.
Post(s) == free' = [free EXCEPT ![s] = IF @ < MaxPermits THEN @ + 1 ELSE @]

Wait(s) ==
    /\ free[s] > 0
    /\ \E n \in {free[s] - 1} \cup ({free[s]} \cap {MaxPermits}) :
           free' = [free EXCEPT ![s] = n]

Goes(s, from, to) == src[s] = from /\ src' = [src EXCEPT ![s] = to]

Announce(s) ==
    /\ Goes(s, "rest", "announced")
    /\ Post(s)
    /\ UNCHANGED text

Take(s) ==
    /\ Goes(s, "announced", "clearing")
    /\ Wait(s)
    /\ UNCHANGED text

Wipe(s) ==
    /\ Goes(s, "clearing", "writing")
    /\ text' = [text EXCEPT ![s] = "empty"]
    /\ UNCHANGED free

\* Mutant: the permit is not given back after the write.
WriteKeeps(s) ==
    /\ Goes(s, "writing", "rest")
    /\ text' = [text EXCEPT ![s] = "sample"]
    /\ UNCHANGED free

\* The text {} of a sample without entries does not cover a digest.
Write(s) ==
    /\ Goes(s, "writing", "rest")
    /\ Post(s)
    /\ \/ text' = [text EXCEPT ![s] = "sample"]
       \/ /\ s \in Blanks /\ text[s] # "empty"
          /\ text' = [text EXCEPT ![s] = "garbage"]

\* "ended" holds no permit, "dead" the one it was writing under.
Ends(s) ==
    /\ Goes(s, "rest", "ended") \/ Goes(s, "writing", "dead")
    /\ UNCHANGED <<free, text>>

\* A consumer acknowledges a text: it clears the segment and writes a digest,
\* over a sample the thread has written meanwhile, or is writing, if both hold a
\* permit; of the two, a text remains that is neither, unless the digest covers {}.
Clear(s) == text' = [text EXCEPT ![s] = "empty"]

Respond(s) ==
    \E c \in IF src[s] = "writing" THEN {"digest", "garbage"}
             ELSE IF text[s] \in {"empty", "digest"} THEN {"digest"}
             ELSE IF text[s] = "sample" /\ s \in Blanks THEN {"digest", "garbage"}
             ELSE {"garbage"} :
        text' = [text EXCEPT ![s] = c]

Cycle(s) == Announce(s) \/ Take(s) \/ Wipe(s) \/ Write(s)

Ended(s) == src[s] \in {"ended", "dead"}

\* What a reader may find: while the thread clears or writes, the text may be
\* torn.
Seen(s) ==
    {text[s]} \cup (IF src[s] \in {"clearing", "writing"} THEN {"garbage"} ELSE {})

SourceTypeOK ==
    /\ free \in [Sources -> 0 .. MaxPermits]
    /\ src \in [Sources -> {"rest", "announced", "clearing", "writing", "ended", "dead"}]
    /\ text \in [Sources -> {"empty", "sample", "digest", "garbage"}]
=============================================================================

---------------------------- MODULE PsmoPartition ----------------------------
(***************************************************************************)
(* The process of the psM+O partition: a reader thread for each source     *)
(* puts the samples it reads into a bounded queue of its own, and the main *)
(* thread takes them out of both queues until a KeyboardInterrupt; then it *)
(* sets both stop events and joins the threads.  The events are looked at  *)
(* at the head of a reader's loop only, and not in the places a reader     *)
(* waits at: the semaphore, the inner loop over its own digest, and the    *)
(* put into a full queue, which it does with the permit in its hands.      *)
(***************************************************************************)
EXTENDS DataSource

CONSTANT QueueSize      \* maxsize of both queue.Queue

ASSUME QueueAssumption == QueueSize \in Nat \ {0}

VARIABLES
    rpc,        \* rpc[s]: next statement of the reader thread of source s
    acked,      \* acked[s]: its response is the digest of an earlier text
    q,          \* q[s]: length of its queue
    main,       \* the main thread: "running", "joining" or "returned"
    late        \* history: late[s], samples put since the stop events are set

vars == <<sourceVars, rpc, acked, q, main, late>>
reader == <<rpc, acked>>
process == <<q, main, late>>

ReaderPC == {"start", "head", "acquire", "read", "reacquire", "reread", "put",
             "acknowledge", "respond", "ended"}

Init ==
    /\ SourceInit
    /\ rpc = [s \in Sources |-> "start"]
    /\ acked = [s \in Sources |-> FALSE]
    /\ q = [s \in Sources |-> 0]
    /\ main = "running"
    /\ late = [s \in Sources |-> 0]

Goto(s, from, to) == rpc[s] = from /\ rpc' = [rpc EXCEPT ![s] = to]

Source(s) == (Cycle(s) \/ Ends(s)) /\ UNCHANGED <<reader, process>>

-----------------------------------------------------------------------------
(* The reader thread of source s: run.                                     *)

\* A semaphore or a segment that is missing ends the thread, and no other; the
\* first look at the stop event comes with the step.
Open(s) ==
    /\ \/ Goto(s, "start", IF main = "running" THEN "acquire" ELSE "ended")
       \/ Goto(s, "start", "ended")
    /\ UNCHANGED <<sourceVars, acked, process>>

\* Mutant: the reader does not look at the stop event.
HeadGoesOn(s) ==
    /\ Goto(s, "head", "acquire")
    /\ UNCHANGED <<sourceVars, acked, process>>

Head(s) ==
    /\ Goto(s, "head", IF main = "running" THEN "acquire" ELSE "ended")
    /\ UNCHANGED <<sourceVars, acked, process>>

Acquire(s) ==
    /\ Goto(s, "acquire", "read") \/ Goto(s, "reacquire", "reread")
    /\ Wait(s)
    /\ UNCHANGED <<src, text, acked, process>>

\* An empty text at the head of an iteration: nothing to do.
ReadNothing(s) ==
    /\ Goto(s, "read", "head") /\ "empty" \in Seen(s)
    /\ Post(s)
    /\ UNCHANGED <<src, text, acked, process>>

\* The inner loop: the text is the reader's own digest.
ReadOwnDigest(s) ==
    /\ Goto(s, "read", "reacquire") \/ Goto(s, "reread", "reacquire")
    /\ "digest" \in Seen(s) /\ acked[s]
    /\ Post(s)
    /\ UNCHANGED <<src, text, acked, process>>

ReadSample(s) ==
    /\ Goto(s, "read", "put") \/ Goto(s, "reread", "put")
    /\ "sample" \in Seen(s)
    /\ UNCHANGED <<sourceVars, acked, process>>

\* Any other text does not decode: the exception goes to the head of the loop,
\* past the release.
ReadRaises(s) ==
    /\ \/ Goto(s, "read", "head")
       \/ Goto(s, "reread", "head")
    /\ \E c \in Seen(s) : \/ c = "garbage"
                          \/ c = "digest" /\ ~acked[s]
                          \/ c = "empty" /\ rpc[s] = "reread"
    /\ UNCHANGED <<sourceVars, acked, process>>

\* Mutant: the queue is not bounded.
PutUnbounded(s) ==
    /\ Goto(s, "put", "acknowledge")
    /\ q' = [q EXCEPT ![s] = @ + 1]
    /\ late' = IF main = "running" THEN late ELSE [late EXCEPT ![s] = @ + 1]
    /\ UNCHANGED <<sourceVars, acked, main>>

\* put blocks while the queue is full.
Put(s) ==
    /\ Goto(s, "put", "acknowledge")
    /\ q[s] < QueueSize
    /\ q' = [q EXCEPT ![s] = @ + 1]
    /\ late' = IF main = "running" THEN late ELSE [late EXCEPT ![s] = @ + 1]
    /\ UNCHANGED <<sourceVars, acked, main>>

Acknowledge(s) ==
    /\ Goto(s, "acknowledge", "respond")
    /\ acked' = [acked EXCEPT ![s] = TRUE]
    /\ Clear(s)
    /\ UNCHANGED <<free, src, process>>

RespondAndPost(s) ==
    /\ Goto(s, "respond", "head")
    /\ Respond(s) /\ Post(s)
    /\ UNCHANGED <<src, acked, process>>

Reader(s) ==
    \/ Open(s) \/ Head(s) \/ Acquire(s) \/ ReadNothing(s) \/ ReadOwnDigest(s)
    \/ ReadSample(s) \/ ReadRaises(s) \/ Put(s) \/ Acknowledge(s)
    \/ RespondAndPost(s)

-----------------------------------------------------------------------------
(* The main thread.                                                        *)

Get(s) ==
    /\ main = "running" /\ q[s] > 0
    /\ q' = [q EXCEPT ![s] = @ - 1]
    /\ UNCHANGED <<sourceVars, reader, main, late>>

\* KeyboardInterrupt, anywhere in the loop.
Interrupt ==
    /\ main = "running" /\ main' = "joining"
    /\ UNCHANGED <<sourceVars, reader, q, late>>

\* Mutant: the queues are joined, too.
ReturnDrained ==
    /\ main = "joining" /\ \A s \in Sources : rpc[s] = "ended" /\ q[s] = 0
    /\ main' = "returned"
    /\ UNCHANGED <<sourceVars, reader, q, late>>

Return ==
    /\ main = "joining" /\ \A s \in Sources : rpc[s] = "ended"
    /\ main' = "returned"
    /\ UNCHANGED <<sourceVars, reader, q, late>>

Next ==
    \/ \E s \in Sources : Source(s) \/ Reader(s) \/ Get(s)
    \/ Interrupt \/ Return

Spec == Init /\ [][Next]_vars

\* All threads are scheduled; nothing has to end or be interrupted.  (That main
\* takes items is of no use once it has been.)
FairSpec ==
    /\ Spec
    /\ \A s \in Sources : /\ WF_vars(Cycle(s) /\ UNCHANGED <<reader, process>>)
                          /\ WF_vars(Reader(s))
    /\ WF_vars(Return)

-----------------------------------------------------------------------------
(* Properties.                                                             *)

\* Types; no queue holds more than its limit.
TypeOK ==
    /\ SourceTypeOK
    /\ rpc \in [Sources -> ReaderPC]
    /\ acked \in [Sources -> BOOLEAN]
    /\ q \in [Sources -> 0 .. QueueSize]
    /\ main \in {"running", "joining", "returned"}
    /\ late \in [Sources -> Nat]

\* Wherever the interrupt finds a reader, it puts at most the one sample it is
\* on its way to, and none once it has ended; when main returns, all have.
StopsSoon ==
    /\ main = "running" => \A s \in Sources : late[s] = 0
    /\ \A s \in Sources :
           /\ late[s] <= 1
           /\ late[s] = 1 => rpc[s] \in {"acknowledge", "respond", "head", "ended"}
    /\ main = "returned" => \A s \in Sources : rpc[s] = "ended"

\* What a reader can be left in, once main takes nothing out any more.
\*   - the put into a full queue;
\*   - a source that has ended, over whose last text it sleeps, or that left no
\*     permit;
\*   - permits lost to texts that did not decode, for which its source waits, too.
Stuck(s) ==
    \/ rpc[s] = "put" /\ q[s] = QueueSize
    \/ Ended(s) /\ acked[s] /\ text[s] = "digest" /\ rpc[s] \in {"reacquire", "reread"}
    \/ /\ rpc[s] \in {"acquire", "reacquire"} /\ free[s] = 0
       /\ Ended(s) \/ src[s] = "announced"

\* After a KeyboardInterrupt the process ends, in whatever place it finds the
\* main thread, the readers and the sources, unless a reader is stuck in one of
\* the three ways: it is not joining for ever.  Each of them happens (drop it,
\* and TLC shows the case).
EndsUnlessStuck == []<>(main # "joining" \/ \E s \in Sources : Stuck(s))
=============================================================================

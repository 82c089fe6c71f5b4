---------------------------- MODULE InterfaceLoop ----------------------------
(***************************************************************************)
(* The event loop of the interface partition.  It runs the OPC UA server,  *)
(* whose methods submit requests and administer users, and the coroutines  *)
(* that read the two segments: first the populations, one after the other, *)
(* then the updates, taking turns at their sleeps.  posix_ipc's acquire is *)
(* no await: a coroutine that waits for a semaphore stops the loop, and    *)
(* with it the other coroutine and the server.                             *)
(***************************************************************************)
EXTENDS DataSource, Sequences

CONSTANTS Order,    \* the sources in the order of their population
          NoTask    \* no coroutine runs: the loop is free for the server

Count == Len(Order)

ASSUME OrderAssumption ==
    /\ Order \in Seq(Sources) /\ Count > 0
    /\ \A m, n \in 1 .. Count : Order[m] = Order[n] => m = n
    /\ Sources = {Order[n] : n \in 1 .. Count}
    /\ NoTask \notin Sources

VARIABLES
    cycles,     \* history: cycles[s], cycles the source has begun, up to two
    task,       \* the coroutine that runs
    pc,         \* pc[s]: next statement of the coroutine of source s
    acked       \* acked[s]: its response is the digest of an earlier text

vars == <<sourceVars, cycles, task, pc, acked>>

\* Places at an await, at an acquire, and with the permit in hand.
AwaitPC == {"unborn", "populating", "populated", "spinning", "waiting"}
AcquirePC == {"popacquire", "acquire", "reacquire"}
HeldPC == {"popread", "read", "reread", "acknowledge", "respond"}

Init ==
    /\ SourceInit /\ cycles = [s \in Sources |-> 0]
    /\ task = NoTask
    /\ pc = [s \in Sources |-> IF s = Order[1] THEN "populating" ELSE "unborn"]
    /\ acked = [s \in Sources |-> FALSE]

Goto(s, l) == pc' = [pc EXCEPT ![s] = l]

CountCycle(s) ==
    cycles' = [cycles EXCEPT ![s] = IF src'[s] = "announced" /\ @ < 2 THEN @ + 1
                                    ELSE @]

Source(s) ==
    /\ Cycle(s) \/ Ends(s)
    /\ CountCycle(s)
    /\ UNCHANGED <<task, pc, acked>>

\* A sleep is over, and the loop gives the coroutine its turn.
Resume(s) ==
    /\ task = NoTask /\ task' = s
    /\ \/ pc[s] = "populating" /\ Goto(s, "popacquire")
       \/ pc[s] = "waiting" /\ Goto(s, "acquire")
       \/ pc[s] = "spinning" /\ Goto(s, "reacquire")
    /\ UNCHANGED <<sourceVars, cycles, acked>>

\* main() awaits the populations in turn, then gathers the two updates.
Proceed(s) ==
    /\ task = NoTask /\ pc[s] = "populated"
    /\ IF s = Order[Count] THEN pc' = [u \in Sources |-> "waiting"]
       ELSE \E n \in 1 .. Count - 1 :
                s = Order[n] /\ pc' = [pc EXCEPT ![s] = "unborn",
                                                 ![Order[n + 1]] = "populating"]
    /\ UNCHANGED <<sourceVars, cycles, task, acked>>

Acquire(s) ==
    /\ task = s
    /\ \/ pc[s] = "popacquire" /\ Goto(s, "popread")
       \/ pc[s] = "acquire" /\ Goto(s, "read")
       \/ pc[s] = "reacquire" /\ Goto(s, "reread")
    /\ Wait(s)
    /\ UNCHANGED <<src, text, cycles, task, acked>>

\* Of a sample that makes variables the population is done; both ways the permit
\* is posted and 100 ms are slept.
PopulationRead(s) ==
    /\ task = s /\ pc[s] = "popread"
    /\ Post(s) /\ task' = NoTask
    /\ \E c \in Seen(s) : \/ Goto(s, "populating")
                          \/ c = "sample" /\ Goto(s, "populated")
    /\ UNCHANGED <<src, text, cycles, acked>>

\* An empty text at the head of an iteration ends it, with the old values.
ReadNothing(s) ==
    /\ task = s /\ pc[s] = "read" /\ "empty" \in Seen(s)
    /\ Post(s) /\ Goto(s, "apply")
    /\ UNCHANGED <<src, text, cycles, task, acked>>

\* Mutant: the inner loop does not sleep.
SpinBusy(s) ==
    /\ task = s /\ pc[s] \in {"read", "reread"}
    /\ "digest" \in Seen(s) /\ acked[s]
    /\ Post(s) /\ Goto(s, "reacquire")
    /\ UNCHANGED <<src, text, cycles, task, acked>>

\* The inner loop: the text is the coroutine's own digest.
ReadOwnDigest(s) ==
    /\ task = s /\ pc[s] \in {"read", "reread"}
    /\ "digest" \in Seen(s) /\ acked[s]
    /\ Post(s) /\ Goto(s, "spinning") /\ task' = NoTask
    /\ UNCHANGED <<src, text, cycles, acked>>

\* Any other text is decoded, or not, and acknowledged; in the inner loop an
\* empty text, too, since its emptiness was looked at before.
ReadText(s) ==
    /\ task = s
    /\ \E c \in Seen(s) : /\ c # "digest" \/ ~acked[s]
                          /\ pc[s] = "reread" \/ (pc[s] = "read" /\ c # "empty")
    /\ Goto(s, "acknowledge")
    /\ UNCHANGED <<sourceVars, cycles, task, acked>>

\* Mutant: the coroutine awaits before it posts.
RespondAwaits(s) ==
    /\ task = s /\ pc[s] = "respond"
    /\ Respond(s) /\ acked' = [acked EXCEPT ![s] = TRUE]
    /\ Goto(s, "waiting") /\ task' = NoTask
    /\ UNCHANGED <<free, src, cycles>>

Acknowledge(s) ==
    /\ task = s /\ pc[s] = "acknowledge"
    /\ Clear(s) /\ Goto(s, "respond")
    /\ UNCHANGED <<free, src, cycles, task, acked>>

RespondAndPost(s) ==
    /\ task = s /\ pc[s] = "respond"
    /\ Respond(s) /\ acked' = [acked EXCEPT ![s] = TRUE]
    /\ Post(s) /\ Goto(s, "apply")
    /\ UNCHANGED <<src, cycles, task>>

\* Mutant: the sleep is called and not awaited.
ApplyUnawaited(s) ==
    /\ task = s /\ pc[s] = "apply"
    /\ Goto(s, "waiting")
    /\ UNCHANGED <<sourceVars, cycles, task, acked>>

\* The pass over the entries (AddressSpace) and the sleep of 10 ms.
Apply(s) ==
    /\ task = s /\ pc[s] = "apply"
    /\ Goto(s, "waiting") /\ task' = NoTask
    /\ UNCHANGED <<sourceVars, cycles, acked>>

\* The pass raises: the sleep is skipped, and the coroutine goes on to acquire
\* without giving the loop away.
ApplyRaises(s) ==
    /\ task = s /\ pc[s] = "apply"
    /\ Goto(s, "acquire")
    /\ UNCHANGED <<sourceVars, cycles, task, acked>>

Coroutine(s) ==
    \/ Resume(s) \/ Proceed(s) \/ Acquire(s) \/ PopulationRead(s)
    \/ ReadNothing(s) \/ ReadOwnDigest(s) \/ ReadText(s) \/ Acknowledge(s)
    \/ RespondAndPost(s) \/ Apply(s) \/ ApplyRaises(s)

Next == \E s \in Sources : Source(s) \/ Coroutine(s)

Spec == Init /\ [][Next]_vars

\* The sources are threads of another process.  asyncio runs what is ready in
\* the order it became ready, so a coroutine whose sleep is over gets its turn
\* whenever the loop comes back to it often enough (strong fairness).  Nothing
\* has to end, and no semaphore is fair.
FairSpec ==
    /\ Spec
    /\ \A s \in Sources : /\ WF_vars(Source(s) /\ ~Ended(s)')
                          /\ WF_vars(Coroutine(s))
                          /\ SF_vars(Resume(s) \/ Proceed(s))

-----------------------------------------------------------------------------
(* Properties.                                                             *)

Holds(s) == pc[s] \in HeldPC
Written(s) == src[s] \in {"clearing", "writing", "dead"}
Waits(s) == task = s /\ pc[s] \in AcquirePC /\ free[s] = 0

\* Types; the coroutines that do not run are at an await.
TypeOK ==
    /\ SourceTypeOK /\ cycles \in [Sources -> 0 .. 2]
    /\ task \in Sources \cup {NoTask}
    /\ pc \in [Sources -> AwaitPC \cup AcquirePC \cup HeldPC \cup {"apply"}]
    /\ acked \in [Sources -> BOOLEAN]
    /\ \A s \in Sources : task = s <=> pc[s] \notin AwaitPC

\* The loop stands still for a semaphore only in the first cycle of a source:
\* before it begins, while it writes, or if it ended there.  From the second
\* cycle on there is a permit for the coroutine whatever the source does, and
\* while it waits the partition holds no other permit, so that no two sources
\* and coroutines can wait for each other in a ring.
BlocksOnlyInFirstCycle ==
    \A s \in Sources : Waits(s) =>
        /\ cycles[s] = 0 \/ (cycles[s] = 1 /\ Written(s))
        /\ \A u \in Sources : ~Holds(u)

\* What stops the loop for ever: a source that ends before or in its first
\* cycle, or one that cleared its segment and died, when the pass over the old
\* values raises every time.
Stops(s) == Ended(s) /\ (cycles[s] < 2 \/ text[s] = "empty")

\* A pass that raises leads straight to the next acquire, and a source that
\* writes meanwhile can have a new text for it each time.  Its interval of a
\* second prevents that, and time is not in the model: so the passes raise for a
\* while only, or the source has ended.
Calm(s) == <>[][~ApplyRaises(s)]_vars \/ <>[]Ended(s)

\* Unless a source stops it, the loop comes back to the server again and again,
\* though every acquire blocks it and an exception skips the sleep: a source
\* that ends later leaves a digest, over which the coroutine sleeps.
LoopTurns ==
    ([](\A s \in Sources : ~Stops(s)) /\ \A s \in Sources : Calm(s))
        => []<>(task = NoTask)

\* Nor does one source starve the other: once the populations are done, both
\* coroutines read their segments again and again, whether their sources go on
\* writing or have ended.  (Until then the second waits for the first sample of
\* the first source.)
BothServed ==
    ([](\A s \in Sources : ~Stops(s)) /\ \A s \in Sources : Calm(s))
        => (<>(\A s \in Sources : pc[s] \notin {"unborn", "populating", "populated"})
            => \A s \in Sources : []<>(pc[s] \in {"read", "reread"}))
=============================================================================

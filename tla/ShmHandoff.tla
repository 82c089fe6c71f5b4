------------------------------ MODULE ShmHandoff ------------------------------
(***************************************************************************)
(* The hand-off of process values from the data aggregation (CPC)          *)
(* partition to its consumers through shared memory segments, each guarded *)
(* by one POSIX semaphore.                                                 *)
(*                                                                         *)
(* One producer thread (periodic_read) serves the segments in the order of *)
(* its shm_list.  Segment s has one consumer process: the reader thread of *)
(* the psM+O partition ("psmo") or the update coroutine of the interface   *)
(* partition ("interface").                                                *)
(*                                                                         *)
(* A shared memory statement (clear, write, read) is one step.  A reader   *)
(* whose copy overlaps one of the producer's copies may see a torn text.   *)
(* A sample's JSON text is longer than an MD5 hex digest: it covers a      *)
(* digest it is written over, while a digest written over a sample leaves  *)
(* text that is neither.  It is the other way round for the text {} of a   *)
(* cycle in which every OPC UA client has only just reconnected.           *)
(***************************************************************************)
EXTENDS Naturals

CONSTANTS N,            \* number of segments of the producer
          Kind,         \* which partition consumes a segment
          QueueSize,    \* maxsize of the psM+O queue.Queue
          Oversize,     \* the cycles whose JSON text exceeds the segment
          Blank,        \* the cycles whose sample has no entries
          MaxCycles,    \* bound: producer cycles explored
          MaxRestarts   \* bound: restarts of the psM+O process explored

Segs == 1..N

ASSUME NAssumption == N \in Nat \ {0}
ASSUME KindAssumption == Kind \in [Segs -> {"psmo", "interface"}]
ASSUME BoundAssumption ==
    /\ QueueSize \in Nat \ {0}
    /\ MaxCycles \in Nat
    /\ MaxRestarts \in Nat
    /\ Oversize \subseteq Nat /\ Blank \subseteq Nat

\* What the bytes of a segment decode to, trailing zero bytes stripped.
Json(v) == [tag |-> "json", val |-> v]       \* the sample of cycle v
Empty   == [tag |-> "empty", val |-> 0]      \* all zero bytes
Digest  == [tag |-> "digest", val |-> 0]     \* the consumer's acknowledgement
Garbage == [tag |-> "garbage", val |-> 0]    \* not a JSON text, not a digest

Content == [tag : {"json", "empty", "digest", "garbage"}, val : Nat]

VARIABLES
    free,       \* free[s]: value of the semaphore of segment s
    buf,        \* buf[s]: content of the shared memory of segment s
    ppc,        \* next statement of the producer thread
    seg,        \* segment the producer's inner loop is at
    cycle,      \* number of the sample the producer holds
    cpc,        \* cpc[s]: next statement of the consumer of segment s
    got,        \* got[s]: the text the consumer read last
    acked,      \* acked[s]: the consumer's response is a digest, not ""
    delivered,  \* delivered[s]: the last sample the consumer decoded
    qlen,       \* qlen[s]: length of the psM+O queue of segment s
    leaked,     \* leaked[s]: permits acquired and never to be released
    restarts    \* restarts of psM+O consumers so far

vars == <<free, buf, ppc, seg, cycle, cpc, got, acked, delivered, qlen,
          leaked, restarts>>

producer == <<ppc, seg, cycle>>
consumer == <<cpc, got, acked, delivered, qlen, leaked, restarts>>

ProducerPC == {"sample", "announce", "acquire", "clear", "write", "release",
               "dead"}
PopulatePC == {"popacquire", "popread", "poprelease", "popretry"}
ConsumerPC == {"acquire", "read", "spin", "reacquire", "reread", "decode",
               "put", "clear", "hash", "release"} \cup PopulatePC

Start(s) == IF Kind[s] = "psmo" THEN "acquire" ELSE "popacquire"

\* The segments and semaphores exist: the producer creates them (O_CREX, value
\* 0) before it starts to sample, the consumers sleep five to seven seconds.
Init ==
    /\ free = [s \in Segs |-> 0]
    /\ buf = [s \in Segs |-> Empty]
    /\ ppc = "sample" /\ seg = 1 /\ cycle = 0
    /\ cpc = [s \in Segs |-> Start(s)]
    /\ got = [s \in Segs |-> Empty]
    /\ acked = [s \in Segs |-> FALSE]
    /\ delivered = [s \in Segs |-> 0]
    /\ qlen = [s \in Segs |-> 0]
    /\ leaked = [s \in Segs |-> 0]
    /\ restarts = 0

Post(s) == free' = [free EXCEPT ![s] = @ + 1]

\* Mutants of Wait: the value is not looked at; a semaphore that is busy is
\* taken for acquired.
WaitUnchecked(s) == free' = [free EXCEPT ![s] = @ - 1]
WaitBusyIgnored(s) == free' = [free EXCEPT ![s] = IF @ > 0 THEN @ - 1 ELSE 0]

Wait(s) == free[s] > 0 /\ free' = [free EXCEPT ![s] = @ - 1]

-----------------------------------------------------------------------------
(* The producer: periodic_read.                                            *)

\* Read all endpoints into a new sample and enter the loop over the segments.
Sample ==
    /\ ppc = "sample" /\ cycle < MaxCycles
    /\ cycle' = cycle + 1 /\ seg' = 1 /\ ppc' = "announce"
    /\ UNCHANGED <<free, buf, consumer>>

\* sem.release() before the ten milliseconds pause.
Announce ==
    /\ ppc = "announce"
    /\ Post(seg)
    /\ ppc' = "acquire"
    /\ UNCHANGED <<buf, seg, cycle, consumer>>

Acquire ==
    /\ ppc = "acquire"
    /\ Wait(seg)
    /\ ppc' = "clear"
    /\ UNCHANGED <<buf, seg, cycle, consumer>>

\* Mutant: the new sample is in the segment before the write that announces it.
ClearByWriting ==
    /\ ppc = "clear"
    /\ buf' = [buf EXCEPT ![seg] = Json(cycle)]
    /\ ppc' = "write"
    /\ UNCHANGED <<free, seg, cycle, consumer>>

Clear ==
    /\ ppc = "clear"
    /\ buf' = [buf EXCEPT ![seg] = Empty]
    /\ ppc' = "write"
    /\ UNCHANGED <<free, seg, cycle, consumer>>

\* Writing a text longer than the segment raises ValueError, which nothing in
\* the thread catches: it ends with the permit in its hands.  The text {} covers
\* nothing of what a consumer wrote since the segment was cleared.
Write ==
    /\ ppc = "write"
    /\ IF cycle \in Oversize
       THEN ppc' = "dead" /\ buf' = buf
       ELSE ppc' = "release" /\ buf' = [buf EXCEPT ![seg] =
               IF cycle \in Blank /\ @ # Empty THEN Garbage ELSE Json(cycle)]
    /\ UNCHANGED <<free, seg, cycle, consumer>>

\* Mutant: the permit posted before the pause is taken for the one to post now.
ReleaseForgotten ==
    /\ ppc = "release"
    /\ IF seg = N THEN ppc' = "sample" /\ seg' = seg
                  ELSE ppc' = "announce" /\ seg' = seg + 1
    /\ UNCHANGED <<free, buf, cycle, consumer>>

Release ==
    /\ ppc = "release"
    /\ Post(seg)
    /\ IF seg = N THEN ppc' = "sample" /\ seg' = seg
                  ELSE ppc' = "announce" /\ seg' = seg + 1
    /\ UNCHANGED <<buf, cycle, consumer>>

Producer == Sample \/ Announce \/ Acquire \/ Clear \/ Write \/ Release

-----------------------------------------------------------------------------
(* The consumers.  The psM+O thread and the interface coroutine share the  *)
(* shape of their loop and differ in what a text that does not decode does.*)

ProducerCopies(s) == seg = s /\ ppc \in {"clear", "write"}

\* What a read of the whole segment can return.
Seen(s) == {buf[s]} \cup (IF ProducerCopies(s) THEN {Garbage} ELSE {})

\* Mutant: the digest is compared as bytes with a string, and never equal.
UnchangedNever(s, c) == FALSE

\* The segment holds the digest this consumer left there.
Unchanged(s, c) == c = Digest /\ acked[s]

Goto(s, pc) == cpc' = [cpc EXCEPT ![s] = pc]

\* semaphore.acquire(), at the head of the loop or of the inner loop.
CAcquire(s) ==
    /\ \/ cpc[s] = "acquire" /\ Goto(s, "read")
       \/ cpc[s] = "reacquire" /\ Goto(s, "reread")
       \/ cpc[s] = "popacquire" /\ Goto(s, "popread")
    /\ Wait(s)
    /\ UNCHANGED <<buf, producer, got, acked, delivered, qlen, leaked, restarts>>

\* The first read of an iteration: an empty segment ends the iteration.
CRead(s) ==
    /\ cpc[s] = "read"
    /\ \E c \in Seen(s) :
        /\ got' = [got EXCEPT ![s] = c]
        /\ Goto(s, IF c = Empty THEN "release"
                   ELSE IF Unchanged(s, c) THEN "spin" ELSE "decode")
    /\ UNCHANGED <<free, buf, producer, acked, delivered, qlen, leaked, restarts>>

\* The read of the inner loop: nothing tests it for emptiness.
CReread(s) ==
    /\ cpc[s] = "reread"
    /\ \E c \in Seen(s) :
        /\ got' = [got EXCEPT ![s] = c]
        /\ Goto(s, IF Unchanged(s, c) THEN "spin" ELSE "decode")
    /\ UNCHANGED <<free, buf, producer, acked, delivered, qlen, leaked, restarts>>

CSpin(s) ==
    /\ cpc[s] = "spin"
    /\ Post(s)
    /\ Goto(s, "reacquire")
    /\ UNCHANGED <<buf, producer, got, acked, delivered, qlen, leaked, restarts>>

\* json.loads of a sample.  The psM+O thread goes on to queue.put, the
\* interface keeps the values for its address space.
CDecode(s) ==
    /\ cpc[s] = "decode" /\ got[s].tag = "json"
    /\ IF Kind[s] = "psmo"
       THEN Goto(s, "put") /\ UNCHANGED delivered
       ELSE Goto(s, "clear") /\ delivered' = [delivered EXCEPT ![s] = got[s].val]
    /\ UNCHANGED <<free, buf, producer, got, acked, qlen, leaked, restarts>>

\* Mutant: the interface's try, too, encloses the whole iteration.
CDecodeFailsLeaks(s) ==
    /\ cpc[s] = "decode" /\ got[s].tag # "json"
    /\ Goto(s, "acquire") /\ leaked' = [leaked EXCEPT ![s] = @ + 1]
    /\ UNCHANGED <<free, buf, producer, got, acked, delivered, qlen, restarts>>

\* json.loads raises.  The interface catches it and acknowledges the text; the
\* psM+O thread catches it outside the iteration and never posts its permit.
CDecodeFails(s) ==
    /\ cpc[s] = "decode" /\ got[s].tag # "json"
    /\ IF Kind[s] = "psmo"
       THEN Goto(s, "acquire") /\ leaked' = [leaked EXCEPT ![s] = @ + 1]
       ELSE Goto(s, "clear") /\ UNCHANGED leaked
    /\ UNCHANGED <<free, buf, producer, got, acked, delivered, qlen, restarts>>

\* queue.put blocks while the queue is full, the permit still held.
CPut(s) ==
    /\ cpc[s] = "put" /\ qlen[s] < QueueSize
    /\ qlen' = [qlen EXCEPT ![s] = @ + 1]
    /\ delivered' = [delivered EXCEPT ![s] = got[s].val]
    /\ Goto(s, "clear")
    /\ UNCHANGED <<free, buf, producer, got, acked, leaked, restarts>>

\* The main loop of the psM+O partition takes an item.
MainGet(s) ==
    /\ qlen[s] > 0
    /\ qlen' = [qlen EXCEPT ![s] = @ - 1]
    /\ UNCHANGED <<free, buf, producer, cpc, got, acked, delivered, leaked,
                   restarts>>

\* Mutant: the text is not acknowledged in the segment.
CClearSkipped(s) ==
    /\ cpc[s] = "clear"
    /\ acked' = [acked EXCEPT ![s] = TRUE]
    /\ Goto(s, "release")
    /\ UNCHANGED <<free, buf, producer, got, delivered, qlen, leaked, restarts>>

\* response = md5(text), then the segment is zeroed ...
CClear(s) ==
    /\ cpc[s] = "clear"
    /\ acked' = [acked EXCEPT ![s] = TRUE]
    /\ buf' = [buf EXCEPT ![s] = Empty]
    /\ Goto(s, "hash")
    /\ UNCHANGED <<free, producer, got, delivered, qlen, leaked, restarts>>

\* ... and the digest written at its start: over a sample that arrived in
\* between it leaves garbage, or nothing of a sample without entries.
CHash(s) ==
    /\ cpc[s] = "hash"
    /\ buf' = [buf EXCEPT ![s] =
          IF @ \in {Empty, Digest} \cup {Json(v) : v \in Blank} THEN Digest ELSE Garbage]
    /\ Goto(s, "release")
    /\ UNCHANGED <<free, producer, got, acked, delivered, qlen, leaked, restarts>>

CRelease(s) ==
    /\ \/ cpc[s] \in {"release", "poprelease"} /\ Goto(s, "acquire")
       \/ cpc[s] = "popretry" /\ Goto(s, "popacquire")
    /\ Post(s)
    /\ UNCHANGED <<buf, producer, got, acked, delivered, qlen, leaked, restarts>>

\* The interface first builds its address space from a sample.  Anything else,
\* or a sample no variable could be built from, is tried again; both ways the
\* permit is posted.
PopulateRead(s) ==
    /\ cpc[s] = "popread"
    /\ \E c \in Seen(s) :
        /\ got' = [got EXCEPT ![s] = c]
        /\ \/ c.tag = "json" /\ Goto(s, "poprelease")
           \/ Goto(s, "popretry")
    /\ UNCHANGED <<free, buf, producer, acked, delivered, qlen, leaked, restarts>>

ConsumerHolds(s) ==
    cpc[s] \in {"read", "spin", "reread", "decode", "put", "clear", "hash",
                "release", "popread", "poprelease", "popretry"}

\* The psM+O process ends and is started again: its permit is not given back,
\* its queue and response are new, and a copy it was in the middle of leaves a
\* partial text.  (The interface cannot be started again in the same IPC
\* namespace: its message queue is created with O_CREX and never unlinked.)
Restart(s) ==
    /\ Kind[s] = "psmo" /\ restarts < MaxRestarts
    /\ restarts' = restarts + 1
    /\ leaked' = [leaked EXCEPT ![s] = IF ConsumerHolds(s) THEN @ + 1 ELSE @]
    /\ \/ buf' = buf
       \/ cpc[s] \in {"clear", "hash"} /\ buf' = [buf EXCEPT ![s] = Garbage]
    /\ acked' = [acked EXCEPT ![s] = FALSE]
    /\ qlen' = [qlen EXCEPT ![s] = 0]
    /\ got' = [got EXCEPT ![s] = Empty]
    /\ Goto(s, Start(s))
    /\ UNCHANGED <<free, producer, delivered>>

Consumer(s) ==
    \/ CAcquire(s) \/ CRead(s) \/ CReread(s) \/ CSpin(s) \/ CDecode(s)
    \/ CDecodeFails(s) \/ CPut(s) \/ CClear(s) \/ CHash(s) \/ CRelease(s)
    \/ PopulateRead(s)

Next ==
    \/ Producer
    \/ \E s \in Segs : Consumer(s) \/ MainGet(s) \/ Restart(s)

Spec == Init /\ [][Next]_vars

\* Every thread that can take a step eventually takes one.  Nothing stronger: a
\* POSIX semaphore does not promise that a given waiter is ever served, and
\* nothing is assumed of the main loop that empties the psM+O queue.
FairSpec == Spec /\ WF_vars(Producer) /\ \A s \in Segs : WF_vars(Consumer(s))

-----------------------------------------------------------------------------
(* Properties.                                                             *)

TypeOK ==
    /\ free \in [Segs -> Nat]
    /\ buf \in [Segs -> Content]
    /\ ppc \in ProducerPC
    /\ seg \in Segs
    /\ cycle \in Nat
    /\ cpc \in [Segs -> ConsumerPC]
    /\ got \in [Segs -> Content]
    /\ acked \in [Segs -> BOOLEAN]
    /\ delivered \in [Segs -> Nat]
    /\ qlen \in [Segs -> 0..QueueSize]
    /\ leaked \in [Segs -> Nat]
    /\ restarts \in 0..MaxRestarts

ProducerHolds(s) == seg = s /\ ppc \in {"clear", "write", "release", "dead"}

\* How often the producer has executed the first release of segment s.
Granted(s) ==
    IF ppc = "sample" \/ s < seg \/ (s = seg /\ ppc # "announce")
    THEN cycle ELSE cycle - 1

\* The last sample written to segment s.
Published(s) ==
    IF ppc = "sample" \/ s < seg \/ (s = seg /\ ppc = "release")
    THEN cycle ELSE cycle - 1

Count(b) == IF b THEN 1 ELSE 0
Held(s) == Count(ProducerHolds(s)) + Count(ConsumerHolds(s))

\* Every permit of a semaphore is free, held by one of the two processes or
\* lost, and there is exactly one per producer cycle: the release before the
\* producer's own acquire adds a permit in every cycle that is never taken back.
PermitAccounting ==
    \A s \in Segs : free[s] + Held(s) + leaked[s] = Granted(s)

\* The interface gives back every permit it takes, whatever text it reads: while
\* the producer waits for an interface segment, a permit is free or the
\* interface is about to post one.
InterfaceKeepsPermits ==
    \A s \in Segs : Kind[s] = "interface" =>
        /\ leaked[s] = 0
        /\ (seg = s /\ ppc = "acquire") => (free[s] > 0 \/ ConsumerHolds(s))

\* The protocol is the one intended as long as only one permit exists: the two
\* processes exclude each other, the segment never holds garbage, and the psM+O
\* thread finds every text it decodes to be a sample, so it loses no permit.
SinglePermitClean ==
    \A s \in Segs : (Granted(s) <= 1 /\ restarts = 0) =>
        /\ ~ (ProducerHolds(s) /\ ConsumerHolds(s))
        /\ buf[s] # Garbage
        /\ leaked[s] = 0

Delivers(s) ==
    \/ Kind[s] = "psmo" /\ cpc[s] = "put" /\ cpc'[s] = "clear"
    \/ Kind[s] = "interface" /\ cpc[s] = "decode" /\ got[s].tag = "json"
                             /\ cpc'[s] = "clear"

\* A consumer that was never restarted decodes no sample twice and none older
\* than the last, although neither the semaphore nor the digest guarantees it:
\* the digest only tells it its own acknowledgement apart.
DeliversOnce ==
    [][\A s \in Segs : (restarts = 0 /\ Delivers(s)) =>
                          got[s].val \in (delivered[s] + 1)..Published(s)]_vars

\* The samples a consumer decodes are those of a channel that keeps the latest.
Channel == INSTANCE SampleChannel
               WITH published <- [s \in Segs |-> Published(s)]
ChannelSpec == Channel!Spec

\* What a psM+O thread and its partition see of all this: PsmoPartition of one
\* source.  It posts in the step after which a post is all that is left to do,
\* and decides what to do with a text in the step that reads it.
ViewedPermits(s) ==
    LET n == free[s] + Count(seg = s /\ ppc = "release")
                     + Count(cpc[s] \in {"spin", "release"})
    IN  IF n < 2 THEN n ELSE 2

ViewedSource(s) ==
    IF ppc = "dead" THEN IF seg = s THEN "dead" ELSE "ended"
    ELSE IF seg # s \/ ppc \in {"sample", "announce", "release"} THEN "rest"
    ELSE IF ppc = "acquire" THEN "announced"
    ELSE IF ppc = "clear" THEN "clearing" ELSE "writing"

ViewedText(s) == IF buf[s].tag = "json" THEN "sample" ELSE buf[s].tag

ViewedReader(s) ==
    IF cycle = 0 THEN "start"
    ELSE CASE cpc[s] = "spin" -> "reacquire"
           [] cpc[s] = "decode" -> IF got[s].tag = "json" THEN "put" ELSE "head"
           [] cpc[s] = "clear" -> "acknowledge"
           [] cpc[s] = "hash" -> "respond"
           [] cpc[s] = "release" -> "head"
           [] OTHER -> cpc[s]

View(s) == INSTANCE PsmoPartition
    WITH Sources <- {s}, MaxPermits <- 2, Blanks <- {s},
         free <- [x \in {s} |-> ViewedPermits(x)],
         src <- [x \in {s} |-> ViewedSource(x)],
         text <- [x \in {s} |-> ViewedText(x)],
         rpc <- [x \in {s} |-> ViewedReader(x)],
         acked <- [x \in {s} |-> acked[x]],
         q <- [x \in {s} |-> qlen[x]],
         main <- "running", late <- [x \in {s} |-> 0]

\* PsmoPartition, where it is checked that the partition ends, leaves out of a
\* cycle of the producer what it does with the other segments, and its samples
\* have no numbers.  No behaviour of a psM+O thread is lost by that: it is one of
\* PsmoPartition, between restarts.
PsmoSegs == {s \in Segs : Kind[s] = "psmo"}

PsmoViewed ==
    /\ \A s \in PsmoSegs : View(s)!Init
    /\ [][\A s \in PsmoSegs : [View(s)!Next]_(View(s)!vars) \/ Restart(s)]_vars

\* From the second cycle on the producer is served although semaphores are not
\* fair and although the psM+O thread may block in queue.put with a permit in
\* its hands for ever: only a lost permit can stop it.
ServedUnlessLeaked ==
    \A s \in Segs :
        (cycle >= 2 /\ seg = s /\ ppc = "acquire" /\ leaked[s] = 0)
            ~> (ppc = "clear" \/ leaked[s] > 0)

\* Documented, and not so: the producer writes every segment in every cycle.
PeriodicallyWritten ==
    \A s \in Segs : (cycle >= 2 /\ seg = s /\ ppc = "acquire") ~> (ppc = "clear")

=============================================================================

--------------------------- MODULE ShmHandoffProofs ---------------------------
(***************************************************************************)
(* Theorems about the shared memory hand-off, for any number of segments,  *)
(* any assignment of consumers to them and any bound on cycles, restarts   *)
(* and the queue.                                                          *)
(***************************************************************************)
EXTENDS ShmHandoff, Integers, TLAPS

\* The producer's inner loop stays within its list of segments.
LEMMA NextSegment ==
    ASSUME NEW i \in Segs, i # N
    PROVE  i + 1 \in Segs
  BY NAssumption DEF Segs

\* No step takes a variable out of its type.
LEMMA TypePreserved == TypeOK /\ [Next]_vars => TypeOK'
<1> SUFFICES ASSUME TypeOK, [Next]_vars PROVE TypeOK'
  OBVIOUS
<1>1. CASE Sample
  BY <1>1, NAssumption DEF Segs, TypeOK, Sample, consumer, ProducerPC
<1>2. CASE Announce
  BY <1>2 DEF TypeOK, Announce, Post, consumer, ProducerPC
<1>3. CASE Acquire
  BY <1>3 DEF TypeOK, Acquire, Wait, consumer, ProducerPC
<1>4. CASE Clear
  BY <1>4 DEF TypeOK, Clear, consumer, ProducerPC, Content, Empty
<1>5. CASE Write
  <2>1. Json(cycle) \in Content
    BY DEF TypeOK, Json, Content
  <2>2. buf' \in [Segs -> Content]
    BY <1>5, <2>1 DEF TypeOK, Write, Content, Garbage
  <2> QED
    BY <1>5, <2>2 DEF TypeOK, Write, consumer, ProducerPC
<1>6. CASE Release
  <2>1. seg' \in Segs
    BY <1>6, NextSegment DEF TypeOK, Release
  <2>2. free' \in [Segs -> Nat]
    BY <1>6 DEF TypeOK, Release, Post
  <2> QED
    BY <1>6, <2>1, <2>2 DEF TypeOK, Release, consumer, ProducerPC
<1>7. ASSUME NEW s \in Segs, Consumer(s) PROVE TypeOK'
  <2> USE DEF TypeOK, Goto, ConsumerPC, PopulatePC, Content, producer
  <2>1. CASE CAcquire(s)
    <3>1. free' \in [Segs -> Nat]
      BY <2>1 DEF CAcquire, Wait
    <3>2. cpc' \in [Segs -> ConsumerPC]
      BY <2>1 DEF CAcquire
    <3> QED
      BY <2>1, <3>1, <3>2 DEF CAcquire
  <2>2. CASE CRead(s)
    BY <2>2 DEF CRead, Seen, Garbage
  <2>3. CASE CReread(s)
    BY <2>3 DEF CReread, Seen, Garbage
  <2>4. CASE CSpin(s)
    BY <2>4 DEF CSpin, Post
  <2>5. CASE CDecode(s)
    BY <2>5 DEF CDecode
  <2>6. CASE CDecodeFails(s)
    <3>1. leaked' \in [Segs -> Nat]
      BY <2>6 DEF CDecodeFails
    <3>2. cpc' \in [Segs -> ConsumerPC]
      BY <2>6 DEF CDecodeFails
    <3> QED
      BY <2>6, <3>1, <3>2 DEF CDecodeFails
  <2>7. CASE CPut(s)
    BY <2>7, BoundAssumption DEF CPut
  <2>8. CASE CClear(s)
    BY <2>8 DEF CClear, Empty
  <2>9. CASE CHash(s)
    <3>1. Digest \in Content /\ Garbage \in Content
      BY DEF Digest, Garbage
    <3>2. PICK c \in {Digest, Garbage} : buf' = [buf EXCEPT ![s] = c]
      BY <2>9, Zenon DEF CHash
    <3>3. buf' \in [Segs -> Content]
      BY <3>1, <3>2
    <3>4. /\ cpc' = [cpc EXCEPT ![s] = "release"]
          /\ UNCHANGED <<free, producer, got, acked, delivered, qlen, leaked, restarts>>
      BY <2>9, Zenon DEF CHash
    <3> QED
      BY <3>3, <3>4
  <2>10. CASE CRelease(s)
    <3>1. free' \in [Segs -> Nat]
      BY <2>10 DEF CRelease, Post
    <3>2. cpc' \in [Segs -> ConsumerPC]
      BY <2>10 DEF CRelease
    <3> QED
      BY <2>10, <3>1, <3>2 DEF CRelease
  <2>11. CASE PopulateRead(s)
    BY <2>11 DEF PopulateRead, Seen, Garbage
  <2> QED
    BY <1>7, <2>1, <2>2, <2>3, <2>4, <2>5, <2>6, <2>7, <2>8, <2>9, <2>10,
       <2>11 DEF Consumer
<1>8. ASSUME NEW s \in Segs, MainGet(s) PROVE TypeOK'
  BY <1>8, BoundAssumption DEF TypeOK, MainGet, producer
<1>9. ASSUME NEW s \in Segs, Restart(s) PROVE TypeOK'
  <2>1. Garbage \in Content /\ Empty \in Content
    BY DEF Content, Empty, Garbage
  <2>2. Start(s) \in ConsumerPC
    BY DEF Start, ConsumerPC, PopulatePC
  <2>3. buf' \in [Segs -> Content] /\ got' \in [Segs -> Content]
    BY <1>9, <2>1 DEF TypeOK, Restart
  <2>4. restarts' \in 0..MaxRestarts
    BY <1>9, BoundAssumption DEF TypeOK, Restart
  <2>5. /\ cpc' \in [Segs -> ConsumerPC] /\ leaked' \in [Segs -> Nat]
        /\ qlen' \in [Segs -> 0..QueueSize]
    BY <1>9, <2>2, BoundAssumption DEF TypeOK, Restart, Goto
  <2> QED
    BY <1>9, <2>3, <2>4, <2>5 DEF TypeOK, Restart, producer
<1>10. CASE UNCHANGED vars
  BY <1>10 DEF TypeOK, vars
<1> QED
  BY <1>1, <1>2, <1>3, <1>4, <1>5, <1>6, <1>7, <1>8, <1>9, <1>10
     DEF Next, Producer

\* Every variable keeps its type: what the other invariants count and compare
\* is what the model says it is.
THEOREM TypeCorrect == Spec => []TypeOK
<1>1. Init => TypeOK
  BY NAssumption, BoundAssumption
     DEF Segs, Init, TypeOK, Start, ProducerPC, ConsumerPC, PopulatePC,
         Content, Empty
<1> QED
  BY <1>1, TypePreserved, PTL DEF Spec

-----------------------------------------------------------------------------
(* Permits.                                                                *)

\* A cycle has begun whenever the producer is inside it.
CycleBegun == ppc # "sample" => cycle >= 1

Balance(s) == free[s] + Held(s) + leaked[s] = Granted(s)

\* The interface loses no permit because no step of it leaves an iteration
\* without a post.
InterfaceNeverLeaks == \A s \in Segs : Kind[s] = "interface" => leaked[s] = 0

PermitInv == TypeOK /\ CycleBegun /\ PermitAccounting /\ InterfaceNeverLeaks

\* A step of a consumer leaves alone what the producer and the other consumers
\* count.
LEMMA ConsumerLocal ==
    ASSUME NEW t \in Segs, TypeOK, Consumer(t) \/ MainGet(t) \/ Restart(t)
    PROVE  /\ UNCHANGED producer
           /\ \A s \in Segs \ {t} : /\ free'[s] = free[s]
                                    /\ cpc'[s] = cpc[s]
                                    /\ leaked'[s] = leaked[s]
<1> USE DEF TypeOK, producer, Goto
<1>1. CASE CAcquire(t)
  BY <1>1 DEF CAcquire, Wait
<1>2. CASE CRead(t)
  BY <1>2 DEF CRead
<1>3. CASE CReread(t)
  BY <1>3 DEF CReread
<1>4. CASE CSpin(t)
  BY <1>4 DEF CSpin, Post
<1>5. CASE CDecode(t)
  BY <1>5 DEF CDecode
<1>6. CASE CDecodeFails(t)
  BY <1>6 DEF CDecodeFails
<1>7. CASE CPut(t)
  BY <1>7 DEF CPut
<1>8. CASE CClear(t)
  BY <1>8 DEF CClear
<1>9. CASE CHash(t)
  BY <1>9 DEF CHash
<1>10. CASE CRelease(t)
  BY <1>10 DEF CRelease, Post
<1>11. CASE PopulateRead(t)
  BY <1>11 DEF PopulateRead
<1>12. CASE MainGet(t)
  BY <1>12 DEF MainGet
<1>13. CASE Restart(t)
  BY <1>13 DEF Restart
<1> QED
  BY <1>1, <1>2, <1>3, <1>4, <1>5, <1>6, <1>7, <1>8, <1>9, <1>10, <1>11,
     <1>12, <1>13 DEF Consumer

\* A consumer's step moves a permit between the semaphore, its own hands and
\* the lost ones, and makes or destroys none.
LEMMA ConsumerConserves ==
    ASSUME NEW t \in Segs, TypeOK, Consumer(t) \/ MainGet(t) \/ Restart(t)
    PROVE  /\ free'[t] + Count(ConsumerHolds(t))' + leaked'[t]
                  = free[t] + Count(ConsumerHolds(t)) + leaked[t]
           /\ Kind[t] = "interface" => leaked'[t] = leaked[t]
<1> USE DEF TypeOK, ConsumerHolds, Count, Goto
<1>1. CASE CAcquire(t)
  BY <1>1 DEF CAcquire, Wait
<1>2. CASE CRead(t)
  BY <1>2 DEF CRead
<1>3. CASE CReread(t)
  BY <1>3 DEF CReread
<1>4. CASE CSpin(t)
  BY <1>4 DEF CSpin, Post
<1>5. CASE CDecode(t)
  BY <1>5 DEF CDecode
<1>6. CASE CDecodeFails(t)
  BY <1>6 DEF CDecodeFails
<1>7. CASE CPut(t)
  BY <1>7 DEF CPut
<1>8. CASE CClear(t)
  BY <1>8 DEF CClear
<1>9. CASE CHash(t)
  BY <1>9 DEF CHash
<1>10. CASE CRelease(t)
  BY <1>10 DEF CRelease, Post
<1>11. CASE PopulateRead(t)
  BY <1>11 DEF PopulateRead
<1>12. CASE MainGet(t)
  BY <1>12 DEF MainGet
<1>13. CASE Restart(t)
  BY <1>13 DEF Restart, Start
<1> QED
  BY <1>1, <1>2, <1>3, <1>4, <1>5, <1>6, <1>7, <1>8, <1>9, <1>10, <1>11,
     <1>12, <1>13 DEF Consumer

\* A producer's step adds a permit exactly where it begins a segment.
LEMMA ProducerBalance ==
    ASSUME TypeOK, CycleBegun, Producer, NEW s \in Segs, Balance(s)
    PROVE  Balance(s)' /\ CycleBegun' /\ leaked'[s] = leaked[s]
<1> USE DEF TypeOK, CycleBegun, Balance, Held, Granted, ProducerHolds, Count,
            ConsumerHolds, consumer
<1>1. s \in Nat /\ 1 <= s /\ s <= N /\ seg \in Nat /\ N \in Nat
  BY NAssumption DEF Segs
<1>2. CASE Sample
  BY <1>1, <1>2 DEF Sample
<1>3. CASE Announce
  BY <1>1, <1>3 DEF Announce, Post
<1>4. CASE Acquire
  BY <1>1, <1>4 DEF Acquire, Wait
<1>5. CASE Clear
  BY <1>1, <1>5 DEF Clear
<1>6. CASE Write
  BY <1>1, <1>6 DEF Write
<1>7. CASE Release
  BY <1>1, <1>7 DEF Release, Post
<1> QED
  BY <1>2, <1>3, <1>4, <1>5, <1>6, <1>7 DEF Producer

\* Permits are counted as PermitAccounting says, and those of an interface
\* segment are never lost.
LEMMA PermitInvariant == Spec => []PermitInv
<1>1. Init => PermitInv
  <2> SUFFICES ASSUME Init PROVE PermitInv
    OBVIOUS
  <2>1. TypeOK
    BY NAssumption, BoundAssumption
       DEF Segs, Init, TypeOK, Start, ProducerPC, ConsumerPC, PopulatePC,
           Content, Empty
  <2>2. CycleBegun /\ InterfaceNeverLeaks
    BY DEF Init, CycleBegun, InterfaceNeverLeaks
  <2>3. PermitAccounting
    BY DEF Init, PermitAccounting, Held, Granted, ProducerHolds, ConsumerHolds,
           Count, Start
  <2> QED
    BY <2>1, <2>2, <2>3 DEF PermitInv
<1>2. TypeOK /\ TypeOK' /\ PermitInv /\ [Next]_vars => PermitInv'
  <2> SUFFICES ASSUME TypeOK, TypeOK', PermitInv, [Next]_vars PROVE PermitInv'
    OBVIOUS
  <2>1. CASE Producer
    <3>1. ASSUME NEW s \in Segs
          PROVE  Balance(s)' /\ CycleBegun' /\ leaked'[s] = leaked[s]
      BY <2>1, ProducerBalance DEF PermitInv, PermitAccounting, Balance
    <3>2. CycleBegun'
      BY <3>1, NAssumption DEF Segs
    <3> QED
      BY <3>1, <3>2 DEF PermitInv, PermitAccounting, Balance,
                        InterfaceNeverLeaks
  <2>2. ASSUME NEW t \in Segs, Consumer(t) \/ MainGet(t) \/ Restart(t)
        PROVE  PermitInv'
    <3>1. CycleBegun'
      BY <2>2, ConsumerLocal DEF PermitInv, CycleBegun, producer
    <3>2. InterfaceNeverLeaks'
      BY <2>2, ConsumerLocal, ConsumerConserves
         DEF PermitInv, InterfaceNeverLeaks
    <3>3. ASSUME NEW s \in Segs
          PROVE  (free[s] + Held(s) + leaked[s] = Granted(s))'
      <4>1. Balance(s)
        BY DEF PermitInv, PermitAccounting, Balance
      <4>2. Granted(s)' = Granted(s) /\ ProducerHolds(s)' = ProducerHolds(s)
        BY <2>2, ConsumerLocal DEF producer, Granted, ProducerHolds
      <4>3. CASE s = t
        BY <2>2, <4>1, <4>2, <4>3, ConsumerConserves
           DEF Balance, Held, Count, TypeOK
      <4>4. CASE s # t
        BY <2>2, <4>1, <4>2, <4>4, ConsumerLocal
           DEF Balance, Held, Count, ConsumerHolds
      <4> QED
        BY <4>3, <4>4
    <3> QED
      BY <3>1, <3>2, <3>3 DEF PermitInv, PermitAccounting
  <2>3. CASE UNCHANGED vars
    BY <2>3 DEF vars, PermitInv, CycleBegun, PermitAccounting,
                InterfaceNeverLeaks, Held, Granted, ProducerHolds,
                ConsumerHolds, Count
  <2> QED
    BY <2>1, <2>2, <2>3 DEF Next
<1> QED
  BY <1>1, <1>2, TypeCorrect, PTL DEF Spec

\* One permit per producer cycle, each free, held or lost.
THEOREM PermitsAccounted == Spec => []PermitAccounting
<1>1. PermitInv => PermitAccounting
  BY DEF PermitInv
<1> QED
  BY <1>1, PermitInvariant, PTL

\* The producer never waits for an interface segment whose permits are gone.
THEOREM InterfaceServes == Spec => []InterfaceKeepsPermits
<1>1. PermitInv => InterfaceKeepsPermits
  <2> SUFFICES ASSUME PermitInv, NEW s \in Segs, Kind[s] = "interface",
                      seg = s, ppc = "acquire"
               PROVE  free[s] > 0 \/ ConsumerHolds(s)
    BY DEF InterfaceKeepsPermits, PermitInv, InterfaceNeverLeaks
  <2>1. free[s] + Held(s) = cycle /\ cycle >= 1
    BY DEF PermitInv, TypeOK, CycleBegun, PermitAccounting, Held, Count,
           InterfaceNeverLeaks, Granted
  <2>2. Held(s) = Count(ConsumerHolds(s))
    BY DEF Held, ProducerHolds, Count
  <2> QED
    BY <2>1, <2>2 DEF Count, PermitInv, TypeOK
<1> QED
  BY <1>1, PermitInvariant, PTL

-----------------------------------------------------------------------------
(* The protocol with a single permit.                                      *)

\* Where a consumer is once it has read something.
HasRead == {"decode", "put", "clear", "hash", "spin", "reacquire", "reread"}

\* While segment s has had one permit: it holds nothing, the first sample or
\* this consumer's digest, and nothing but a sample is ever decoded.
Clean(s) ==
    /\ leaked[s] = 0
    /\ buf[s] \in {Empty, Digest} \/ buf[s].tag = "json"
    /\ (buf[s] = Digest) => acked[s]
    /\ (acked[s] \/ buf[s].tag = "json" \/ cpc[s] \in HasRead) => Published(s) = 1
    /\ (cpc[s] = "decode") => (got[s].tag = "json")
    /\ (cpc[s] = "hash") => (buf[s] = Empty /\ acked[s])
    /\ (cpc[s] \in {"spin", "reacquire", "reread"}) => (buf[s] = Digest)
    /\ (ppc = "write" /\ seg = s) => (buf[s] = Empty)

Single(s) == Granted(s) <= 1 /\ restarts = 0

CleanInv == \A s \in Segs : Single(s) => Clean(s)

\* One permit cannot be in two hands.
LEMMA OnePermitExcludes ==
    ASSUME PermitInv, NEW s \in Segs, Single(s)
    PROVE  ~ (ProducerHolds(s) /\ ConsumerHolds(s))
  BY DEF PermitInv, TypeOK, PermitAccounting, Held, Count, Single

\* Before the first cycle every segment is empty and no permit exists.
LEMMA CleanInit == Init => CleanInv
  BY DEF Init, CleanInv, Clean, HasRead, Start, Empty, Digest

\* The producer touches the segment before it is published, when the consumer
\* has not read anything yet.
LEMMA CleanProducer ==
    ASSUME PermitInv, Producer, NEW s \in Segs, Single(s) => Clean(s), Single(s)'
    PROVE  Clean(s)'
<1> USE DEF PermitInv, TypeOK, CycleBegun, consumer
<1>1. s \in Nat /\ 1 <= s /\ s <= N /\ seg \in Nat /\ N \in Nat
  BY NAssumption DEF Segs
<1>2. Single(s)
  BY <1>1 DEF Producer, Sample, Announce, Acquire, Clear, Write, Release,
              Single, Granted
<1>3. Clean(s)
  BY <1>2
<1>4. CASE Sample
  BY <1>1, <1>3, <1>4 DEF Sample, Clean, Published
<1>5. CASE Announce
  BY <1>1, <1>3, <1>5 DEF Announce, Clean, Published
<1>6. CASE Acquire
  BY <1>1, <1>3, <1>6 DEF Acquire, Clean, Published
<1>7. CASE Clear
  <2>1. CASE s # seg
    BY <1>1, <1>3, <1>7, <2>1 DEF Clear, Clean, Published
  <2>2. CASE s = seg
    <3>1. Published(s) # 1
      BY <1>1, <1>2, <1>7, <2>2 DEF Clear, Published, Single, Granted
    <3> QED
      BY <1>3, <1>7, <2>2, <3>1 DEF Clear, Clean, Published, HasRead, Empty,
                                    Digest
  <2> QED
    BY <2>1, <2>2
<1>8. CASE Write
  <2>1. CASE s # seg \/ cycle \in Oversize
    BY <1>1, <1>3, <1>8, <2>1 DEF Write, Clean, Published
  <2>2. CASE s = seg /\ cycle \notin Oversize
    <3>1. cycle = 1 /\ Published(s) = 0
      BY <1>1, <1>2, <1>8, <2>2 DEF Write, Published, Single, Granted
    <3>2. cpc[s] \notin HasRead
      BY <1>3, <3>1 DEF Clean
    <3>3. Published(s)' = 1
      BY <1>1, <1>8, <2>2, <3>1 DEF Write, Published
    <3>4. buf'[s] = Json(cycle) /\ ppc' = "release"
      BY <1>3, <1>8, <2>2 DEF Write, Clean
    <3> QED
      BY <1>3, <1>8, <2>2, <3>2, <3>3, <3>4
         DEF Write, Clean, HasRead, Json, Digest, Empty
  <2> QED
    BY <2>1, <2>2
<1>9. CASE Release
  BY <1>1, <1>3, <1>9 DEF Release, Clean, Published
<1> QED
  BY <1>4, <1>5, <1>6, <1>7, <1>8, <1>9 DEF Producer

\* With the producer out of the segment a consumer reads what is there, decodes
\* only a sample and overwrites nothing but what it has read.
LEMMA CleanConsumer ==
    ASSUME PermitInv, NEW t \in Segs, Consumer(t) \/ MainGet(t) \/ Restart(t),
           Single(t), Clean(t), Single(t)'
    PROVE  Clean(t)'
<1> USE DEF PermitInv, TypeOK, Clean, HasRead, Goto, Empty, Digest
<1>1. Published(t)' = Published(t)
  BY ConsumerLocal DEF producer, Published
<1>2. ConsumerHolds(t) => Seen(t) = {buf[t]} /\ ~(ppc = "write" /\ seg = t)
  BY OnePermitExcludes DEF Seen, ProducerCopies, ProducerHolds
<1>16. seg' = seg /\ ppc' = ppc
  BY ConsumerLocal DEF producer
<1>3. CASE CAcquire(t)
  BY <1>1, <1>2, <1>16, <1>3 DEF CAcquire
<1>4. CASE CRead(t)
  BY <1>1, <1>2, <1>16, <1>4 DEF CRead, ConsumerHolds, Unchanged
<1>5. CASE CReread(t)
  BY <1>1, <1>2, <1>16, <1>5 DEF CReread, ConsumerHolds, Unchanged
<1>6. CASE CSpin(t)
  BY <1>1, <1>2, <1>16, <1>6 DEF CSpin
<1>7. CASE CDecode(t)
  BY <1>1, <1>2, <1>16, <1>7 DEF CDecode
<1>8. CASE CDecodeFails(t)
  BY <1>8 DEF CDecodeFails
<1>9. CASE CPut(t)
  BY <1>1, <1>2, <1>16, <1>9 DEF CPut
<1>10. CASE CClear(t)
  BY <1>1, <1>2, <1>16, <1>10 DEF CClear, ConsumerHolds
<1>11. CASE CHash(t)
  BY <1>1, <1>2, <1>16, <1>11 DEF CHash, ConsumerHolds
<1>12. CASE CRelease(t)
  BY <1>1, <1>2, <1>16, <1>12 DEF CRelease
<1>13. CASE PopulateRead(t)
  BY <1>1, <1>2, <1>16, <1>13 DEF PopulateRead
<1>14. CASE MainGet(t)
  BY <1>1, <1>2, <1>16, <1>14 DEF MainGet
<1>15. CASE Restart(t)
  BY <1>15 DEF Restart, Single
<1> QED
  BY <1>3, <1>4, <1>5, <1>6, <1>7, <1>8, <1>9, <1>10, <1>11, <1>12, <1>13,
     <1>14, <1>15 DEF Consumer

\* A consumer's step is not seen in another segment.
LEMMA CleanOther ==
    ASSUME PermitInv, NEW t \in Segs, Consumer(t) \/ MainGet(t) \/ Restart(t),
           NEW s \in Segs \ {t}
    PROVE  (Clean(s) => Clean(s)')
<1>1. /\ Published(s)' = Published(s) /\ seg' = seg /\ ppc' = ppc
      /\ leaked'[s] = leaked[s] /\ cpc'[s] = cpc[s]
  BY ConsumerLocal DEF producer, Published, PermitInv
<1>2. buf'[s] = buf[s] /\ acked'[s] = acked[s] /\ got'[s] = got[s]
  BY DEF PermitInv, TypeOK, Consumer, MainGet, Restart, CAcquire, CRead, CReread,
         CSpin, CDecode, CDecodeFails, CPut, CClear, CHash, CRelease,
         PopulateRead
<1> QED
  BY <1>1, <1>2 DEF Clean

\* A segment of which one permit exists is clean at every step.
LEMMA CleanInvariant == Spec => []CleanInv
<1>1. PermitInv /\ CleanInv /\ [Next]_vars => CleanInv'
  <2> SUFFICES ASSUME PermitInv, CleanInv, [Next]_vars,
                      NEW s \in Segs, Single(s)'
               PROVE  Clean(s)'
    BY DEF CleanInv
  <2>1. CASE Producer
    BY <2>1, CleanProducer DEF CleanInv
  <2>2. ASSUME NEW t \in Segs, Consumer(t) \/ MainGet(t) \/ Restart(t)
        PROVE  Clean(s)'
    <3>1. restarts' >= restarts /\ restarts \in Nat
      BY <2>2, BoundAssumption
         DEF PermitInv, TypeOK, Consumer, MainGet, Restart, CAcquire, CRead,
             CReread, CSpin, CDecode, CDecodeFails, CPut, CClear, CHash,
             CRelease, PopulateRead
    <3>2. Single(s)
      BY <2>2, <3>1, ConsumerLocal DEF PermitInv, Single, Granted, producer
    <3>3. Clean(s)
      BY <3>2 DEF CleanInv
    <3>4. CASE s = t
      BY <2>2, <3>2, <3>3, <3>4, CleanConsumer
    <3>5. CASE s # t
      BY <2>2, <3>3, <3>5, CleanOther
    <3> QED
      BY <3>4, <3>5
  <2>3. CASE UNCHANGED vars
    <3>1. Single(s) /\ Clean(s)
      BY <2>3 DEF CleanInv, vars, Single, Granted
    <3> QED
      BY <2>3, <3>1 DEF vars, Clean, Published
  <2> QED
    BY <2>1, <2>2, <2>3 DEF Next
<1> QED
  BY <1>1, CleanInit, PermitInvariant, PTL DEF Spec

\* Everything that goes wrong in a segment takes a surplus permit: as long as
\* the producer has executed its unpaired release once, the processes exclude
\* each other, no garbage arises and no permit is lost.
THEOREM SurplusPermitNeeded == Spec => []SinglePermitClean
<1>1. PermitInv /\ CleanInv => SinglePermitClean
  BY OnePermitExcludes
     DEF SinglePermitClean, CleanInv, Clean, Single, Empty, Digest, Garbage
<1> QED
  BY <1>1, PermitInvariant, CleanInvariant, PTL

-----------------------------------------------------------------------------
(* The order of samples, and the channel.                                  *)

\* What the consumer has in its hands and in the segment is not older than what
\* it decoded last, and newer unless it has just decoded it or was restarted.
Order(s) ==
    /\ delivered[s] <= Published(s)
    /\ buf[s].tag = "json" =>
           /\ buf[s].val \in delivered[s]..Published(s)
           /\ buf[s].val = delivered[s] => (cpc[s] = "clear" \/ restarts > 0)
    /\ (got[s].tag = "json" /\ cpc[s] \in {"decode", "put"}) =>
           /\ got[s].val \in delivered[s]..Published(s)
           /\ got[s].val = delivered[s] => restarts > 0
           /\ buf[s].tag = "json" => got[s].val <= buf[s].val
    /\ (cpc[s] = "put") => (got[s].tag = "json")

OrderInv == \A s \in Segs : Order(s)

\* A producer's step publishes the sample of the cycle to the next segment or
\* changes nothing that is published.
LEMMA ProducerPublishes ==
    ASSUME PermitInv, Producer, NEW s \in Segs
    PROVE  IF ppc = "write" /\ cycle \notin Oversize /\ s = seg
           THEN /\ Published(s) = cycle - 1 /\ Published(s)' = cycle
                /\ buf'[s] \in {Json(cycle), Garbage}
           ELSE /\ Published(s)' = Published(s)
                /\ buf'[s] = buf[s] \/ buf'[s] = Empty
<1> USE DEF PermitInv, TypeOK, CycleBegun, Published
<1>1. s \in Nat /\ 1 <= s /\ s <= N /\ seg \in Nat /\ N \in Nat
  BY NAssumption DEF Segs
<1>2. CASE Sample
  BY <1>1, <1>2 DEF Sample
<1>3. CASE Announce
  BY <1>1, <1>3 DEF Announce
<1>4. CASE Acquire
  BY <1>1, <1>4 DEF Acquire
<1>5. CASE Clear
  BY <1>1, <1>5 DEF Clear
<1>6. CASE Write
  BY <1>1, <1>6 DEF Write
<1>7. CASE Release
  BY <1>1, <1>7 DEF Release
<1> QED
  BY <1>2, <1>3, <1>4, <1>5, <1>6, <1>7 DEF Producer

\* A producer's step keeps what the consumers hold at most as new as what is
\* published.
LEMMA OrderProducer ==
    ASSUME PermitInv, Producer, NEW s \in Segs, Order(s)
    PROVE  Order(s)' /\ delivered' = delivered
<1>1. UNCHANGED consumer
  BY DEF Producer, Sample, Announce, Acquire, Clear, Write, Release
<1>2. cycle \in Nat /\ Published(s) \in Int
  BY DEF PermitInv, TypeOK, Published
<1>3. CASE ppc = "write" /\ cycle \notin Oversize /\ s = seg
  BY <1>1, <1>2, <1>3, ProducerPublishes
     DEF Order, Json, Garbage, consumer, PermitInv, TypeOK
<1>4. CASE ~ (ppc = "write" /\ cycle \notin Oversize /\ s = seg)
  BY <1>1, <1>2, <1>4, ProducerPublishes
     DEF Order, Empty, consumer, PermitInv, TypeOK
<1> QED
  BY <1>1, <1>3, <1>4 DEF consumer

\* A consumer's step decodes what it has in its hands or nothing.
LEMMA OrderConsumer ==
    ASSUME PermitInv, NEW t \in Segs, Consumer(t) \/ MainGet(t) \/ Restart(t),
           Order(t)
    PROVE  /\ Order(t)'
           /\ delivered'[t] = delivered[t] \/ delivered'[t] = got[t].val
           /\ delivered'[t] \in delivered[t]..Published(t)
           /\ (restarts = 0 /\ Delivers(t)) =>
                  got[t].val \in (delivered[t] + 1)..Published(t)
<1> USE BoundAssumption
    DEF PermitInv, TypeOK, Order, Goto, Delivers, Empty, Digest, Garbage,
        Content
<1>1. Published(t)' = Published(t) /\ Published(t) \in Int
  BY ConsumerLocal DEF producer, Published
<1>0. /\ got[t].val \in Nat /\ buf[t].val \in Nat /\ delivered[t] \in Nat
      /\ restarts \in Nat
  OBVIOUS
<1>2. CASE CAcquire(t)
  BY <1>1, <1>2 DEF CAcquire
<1>3. CASE CRead(t)
  BY <1>1, <1>3 DEF CRead, Seen
<1>4. CASE CReread(t)
  BY <1>1, <1>4 DEF CReread, Seen
<1>5. CASE CSpin(t)
  BY <1>1, <1>5 DEF CSpin
<1>6. CASE CDecode(t)
  <2>1. /\ got' = got /\ buf' = buf /\ restarts' = restarts
        /\ got[t].tag = "json" /\ cpc[t] = "decode"
    BY <1>6 DEF CDecode
  <2>2. CASE Kind[t] = "psmo"
    BY <1>1, <1>6, <2>1, <2>2 DEF CDecode
  <2>3. CASE Kind[t] # "psmo"
    <3>1. cpc'[t] = "clear" /\ delivered'[t] = got[t].val
      BY <1>6, <2>3 DEF CDecode
    <3> HIDE DEF PermitInv, TypeOK, Content
    <3> QED
      BY <1>0, <1>1, <2>1, <3>1
  <2> QED
    BY <2>2, <2>3
<1>7. CASE CDecodeFails(t)
  BY <1>1, <1>7 DEF CDecodeFails
<1>8. CASE CPut(t)
  <2>1. /\ got' = got /\ buf' = buf /\ restarts' = restarts
        /\ got[t].tag = "json" /\ cpc[t] = "put"
        /\ cpc'[t] = "clear" /\ delivered'[t] = got[t].val
    BY <1>8 DEF CPut
  <2> HIDE DEF PermitInv, TypeOK, Content
  <2> QED
    BY <1>0, <1>1, <2>1
<1>9. CASE CClear(t)
  BY <1>1, <1>9 DEF CClear
<1>10. CASE CHash(t)
  BY <1>1, <1>10 DEF CHash
<1>11. CASE CRelease(t)
  BY <1>1, <1>11 DEF CRelease
<1>12. CASE PopulateRead(t)
  BY <1>1, <1>12 DEF PopulateRead
<1>13. CASE MainGet(t)
  BY <1>1, <1>13 DEF MainGet
<1>14. CASE Restart(t)
  BY <1>1, <1>14 DEF Restart, Start
<1> QED
  BY <1>2, <1>3, <1>4, <1>5, <1>6, <1>7, <1>8, <1>9, <1>10, <1>11, <1>12,
     <1>13, <1>14 DEF Consumer

\* A consumer's step leaves the order of the samples of another segment alone.
LEMMA OrderOther ==
    ASSUME PermitInv, NEW t \in Segs, Consumer(t) \/ MainGet(t) \/ Restart(t),
           NEW s \in Segs \ {t}
    PROVE  /\ Order(s) => Order(s)'
           /\ delivered'[s] = delivered[s]
           /\ ~ Delivers(s)
<1>1. Published(s)' = Published(s) /\ cpc'[s] = cpc[s]
  BY ConsumerLocal DEF producer, Published, PermitInv
<1>2. /\ buf'[s] = buf[s] /\ got'[s] = got[s] /\ delivered'[s] = delivered[s]
      /\ restarts \in Nat /\ restarts' \in Nat /\ restarts' >= restarts
  BY BoundAssumption
     DEF PermitInv, TypeOK, Consumer, MainGet, Restart, CAcquire, CRead, CReread,
         CSpin, CDecode, CDecodeFails, CPut, CClear, CHash, CRelease,
         PopulateRead
<1> QED
  BY <1>1, <1>2 DEF Order, Delivers

\* What a consumer holds and has decoded is never newer than what is published.
LEMMA OrderInvariant == Spec => []OrderInv
<1>1. Init => OrderInv
  BY DEF Init, OrderInv, Order, Published, Empty, Start
<1>2. PermitInv /\ OrderInv /\ [Next]_vars => OrderInv'
  <2> SUFFICES ASSUME PermitInv, OrderInv, [Next]_vars, NEW s \in Segs
               PROVE  Order(s)'
    BY DEF OrderInv
  <2>1. Order(s)
    BY DEF OrderInv
  <2>2. CASE Producer
    BY <2>1, <2>2, OrderProducer
  <2>3. ASSUME NEW t \in Segs, Consumer(t) \/ MainGet(t) \/ Restart(t)
        PROVE  Order(s)'
    BY <2>1, <2>3, OrderConsumer, OrderOther
  <2>4. CASE UNCHANGED vars
    BY <2>1, <2>4 DEF vars, Order, Published
  <2> QED
    BY <2>2, <2>3, <2>4 DEF Next
<1> QED
  BY <1>1, <1>2, PermitInvariant, PTL DEF Spec

\* A consumer that was never restarted decodes no sample twice or out of order.
THEOREM DeliversInOrder == Spec => DeliversOnce
<1> DEFINE A == \A s \in Segs : (restarts = 0 /\ Delivers(s)) =>
                                    got[s].val \in (delivered[s] + 1)..Published(s)
<1>1. PermitInv /\ OrderInv /\ [Next]_vars => [A]_vars
  <2> SUFFICES ASSUME PermitInv, OrderInv, Next,
                      NEW s \in Segs, restarts = 0, Delivers(s)
               PROVE  got[s].val \in (delivered[s] + 1)..Published(s)
    OBVIOUS
  <2>1. CASE Producer
    BY <2>1 DEF Producer, Sample, Announce, Acquire, Clear, Write, Release,
                consumer, Delivers
  <2>2. ASSUME NEW t \in Segs, Consumer(t) \/ MainGet(t) \/ Restart(t)
        PROVE  got[s].val \in (delivered[s] + 1)..Published(s)
    BY <2>2, OrderConsumer, OrderOther DEF OrderInv
  <2> QED
    BY <2>1, <2>2 DEF Next
<1> QED
  BY <1>1, PermitInvariant, OrderInvariant, PTL DEF Spec, DeliversOnce

\* The hand-off implements the channel that keeps the latest sample, whatever
\* becomes of the mutual exclusion and of restarted consumers.
THEOREM ImplementsChannel == Spec => ChannelSpec
<1> DEFINE pub == [s \in Segs |-> Published(s)]
<1>1. Init => Channel!Init
  BY DEF Init, Channel!Init, Segs, Channel!Segs, Published
<1>2. PermitInv /\ OrderInv /\ [Next]_vars => [Channel!Next]_Channel!vars
  <2> SUFFICES ASSUME PermitInv, OrderInv, [Next]_vars
               PROVE  Channel!Next \/ UNCHANGED <<pub, delivered>>
    BY DEF Channel!vars
  <2>1. CASE Producer
    <3>1. UNCHANGED delivered
      BY <2>1, NAssumption, OrderProducer DEF OrderInv, Segs
    <3>2. CASE ppc = "write" /\ cycle \notin Oversize
      <4>1. pub' = [pub EXCEPT ![seg] = @ + 1]
        <5>1. seg \in Segs /\ cycle \in Nat
          BY DEF PermitInv, TypeOK
        <5>2. ASSUME NEW s \in Segs
              PROVE  Published(s)' = IF s = seg THEN Published(s) + 1
                                               ELSE Published(s)
          BY <2>1, <3>2, <5>1, ProducerPublishes
        <5> QED
          BY <5>1, <5>2
      <4>2. \A t \in Segs : pub[t] = pub[seg] + (IF t < seg THEN 1 ELSE 0)
        BY <3>2, NAssumption DEF Published, PermitInv, TypeOK, CycleBegun, Segs
      <4>3. Channel!Publish(seg)
        BY <3>1, <4>1, <4>2 DEF Channel!Publish, Segs, Channel!Segs
      <4> QED
        BY <4>3 DEF Channel!Next, Segs, Channel!Segs, PermitInv, TypeOK
    <3>3. CASE ~ (ppc = "write" /\ cycle \notin Oversize)
      BY <2>1, <3>1, <3>3, ProducerPublishes
    <3> QED
      BY <3>2, <3>3
  <2>2. ASSUME NEW t \in Segs, Consumer(t) \/ MainGet(t) \/ Restart(t)
        PROVE  Channel!Next \/ UNCHANGED <<pub, delivered>>
    <3>1. pub' = pub
      BY <2>2, ConsumerLocal DEF PermitInv, producer, Published
    <3>2. /\ delivered'[t] \in delivered[t]..Published(t)
          /\ \A s \in Segs \ {t} : delivered'[s] = delivered[s]
      BY <2>2, OrderConsumer, OrderOther DEF OrderInv
    <3>3. delivered \in [Segs -> Nat] /\ delivered' \in [Segs -> Nat]
      BY <2>2, TypePreserved DEF PermitInv, TypeOK
    <3>4. CASE delivered'[t] = delivered[t]
      BY <3>1, <3>2, <3>3, <3>4
    <3>5. CASE delivered'[t] # delivered[t]
      <4>1. /\ delivered'[t] \in (delivered[t] + 1)..pub[t]
            /\ delivered' = [delivered EXCEPT ![t] = delivered'[t]]
        BY <3>2, <3>3, <3>5 DEF Published, PermitInv, TypeOK
      <4>2. Channel!Deliver(t)
        BY <3>1, <4>1 DEF Channel!Deliver
      <4> QED
        BY <4>2 DEF Channel!Next, Segs, Channel!Segs
    <3> QED
      BY <3>4, <3>5
  <2>3. CASE UNCHANGED vars
    BY <2>3 DEF vars, Published
  <2> QED
    BY <2>1, <2>2, <2>3 DEF Next
<1> QED
  BY <1>1, <1>2, PermitInvariant, OrderInvariant, PTL
     DEF Spec, ChannelSpec, Channel!Spec

-----------------------------------------------------------------------------
(* The view of PsmoPartition.                                              *)

\* A psM+O thread builds no address space and finds no permit before the first
\* cycle; a text that is no sample has no number.
Reads(s) ==
    /\ cpc[s] \notin PopulatePC
    /\ cycle = 0 => cpc[s] = "acquire"
    /\ buf[s].tag # "json" => buf[s].val = 0

ReadsInv == \A s \in PsmoSegs : Reads(s)

LEMMA ReadsInvariant == Spec => []ReadsInv
<1>1. Init => ReadsInv
  BY DEF Init, ReadsInv, Reads, PsmoSegs, Start, PopulatePC, Empty
<1>2. PermitInv /\ ReadsInv /\ [Next]_vars => ReadsInv'
  <2> SUFFICES ASSUME PermitInv, ReadsInv, [Next]_vars, NEW s \in PsmoSegs
               PROVE  Reads(s)'
    BY DEF ReadsInv, PsmoSegs
  <2> USE DEF PermitInv, TypeOK, Reads
  <2>1. Reads(s) /\ s \in Segs /\ Kind[s] = "psmo"
    BY DEF ReadsInv, PsmoSegs
  <2>2. CASE Producer
    BY <2>1, <2>2 DEF Producer, Sample, Announce, Acquire, Clear, Write, Release,
                      consumer, Empty, Json, Garbage
  <2>3. ASSUME NEW t \in Segs, Consumer(t) \/ MainGet(t) \/ Restart(t), t # s
        PROVE  Reads(s)'
    BY <2>1, <2>3, ConsumerLocal
       DEF Consumer, MainGet, Restart, CAcquire, CRead, CReread, CSpin, CDecode,
           CDecodeFails, CPut, CClear, CHash, CRelease, PopulateRead, producer
  <2>4. CASE Consumer(s)
    <3>1. ASSUME cycle = 0 PROVE FALSE
      <4>1. free[s] > 0
        BY <2>1, <2>4, <3>1
           DEF Consumer, CAcquire, CRead, CReread, CSpin, CDecode, CDecodeFails,
               CPut, CClear, CHash, CRelease, PopulateRead, Wait
      <4>2. ppc = "sample"
        BY <3>1 DEF CycleBegun
      <4>3. Granted(s) = 0
        BY <3>1, <4>2 DEF Granted
      <4>4. Held(s) \in Nat /\ free[s] \in Nat /\ leaked[s] \in Nat
        BY <2>1 DEF Held, Count
      <4>5. free[s] + Held(s) + leaked[s] = 0
        BY <2>1, <4>3 DEF PermitAccounting
      <4> QED
        BY <4>1, <4>4, <4>5
    <3> QED
      BY <2>1, <2>4, <3>1
         DEF Consumer, CAcquire, CRead, CReread, CSpin, CDecode, CDecodeFails, CPut,
             CClear, CHash, CRelease, PopulateRead, Goto, PopulatePC, producer,
             Empty, Digest, Garbage
  <2>5. CASE MainGet(s) \/ Restart(s)
    BY <2>1, <2>5 DEF MainGet, Restart, Start, Goto, PopulatePC, producer, Garbage
  <2>6. CASE UNCHANGED vars
    BY <2>1, <2>6 DEF vars
  <2> QED
    BY <2>2, <2>3, <2>4, <2>5, <2>6 DEF Next
<1> QED
  BY <1>1, <1>2, PermitInvariant, PTL DEF Spec

\* What a step leaves as it is of a thread is unchanged in its view.
LEMMA ViewUnchanged ==
    ASSUME NEW s \in Segs,
           ViewedPermits(s)' = ViewedPermits(s), ViewedSource(s)' = ViewedSource(s),
           ViewedText(s)' = ViewedText(s), ViewedReader(s)' = ViewedReader(s),
           acked'[s] = acked[s], qlen'[s] = qlen[s]
    PROVE  UNCHANGED View(s)!vars
BY DEF View!vars, View!sourceVars

\* One more and one less of the permits counted up to two.
LEMMA UpToTwo ==
    ASSUME NEW m \in Nat, NEW n \in Nat,
           NEW c \in Nat, c = (IF m < 2 THEN m ELSE 2),
           NEW d \in Nat, d = (IF n < 2 THEN n ELSE 2)
    PROVE  /\ n = m + 1 => d = IF c < 2 THEN c + 1 ELSE c
           /\ m > 0 /\ n = m - 1 => c > 0 /\ (d = c - 1 \/ (c = 2 /\ d = 2))
           /\ n = m => d = c
OBVIOUS

\* The permits that ViewedPermits counts.
Countable(s) ==
    free[s] + Count(seg = s /\ ppc = "release") + Count(cpc[s] \in {"spin", "release"})

LEMMA ViewedPermitsMove ==
    ASSUME TypeOK, TypeOK', NEW s \in Segs
    PROVE  /\ Countable(s)' = Countable(s) + 1 =>
                  ViewedPermits(s)' = IF ViewedPermits(s) < 2
                                      THEN ViewedPermits(s) + 1 ELSE ViewedPermits(s)
           /\ Countable(s)' = Countable(s) - 1 /\ Countable(s) > 0 =>
                  /\ ViewedPermits(s) > 0
                  /\ \/ ViewedPermits(s)' = ViewedPermits(s) - 1
                     \/ ViewedPermits(s) = 2 /\ ViewedPermits(s)' = 2
           /\ Countable(s)' = Countable(s) => ViewedPermits(s)' = ViewedPermits(s)
<1>1. Countable(s) \in Nat /\ Countable(s)' \in Nat
  BY DEF TypeOK, Countable, Count
<1>2. /\ ViewedPermits(s) = IF Countable(s) < 2 THEN Countable(s) ELSE 2
      /\ ViewedPermits(s)' = IF Countable(s)' < 2 THEN Countable(s)' ELSE 2
  BY DEF ViewedPermits, Countable
<1> QED
  BY <1>1, <1>2, UpToTwo

\* A text that is no sample is told by its tag.
LEMMA TextIsTag ==
    ASSUME TypeOK, NEW s \in Segs, Reads(s)
    PROVE  /\ buf[s].tag = "empty" <=> buf[s] = Empty
           /\ buf[s].tag = "digest" <=> buf[s] = Digest
<1>1. /\ buf[s] = [tag |-> buf[s].tag, val |-> buf[s].val]
      /\ buf[s].tag # "json" => buf[s].val = 0
  BY DEF TypeOK, Content, Reads
<1> QED
  BY <1>1 DEF Empty, Digest

\* A step of the producer is one of the source of the thread, none, or, when the
\* first cycle begins, the thread's first.
LEMMA ProducerViewed ==
    ASSUME PermitInv, TypeOK', NEW s \in Segs, Reads(s), Producer
    PROVE  [View(s)!Next]_(View(s)!vars)
<1> USE DEF PermitInv, TypeOK
<1>1. UNCHANGED consumer
  BY DEF Producer, Sample, Announce, Acquire, Clear, Write, Release
<1>2. cpc' = cpc /\ got' = got /\ acked' = acked /\ qlen' = qlen
  BY <1>1 DEF consumer
<1>3. ~Sample => cycle > 0 /\ cycle' = cycle
  BY DEF CycleBegun, Producer, Sample, Announce, Acquire, Clear, Write, Release
<1>4. ~Sample => ViewedReader(s)' = ViewedReader(s)
  BY <1>2, <1>3 DEF ViewedReader
<1>5. CASE Sample
  <2>1. /\ Countable(s)' = Countable(s) /\ ViewedText(s)' = ViewedText(s)
        /\ ViewedSource(s) = "rest" /\ ViewedSource(s)' = "rest"
    BY <1>2, <1>5 DEF Sample, Countable, ViewedText, ViewedSource
  <2>2. CASE cycle = 0
    <3>1. ViewedReader(s) = "start" /\ ViewedReader(s)' = "acquire"
      BY <1>2, <1>5, <2>2 DEF Sample, ViewedReader, Reads
    <3>2. View(s)!Open(s)
      BY <1>2, <2>1, <3>1, ViewedPermitsMove
         DEF View!Open, View!Goto, View!sourceVars, View!process
    <3> QED
      BY <3>2 DEF View!Next, View!Reader
  <2>3. CASE cycle > 0
    <3>1. ViewedReader(s)' = ViewedReader(s)
      BY <1>2, <1>5, <2>3 DEF Sample, ViewedReader
    <3> QED
      BY <1>2, <2>1, <3>1, ViewUnchanged, ViewedPermitsMove
  <2> QED
    BY <2>2, <2>3
<1>6. CASE seg # s /\ ~Sample
  <2>1. Countable(s)' = Countable(s) /\ ViewedText(s)' = ViewedText(s)
    BY <1>2, <1>6 DEF Producer, Announce, Acquire, Clear, Write, Release, Countable,
                      ViewedText, Post, Wait
  <2>2. \/ ViewedSource(s)' = ViewedSource(s)
        \/ ViewedSource(s) = "rest" /\ ViewedSource(s)' = "ended"
    BY <1>6 DEF Producer, Announce, Acquire, Clear, Write, Release, ViewedSource
  <2>3. CASE ViewedSource(s)' = ViewedSource(s)
    BY <1>2, <1>4, <1>6, <2>1, <2>3, ViewUnchanged, ViewedPermitsMove
  <2>4. CASE ViewedSource(s) = "rest" /\ ViewedSource(s)' = "ended"
    <3>1. View(s)!Ends(s)
      BY <2>1, <2>4, ViewedPermitsMove DEF View!Ends, View!Goes
    <3> QED
      BY <1>2, <1>4, <1>6, <3>1
         DEF View!Next, View!Source, View!reader, View!process
  <2> QED
    BY <2>2, <2>3, <2>4
<1>7. CASE seg = s /\ Announce
  <2>1. /\ Countable(s)' = Countable(s) + 1 /\ ViewedText(s)' = ViewedText(s)
        /\ ViewedSource(s) = "rest" /\ ViewedSource(s)' = "announced"
    BY <1>2, <1>7 DEF Announce, Post, Countable, ViewedText, ViewedSource, Count
  <2>2. View(s)!Announce(s)
    BY <2>1, ViewedPermitsMove DEF View!Announce, View!Goes, View!Post
  <2> QED
    BY <1>2, <1>4, <1>7, <2>2
       DEF Announce, Sample, View!Next, View!Source, View!Cycle, View!reader, View!process
<1>8. CASE seg = s /\ Acquire
  <2>1. /\ Countable(s)' = Countable(s) - 1 /\ Countable(s) > 0
        /\ ViewedText(s)' = ViewedText(s)
        /\ ViewedSource(s) = "announced" /\ ViewedSource(s)' = "clearing"
    BY <1>2, <1>8 DEF Acquire, Wait, Countable, ViewedText, ViewedSource, Count
  <2>2. View(s)!Take(s)
    BY <2>1, ViewedPermitsMove DEF View!Take, View!Goes, View!Wait
  <2> QED
    BY <1>2, <1>4, <1>8, <2>2
       DEF Acquire, Sample, View!Next, View!Source, View!Cycle, View!reader, View!process
<1>9. CASE seg = s /\ Clear
  <2>1. /\ Countable(s)' = Countable(s) /\ ViewedText(s)' = "empty"
        /\ ViewedSource(s) = "clearing" /\ ViewedSource(s)' = "writing"
    BY <1>2, <1>9 DEF Clear, Empty, Countable, ViewedText, ViewedSource, Count
  <2>2. View(s)!Wipe(s)
    BY <2>1, ViewedPermitsMove DEF View!Wipe, View!Goes
  <2> QED
    BY <1>2, <1>4, <1>9, <2>2
       DEF Clear, Sample, View!Next, View!Source, View!Cycle, View!reader, View!process
<1>10. CASE seg = s /\ Write /\ cycle \notin Oversize
  <2>1. /\ Countable(s)' = Countable(s) + 1
        /\ ViewedSource(s) = "writing" /\ ViewedSource(s)' = "rest"
    BY <1>2, <1>10 DEF Write, Countable, ViewedSource, Count
  <2>3. \/ ViewedText(s)' = "sample"
        \/ ViewedText(s) # "empty" /\ ViewedText(s)' = "garbage"
    <3>1. buf[s].tag = "empty" => buf[s] = Empty
      BY TextIsTag
    <3> QED
      BY <1>10, <3>1 DEF Write, Json, Garbage, ViewedText
  <2>2. View(s)!Write(s)
    BY <2>1, <2>3, ViewedPermitsMove DEF View!Write, View!Goes, View!Post
  <2> QED
    BY <1>2, <1>4, <1>10, <2>2
       DEF Write, Sample, View!Next, View!Source, View!Cycle, View!reader, View!process
<1>11. CASE seg = s /\ Write /\ cycle \in Oversize
  <2>1. /\ Countable(s)' = Countable(s) /\ ViewedText(s)' = ViewedText(s)
        /\ ViewedSource(s) = "writing" /\ ViewedSource(s)' = "dead"
    BY <1>2, <1>11 DEF Write, Countable, ViewedText, ViewedSource, Count
  <2>2. View(s)!Ends(s)
    BY <2>1, ViewedPermitsMove DEF View!Ends, View!Goes
  <2> QED
    BY <1>2, <1>4, <1>11, <2>2
       DEF Write, Sample, View!Next, View!Source, View!reader, View!process
<1>12. CASE seg = s /\ Release
  <2>1. /\ Countable(s)' = Countable(s) /\ ViewedText(s)' = ViewedText(s)
        /\ ViewedSource(s)' = ViewedSource(s)
    BY <1>2, <1>12
       DEF Release, Post, Countable, ViewedText, ViewedSource, Count
  <2> QED
    BY <1>2, <1>4, <1>12, <2>1, ViewUnchanged, ViewedPermitsMove DEF Release, Sample
<1> QED
  BY <1>5, <1>6, <1>7, <1>8, <1>9, <1>10, <1>11, <1>12 DEF Producer

\* What a text read from the segment looks like to the thread's view.
LEMMA SeenViewed ==
    ASSUME TypeOK, NEW s \in Segs, Reads(s), NEW c \in Seen(s)
    PROVE  /\ (IF c.tag = "json" THEN "sample" ELSE c.tag) \in View(s)!Seen(s)
           /\ c.tag = "empty" <=> c = Empty
           /\ c.tag = "digest" <=> c = Digest
           /\ c.tag \in {"json", "empty", "digest", "garbage"}
<1>1. CASE c = buf[s]
  <2>1. /\ c \in Content
        /\ c.tag # "json" => c.val = 0
    BY <1>1 DEF TypeOK, Reads
  <2>2. c = [tag |-> c.tag, val |-> c.val] /\ c.tag \in {"json", "empty", "digest", "garbage"}
    BY <2>1 DEF Content
  <2> QED
    BY <1>1, <2>1, <2>2 DEF View!Seen, ViewedText, Empty, Digest
<1>2. CASE c = Garbage /\ seg = s /\ ppc \in {"clear", "write"}
  BY <1>2 DEF View!Seen, ViewedSource, Garbage, Empty, Digest
<1> QED
  BY <1>1, <1>2 DEF Seen, ProducerCopies

\* The same read, seen twice: what the view allows for it.
LEMMA ReadViewed ==
    ASSUME PermitInv, TypeOK', NEW s \in Segs, Reads(s), cycle > 0,
           CRead(s) \/ CReread(s)
    PROVE  View(s)!ReadNothing(s) \/ View(s)!ReadOwnDigest(s)
           \/ View(s)!ReadSample(s) \/ View(s)!ReadRaises(s)
<1> USE DEF PermitInv, TypeOK, Goto
<1>1. PICK c \in Seen(s) :
         /\ got' = [got EXCEPT ![s] = c]
         /\ cpc' = [cpc EXCEPT ![s] =
                IF cpc[s] = "read" /\ c = Empty THEN "release"
                ELSE IF Unchanged(s, c) THEN "spin" ELSE "decode"]
         /\ cpc[s] \in {"read", "reread"}
         /\ UNCHANGED <<free, buf, producer, acked, delivered, qlen, leaked, restarts>>
  BY DEF CRead, CReread
<1>2. /\ ViewedText(s)' = ViewedText(s) /\ ViewedSource(s)' = ViewedSource(s)
      /\ acked' = acked /\ qlen' = qlen /\ ViewedReader(s) = cpc[s]
      /\ free' = free /\ seg' = seg /\ ppc' = ppc /\ cycle' = cycle
  BY <1>1 DEF producer, ViewedText, ViewedSource, ViewedReader
<1>3. (IF c.tag = "json" THEN "sample" ELSE c.tag) \in View(s)!Seen(s)
  BY SeenViewed
<1>4. CASE cpc[s] = "read" /\ c = Empty
  <2>1. Countable(s)' = Countable(s) + 1
    BY <1>1, <1>2, <1>4 DEF Countable, Count
  <2>2. ViewedReader(s)' = "head" /\ "empty" \in View(s)!Seen(s)
    BY <1>1, <1>2, <1>3, <1>4 DEF ViewedReader, Empty
  <2>3. View(s)!ReadNothing(s)
    BY <1>2, <1>4, <2>1, <2>2, ViewedPermitsMove
       DEF View!ReadNothing, View!Goto, View!Post, View!process
  <2> QED
    BY <2>3
<1>5. CASE ~(cpc[s] = "read" /\ c = Empty) /\ Unchanged(s, c)
  <2>1. Countable(s)' = Countable(s) + 1
    BY <1>1, <1>2, <1>5 DEF Countable, Count
  <2>2. /\ ViewedReader(s)' = "reacquire" /\ "digest" \in View(s)!Seen(s)
        /\ acked[s]
    BY <1>1, <1>2, <1>3, <1>5 DEF ViewedReader, Digest, Unchanged
  <2>3. View(s)!ReadOwnDigest(s)
    BY <1>1, <1>2, <2>1, <2>2, ViewedPermitsMove
       DEF View!ReadOwnDigest, View!Goto, View!Post, View!process
  <2> QED
    BY <2>3
<1>6. CASE ~(cpc[s] = "read" /\ c = Empty) /\ ~Unchanged(s, c)
  <2>1. Countable(s)' = Countable(s)
    BY <1>1, <1>2, <1>6 DEF Countable, Count
  <2>2. ViewedReader(s)' = IF c.tag = "json" THEN "put" ELSE "head"
    BY <1>1, <1>2, <1>6 DEF ViewedReader
  <2>3. CASE c.tag = "json"
    <3>1. View(s)!ReadSample(s)
      BY <1>1, <1>2, <1>3, <2>1, <2>2, <2>3, ViewedPermitsMove
         DEF View!ReadSample, View!Goto, View!sourceVars, View!process
    <3> QED
      BY <3>1
  <2>4. CASE c.tag # "json"
    <3>1. /\ c.tag \in View(s)!Seen(s)
          /\ \/ c.tag = "garbage"
             \/ c.tag = "digest" /\ ~acked[s]
             \/ c.tag = "empty" /\ cpc[s] = "reread"
      BY <1>1, <1>3, <1>6, <2>4, SeenViewed DEF Unchanged
    <3>2. View(s)!ReadRaises(s)
      BY <1>1, <1>2, <2>1, <2>2, <2>4, <3>1, ViewedPermitsMove
         DEF View!ReadRaises, View!Goto, View!sourceVars, View!process
    <3> QED
      BY <3>2
  <2> QED
    BY <2>3, <2>4
<1> QED
  BY <1>4, <1>5, <1>6

\* A step of the thread itself is one of its view, or none: what is left to do
\* after a read that empties an iteration, after a spin and before a put.
LEMMA ConsumerViewed ==
    ASSUME PermitInv, TypeOK', NEW s \in PsmoSegs, Reads(s),
           Consumer(s) \/ MainGet(s)
    PROVE  [View(s)!Next]_(View(s)!vars)
<1> USE DEF PermitInv, TypeOK, Goto
<1>1. /\ s \in Segs /\ Kind[s] = "psmo"
      /\ UNCHANGED producer /\ seg' = seg /\ ppc' = ppc /\ cycle' = cycle
  BY ConsumerLocal DEF PsmoSegs, producer
<1>2. ViewedSource(s)' = ViewedSource(s)
  BY <1>1 DEF ViewedSource
<1>3. CASE MainGet(s)
  <2>1. /\ Countable(s)' = Countable(s) /\ ViewedText(s)' = ViewedText(s)
        /\ ViewedReader(s)' = ViewedReader(s)
    BY <1>1, <1>3 DEF MainGet, Countable, ViewedText, ViewedReader
  <2>2. View(s)!Get(s)
    BY <1>1, <1>2, <1>3, <2>1, ViewedPermitsMove
       DEF MainGet, View!Get, View!sourceVars, View!reader
  <2> QED
    BY <2>2 DEF View!Next
<1>4. CASE cycle = 0 /\ Consumer(s)
  <2>1. CAcquire(s) /\ cpc[s] = "acquire" /\ free[s] > 0
    BY <1>1, <1>4
       DEF Reads, Consumer, CAcquire, CRead, CReread, CSpin, CDecode, CDecodeFails,
           CPut, CClear, CHash, CRelease, PopulateRead, Wait
  <2>2. ppc = "sample"
    BY <1>4 DEF CycleBegun
  <2>3. Granted(s) = 0
    BY <1>4, <2>2 DEF Granted
  <2>4. Held(s) \in Nat /\ free[s] \in Nat /\ leaked[s] \in Nat
    BY <1>1 DEF Held, Count
  <2> QED
    BY <1>1, <2>1, <2>3, <2>4 DEF PermitAccounting
<1>5. CASE cycle > 0 /\ CAcquire(s)
  <2>1. /\ Countable(s)' = Countable(s) - 1 /\ Countable(s) > 0
        /\ ViewedText(s)' = ViewedText(s)
        /\ ViewedReader(s) = cpc[s] /\ ViewedReader(s)' = cpc'[s]
        /\ \/ cpc[s] = "acquire" /\ cpc'[s] = "read"
           \/ cpc[s] = "reacquire" /\ cpc'[s] = "reread"
        /\ acked' = acked /\ qlen' = qlen
    BY <1>1, <1>5
       DEF CAcquire, Wait, Countable, Count, ViewedText, ViewedReader, Reads, PopulatePC
  <2>2. View(s)!Wait(s)
    BY <1>1, <2>1, ViewedPermitsMove DEF View!Wait
  <2>3. View(s)!Acquire(s)
    BY <1>2, <2>1, <2>2 DEF View!Acquire, View!Goto, View!process
  <2> QED
    BY <2>3 DEF View!Next, View!Reader
<1>6. CASE cycle > 0 /\ (CRead(s) \/ CReread(s))
  BY <1>1, <1>6, ReadViewed DEF View!Next, View!Reader
<1>7. CASE cycle > 0 /\ (CSpin(s) \/ CDecode(s))
  <2>1. /\ Countable(s)' = Countable(s) /\ ViewedText(s)' = ViewedText(s)
        /\ ViewedReader(s)' = ViewedReader(s)
        /\ acked' = acked /\ qlen' = qlen
    BY <1>1, <1>7 DEF CSpin, CDecode, Post, Countable, Count, ViewedText, ViewedReader
  <2> QED
    BY <1>1, <1>2, <2>1, ViewUnchanged, ViewedPermitsMove
<1>8. CASE cycle > 0 /\ (CDecodeFails(s) \/ CRelease(s))
  <2>1. /\ Countable(s)' = Countable(s) /\ ViewedText(s)' = ViewedText(s)
        /\ ViewedReader(s) = "head" /\ ViewedReader(s)' = "acquire"
        /\ acked' = acked /\ qlen' = qlen
    BY <1>1, <1>8
       DEF CDecodeFails, CRelease, Post, Countable, Count, ViewedText, ViewedReader,
           Reads, PopulatePC
  <2>2. View(s)!Head(s)
    BY <1>1, <1>2, <2>1, ViewedPermitsMove
       DEF View!Head, View!Goto, View!sourceVars, View!process
  <2> QED
    BY <2>2 DEF View!Next, View!Reader
<1>9. CASE cycle > 0 /\ CPut(s)
  <2>1. /\ Countable(s)' = Countable(s) /\ ViewedText(s)' = ViewedText(s)
        /\ ViewedReader(s) = "put" /\ ViewedReader(s)' = "acknowledge"
        /\ acked' = acked /\ qlen[s] < QueueSize /\ qlen'[s] = qlen[s] + 1
    BY <1>1, <1>9 DEF CPut, Countable, Count, ViewedText, ViewedReader
  <2>2. View(s)!Put(s)
    BY <1>1, <1>2, <2>1, ViewedPermitsMove DEF View!Put, View!Goto, View!sourceVars
  <2> QED
    BY <2>2 DEF View!Next, View!Reader
<1>10. CASE cycle > 0 /\ CClear(s)
  <2>1. /\ Countable(s)' = Countable(s) /\ ViewedText(s)' = "empty"
        /\ ViewedReader(s) = "acknowledge" /\ ViewedReader(s)' = "respond"
        /\ acked'[s] = TRUE /\ qlen' = qlen
    BY <1>1, <1>10 DEF CClear, Empty, Countable, Count, ViewedText, ViewedReader
  <2>2. View(s)!Acknowledge(s)
    BY <1>1, <1>2, <2>1, ViewedPermitsMove
       DEF View!Acknowledge, View!Goto, View!Clear, View!process
  <2> QED
    BY <2>2 DEF View!Next, View!Reader
<1>11. CASE cycle > 0 /\ CHash(s)
  <2>1. /\ Countable(s)' = Countable(s) + 1
        /\ ViewedReader(s) = "respond" /\ ViewedReader(s)' = "head"
        /\ acked' = acked /\ qlen' = qlen
    BY <1>1, <1>11 DEF CHash, Countable, Count, ViewedReader
  <2>2. /\ buf[s].tag = "empty" <=> buf[s] = Empty
        /\ buf[s].tag = "digest" <=> buf[s] = Digest
    BY <1>1, TextIsTag
  <2>3. \/ ViewedText(s) \in {"empty", "digest"} /\ ViewedText(s)' = "digest"
        \/ ViewedText(s) = "sample" /\ ViewedText(s)' \in {"digest", "garbage"}
        \/ ViewedText(s) = "garbage" /\ ViewedText(s)' = "garbage"
    BY <1>1, <1>11, <2>2
       DEF CHash, ViewedText, Content, Json, Empty, Digest, Garbage
  <2>4. View(s)!RespondAndPost(s)
    BY <1>1, <1>2, <2>1, <2>3, ViewedPermitsMove
       DEF View!RespondAndPost, View!Goto, View!Respond, View!Post, View!process
  <2> QED
    BY <2>4 DEF View!Next, View!Reader
<1>12. ~PopulateRead(s)
  BY <1>1 DEF PopulateRead, Reads, PopulatePC
<1> QED
  BY <1>3, <1>4, <1>5, <1>6, <1>7, <1>8, <1>9, <1>10, <1>11, <1>12 DEF Consumer

\* Another consumer is not seen.
LEMMA OthersViewed ==
    ASSUME TypeOK, TypeOK', NEW s \in Segs, NEW t \in Segs \ {s},
           Consumer(t) \/ MainGet(t) \/ Restart(t)
    PROVE  UNCHANGED View(s)!vars
<1>1. /\ seg' = seg /\ ppc' = ppc /\ cycle' = cycle
      /\ free'[s] = free[s] /\ cpc'[s] = cpc[s]
  BY ConsumerLocal DEF producer
<1>2. /\ buf'[s] = buf[s] /\ got'[s] = got[s] /\ acked'[s] = acked[s]
      /\ qlen'[s] = qlen[s]
  BY DEF TypeOK, Consumer, MainGet, Restart, CAcquire, CRead, CReread, CSpin, CDecode,
         CDecodeFails, CPut, CClear, CHash, CRelease, PopulateRead
<1> QED
  BY <1>1, <1>2, ViewUnchanged
     DEF ViewedPermits, ViewedSource, ViewedText, ViewedReader

\* PsmoPartition has every behaviour of a psM+O thread of the hand-off, whatever
\* the segments, consumers and samples: what is checked of it holds of the thread.
THEOREM PsmoPartitionViewed == Spec => PsmoViewed
<1>1. Init => \A s \in PsmoSegs : View(s)!Init
  BY DEF Init, PsmoSegs, View!Init, View!SourceInit, ViewedPermits, ViewedSource,
         ViewedText, ViewedReader, Count, Empty, Start
<1>2. PermitInv /\ PermitInv' /\ ReadsInv /\ [Next]_vars
        => [\A s \in PsmoSegs : [View(s)!Next]_(View(s)!vars) \/ Restart(s)]_vars
  <2> SUFFICES ASSUME PermitInv, PermitInv', ReadsInv, Next, NEW s \in PsmoSegs
               PROVE  [View(s)!Next]_(View(s)!vars) \/ Restart(s)
    OBVIOUS
  <2>1. TypeOK /\ TypeOK' /\ Reads(s) /\ s \in Segs
    BY DEF PermitInv, ReadsInv, PsmoSegs
  <2>2. CASE Producer
    BY <2>1, <2>2, ProducerViewed
  <2>3. CASE Consumer(s) \/ MainGet(s)
    BY <2>1, <2>3, ConsumerViewed
  <2>4. ASSUME NEW t \in Segs \ {s}, Consumer(t) \/ MainGet(t) \/ Restart(t)
        PROVE  UNCHANGED View(s)!vars
    BY <2>1, <2>4, OthersViewed
  <2> QED
    BY <2>2, <2>3, <2>4 DEF Next
<1> QED
  BY <1>1, <1>2, PermitInvariant, ReadsInvariant, PTL DEF Spec, PsmoViewed

-----------------------------------------------------------------------------

(* What ServedUnlessLeaked exempts is no passing state.                    *)

\* Every permit that the producer has made for segment s is lost, and it waits
\* for one.
Starved(s) == seg = s /\ ppc = "acquire" /\ leaked[s] = Granted(s)

\* Then nobody has one.
LEMMA StarvedHaveNone ==
    ASSUME PermitInv, NEW s \in Segs, Starved(s)
    PROVE  free[s] = 0 /\ ~ConsumerHolds(s)
<1>1. free[s] + Held(s) + leaked[s] = leaked[s]
  BY DEF PermitInv, PermitAccounting, Starved
<1>2. free[s] \in Nat /\ leaked[s] \in Nat
  BY DEF PermitInv, TypeOK
<1> QED
  BY <1>1, <1>2 DEF Held, Count

\* A producer whose permits are lost never writes again, none of its segments:
\* nothing the consumers do, a restart of the psM+O process included, sets it free.
THEOREM StarvedForEver == Spec => [][\A s \in Segs : Starved(s) => Starved(s)']_vars
<1>1. ASSUME PermitInv, PermitInv', Next, NEW s \in Segs, Starved(s)
      PROVE  Starved(s)'
  <2>1. free[s] = 0 /\ ~ConsumerHolds(s)
    BY <1>1, StarvedHaveNone
  <2>2. ~Producer
    BY <1>1, <2>1
       DEF Starved, Producer, Sample, Announce, Acquire, Clear, Write, Release, Wait
  <2>3. ASSUME NEW t \in Segs, Consumer(t) \/ MainGet(t) \/ Restart(t)
        PROVE  Starved(s)'
    <3>1. UNCHANGED producer
      BY <1>1, <2>3, ConsumerLocal DEF PermitInv
    <3>2. leaked'[s] = leaked[s]
      <4>1. CASE t # s
        BY <1>1, <2>3, <4>1, ConsumerLocal DEF PermitInv
      <4>2. CASE t = s /\ Restart(s)
        BY <1>1, <2>1, <4>2 DEF Restart, PermitInv, TypeOK
      <4>3. CASE t = s /\ (Consumer(s) \/ MainGet(s))
        BY <1>1, <2>1, <4>3
           DEF Consumer, MainGet, CAcquire, CRead, CReread, CSpin, CDecode,
               CDecodeFails, CPut, CClear, CHash, CRelease, PopulateRead,
               ConsumerHolds
      <4> QED
        BY <2>3, <4>1, <4>2, <4>3
    <3> QED
      BY <1>1, <3>1, <3>2 DEF Starved, Granted, producer
  <2> QED
    BY <1>1, <2>2, <2>3 DEF Next
<1>2. PermitInv /\ PermitInv' /\ [Next]_vars
         => [\A s \in Segs : Starved(s) => Starved(s)']_vars
  BY <1>1
<1> QED
  BY <1>2, PermitInvariant, PTL DEF Spec
===============================================================================

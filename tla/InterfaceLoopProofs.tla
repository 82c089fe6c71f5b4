-------------------------- MODULE InterfaceLoopProofs --------------------------
(***************************************************************************)
(* Theorems about the event loop of the interface partition, for any       *)
(* number of sources, populated in any order, and any number of permits    *)
(* told apart.                                                             *)
(***************************************************************************)
EXTENDS InterfaceLoop, SequenceTheorems, TLAPS

\* The place of every source in the order is one of the sources, none is NoTask.
LEMMA OrderType ==
    /\ Count \in Nat \ {0}
    /\ \A n \in 1 .. Count : Order[n] \in Sources
    /\ NoTask \notin Sources
BY OrderAssumption DEF Count

\* A post and a wait keep a count of permits one, and change no other.
LEMMA CountType ==
    ASSUME free \in [Sources -> 0 .. MaxPermits], NEW s \in Sources, Post(s) \/ Wait(s)
    PROVE  /\ free' \in [Sources -> 0 .. MaxPermits]
           /\ \A u \in Sources \ {s} : free'[u] = free[u]
BY PermitsAssumption DEF Post, Wait

LEMMA SourceType ==
    ASSUME TypeOK, NEW s \in Sources, Source(s) PROVE TypeOK'
<1> USE DEF TypeOK, SourceTypeOK
<1>1. SourceTypeOK'
  BY CountType DEF Source, Cycle, Announce, Take, Wipe, Write, Ends, Goes
<1>2. cycles' \in [Sources -> 0 .. 2]
  BY DEF Source, CountCycle
<1> QED
  BY <1>1, <1>2 DEF Source

\* main() moves from one population to the next, and then to the updates.
LEMMA ProceedType ==
    ASSUME TypeOK, NEW s \in Sources, Proceed(s)
    PROVE  /\ pc' \in [Sources -> AwaitPC]
           /\ pc \in [Sources -> AwaitPC]
<1> USE DEF TypeOK, AwaitPC
<1>1. pc \in [Sources -> AwaitPC]
  BY OrderType DEF Proceed
<1>2. CASE s = Order[Count]
  BY <1>1, <1>2 DEF Proceed
<1>3. CASE s # Order[Count]
  <2>1. PICK n \in 1 .. Count - 1 :
           pc' = [pc EXCEPT ![s] = "unborn", ![Order[n + 1]] = "populating"]
    BY <1>3 DEF Proceed
  <2>2. n + 1 \in 1 .. Count
    BY OrderType
  <2> QED
    BY <1>1, <2>1, <2>2, OrderType
<1> QED
  BY <1>1, <1>2, <1>3

LEMMA CoroutineType ==
    ASSUME TypeOK, NEW s \in Sources, Coroutine(s) PROVE TypeOK'
<1> USE DEF TypeOK, AwaitPC, AcquirePC, HeldPC, Goto
<1>1. CASE Resume(s)
  BY <1>1, OrderType DEF Resume, sourceVars, SourceTypeOK
<1>2. CASE Proceed(s)
  BY <1>2, ProceedType, OrderType DEF Proceed, sourceVars, SourceTypeOK
<1>3. CASE Acquire(s)
  BY <1>3, CountType DEF Acquire, SourceTypeOK
<1>4. CASE PopulationRead(s)
  BY <1>4, CountType, OrderType DEF PopulationRead, SourceTypeOK
<1>5. CASE ReadNothing(s)
  BY <1>5, CountType DEF ReadNothing, SourceTypeOK
<1>6. CASE ReadOwnDigest(s)
  BY <1>6, CountType, OrderType DEF ReadOwnDigest, SourceTypeOK
<1>7. CASE ReadText(s)
  BY <1>7 DEF ReadText, sourceVars, SourceTypeOK
<1>8. CASE Acknowledge(s)
  BY <1>8 DEF Acknowledge, Clear, SourceTypeOK
<1>9. CASE RespondAndPost(s)
  <2>1. text' \in [Sources -> {"empty", "sample", "digest", "garbage"}]
    BY <1>9 DEF RespondAndPost, Respond, SourceTypeOK
  <2> QED
    BY <1>9, <2>1, CountType DEF RespondAndPost, SourceTypeOK
<1>10. CASE Apply(s) \/ ApplyRaises(s)
  BY <1>10, OrderType DEF Apply, ApplyRaises, sourceVars, SourceTypeOK
<1> QED
  BY <1>1, <1>2, <1>3, <1>4, <1>5, <1>6, <1>7, <1>8, <1>9, <1>10 DEF Coroutine

LEMMA TypePreserved == TypeOK /\ [Next]_vars => TypeOK'
<1>1. ASSUME TypeOK, UNCHANGED vars PROVE TypeOK'
  BY <1>1 DEF TypeOK, SourceTypeOK, vars, sourceVars
<1> QED
  BY <1>1, SourceType, CoroutineType DEF Next

LEMMA TypeInit == Init => TypeOK
BY OrderType, PermitsAssumption
   DEF Init, SourceInit, TypeOK, SourceTypeOK, AwaitPC, AcquirePC, HeldPC

\* Types; the coroutines that do not run are at an await.
THEOREM TypeCorrect == Spec => []TypeOK
BY TypeInit, TypePreserved, PTL DEF Spec

-----------------------------------------------------------------------------
(* Where the permits of a source are: in the semaphore, in the hands of    *)
(* its coroutine, or in the hands of the thread that writes or died.  Each *)
(* cycle the source begins adds one.                                       *)

Hand(s) == IF Holds(s) THEN 1 ELSE 0
Pen(s) == IF Written(s) THEN 1 ELSE 0

PermitInv(s) ==
    IF cycles[s] < 2 THEN free[s] + Hand(s) + Pen(s) = cycles[s]
                     ELSE free[s] + Hand(s) + Pen(s) >= 2

\* The same of the next state, so that the provers see through the prime.
LEMMA Primed ==
    ASSUME NEW s
    PROVE  PermitInv(s)' <=>
              LET n == free'[s] + (IF pc'[s] \in HeldPC THEN 1 ELSE 0)
                                + (IF src'[s] \in {"clearing", "writing", "dead"}
                                   THEN 1 ELSE 0)
              IN  IF cycles'[s] < 2 THEN n = cycles'[s] ELSE n >= 2
BY DEF PermitInv, Hand, Pen, Holds, Written

LEMMA PermitSource ==
    ASSUME TypeOK, NEW s \in Sources, Source(s), NEW u \in Sources, PermitInv(u)
    PROVE  PermitInv(u)'
<1> USE DEF TypeOK, SourceTypeOK, PermitInv, Hand, Pen, Holds, Written, Source,
            CountCycle, Goes
<1>1. CASE u # s
  <2>1. free'[u] = free[u] /\ src'[u] = src[u] /\ cycles'[u] = cycles[u]
    BY <1>1, CountType DEF Cycle, Announce, Take, Wipe, Write, Ends
  <2> QED
    BY <2>1, Primed
<1>2. CASE u = s /\ Announce(s)
  BY <1>2, Primed, PermitsAssumption DEF Announce, Post
<1>3. CASE u = s /\ Take(s)
  BY <1>3, Primed, PermitsAssumption DEF Take, Wait
<1>4. CASE u = s /\ Write(s)
  BY <1>4, Primed, PermitsAssumption DEF Write, Post
<1>5. CASE u = s /\ (Wipe(s) \/ Ends(s))
  BY <1>5, Primed DEF Wipe, Ends
<1> QED
  BY <1>1, <1>2, <1>3, <1>4, <1>5 DEF Cycle

LEMMA PermitCoroutine ==
    ASSUME TypeOK, NEW s \in Sources, Coroutine(s), NEW u \in Sources, PermitInv(u)
    PROVE  PermitInv(u)'
<1> USE DEF TypeOK, SourceTypeOK, PermitInv, Hand, Pen, Holds, Written,
            AwaitPC, AcquirePC, HeldPC, Goto
<1>1. CASE Proceed(s)
  BY <1>1, Primed, ProceedType DEF Proceed, sourceVars
<1>2. src' = src /\ cycles' = cycles
  BY DEF Coroutine, Resume, Proceed, Acquire, PopulationRead, ReadNothing,
         ReadOwnDigest, ReadText, Acknowledge, RespondAndPost, Apply, ApplyRaises,
         sourceVars
<1>3. CASE u # s /\ ~Proceed(s)
  <2>1. free'[u] = free[u] /\ pc'[u] = pc[u]
    BY <1>3, CountType
       DEF Coroutine, Resume, Acquire, PopulationRead, ReadNothing, ReadOwnDigest,
           ReadText, Acknowledge, RespondAndPost, Apply, ApplyRaises, sourceVars
  <2> QED
    BY <1>2, <2>1, Primed
<1>4. CASE u = s /\ Acquire(s)
  BY <1>2, <1>4, Primed, PermitsAssumption DEF Acquire, Wait
<1>5. CASE u = s /\ PopulationRead(s)
  BY <1>2, <1>5, Primed, PermitsAssumption DEF PopulationRead, Post
<1>6. CASE u = s /\ (ReadNothing(s) \/ ReadOwnDigest(s) \/ RespondAndPost(s))
  BY <1>2, <1>6, Primed, PermitsAssumption
     DEF ReadNothing, ReadOwnDigest, RespondAndPost, Post
<1>7. CASE u = s /\ (Resume(s) \/ Apply(s) \/ ApplyRaises(s))
  BY <1>2, <1>7, Primed DEF Resume, Apply, ApplyRaises, sourceVars
<1>8. CASE u = s /\ (ReadText(s) \/ Acknowledge(s))
  BY <1>2, <1>8, Primed DEF ReadText, Acknowledge, sourceVars
<1> QED
  BY <1>1, <1>3, <1>4, <1>5, <1>6, <1>7, <1>8 DEF Coroutine

IInv == TypeOK /\ \A s \in Sources : PermitInv(s)

LEMMA InitInv == Init => IInv
<1> SUFFICES ASSUME Init, NEW s \in Sources PROVE PermitInv(s)
  BY TypeInit DEF IInv
<1> QED
  BY DEF Init, SourceInit, PermitInv, Hand, Pen, Holds, Written, HeldPC

LEMMA InvPreserved == IInv /\ [Next]_vars => IInv'
<1> SUFFICES ASSUME IInv, [Next]_vars PROVE IInv'
  OBVIOUS
<1>1. TypeOK'
  BY TypePreserved DEF IInv
<1>2. ASSUME NEW s \in Sources PROVE PermitInv(s)'
  <2>1. CASE UNCHANGED vars
    BY <2>1, Primed
       DEF IInv, vars, sourceVars, PermitInv, Hand, Pen, Holds, Written
  <2> QED
    BY <2>1, PermitSource, PermitCoroutine DEF IInv, Next
<1> QED
  BY <1>1, <1>2 DEF IInv

LEMMA NoPermitNoCycle == IInv => BlocksOnlyInFirstCycle
<1> SUFFICES ASSUME IInv, NEW s \in Sources, Waits(s)
             PROVE  /\ cycles[s] = 0 \/ (cycles[s] = 1 /\ Written(s))
                    /\ \A u \in Sources : ~Holds(u)
  BY DEF BlocksOnlyInFirstCycle
<1> USE DEF IInv, TypeOK, SourceTypeOK, Waits, Holds, AwaitPC, AcquirePC, HeldPC
<1>1. cycles[s] = 0 \/ (cycles[s] = 1 /\ Written(s))
  BY DEF PermitInv, Hand, Pen
<1>2. \A u \in Sources : ~Holds(u)
  OBVIOUS
<1> QED
  BY <1>1, <1>2

\* posix_ipc's acquire, which is no await, stops the event loop only in the
\* first cycle of a source, and holding no other permit.
THEOREM BlockingIsBounded == Spec => []BlocksOnlyInFirstCycle
BY InitInv, InvPreserved, NoPermitNoCycle, PTL DEF Spec

-----------------------------------------------------------------------------

(* A source that ends in its first cycle stops the loop for good.          *)

\* The loop stands still at an acquire, and the source will not post again.
Deadlocked(s) == Waits(s) /\ Ended(s)

\* Once a coroutine waits for a source that has ended, it has the loop for ever:
\* no step of another source or coroutine gives it a permit, and the OPC UA
\* server never gets its turn again.
THEOREM DeadlockIsFinal ==
    Spec => [][\A s \in Sources : Deadlocked(s) => Deadlocked(s)']_vars
<1>1. ASSUME TypeOK, Next, NEW s \in Sources, Deadlocked(s) PROVE Deadlocked(s)'
  <2> USE <1>1 DEF TypeOK, SourceTypeOK, Deadlocked, Waits, Ended, AcquirePC, AwaitPC
  <2>1. ASSUME NEW u \in Sources, Source(u) PROVE Deadlocked(s)'
    <3>1. u # s
      BY <2>1 DEF Source, Cycle, Announce, Take, Wipe, Write, Ends, Goes
    <3> QED
      BY <2>1, <3>1
         DEF Source, Cycle, Announce, Take, Wipe, Write, Ends, Goes, Post, Wait
  <2>2. ASSUME NEW u \in Sources, Coroutine(u) PROVE FALSE
    <3>1. u = s
      BY <2>2, OrderType
         DEF Coroutine, Resume, Proceed, Acquire, PopulationRead, ReadNothing,
             ReadOwnDigest, ReadText, Acknowledge, RespondAndPost, Apply, ApplyRaises
    <3> QED
      BY <2>2, <3>1, OrderType
         DEF Coroutine, Resume, Proceed, Acquire, PopulationRead, ReadNothing,
             ReadOwnDigest, ReadText, Acknowledge, RespondAndPost, Apply, ApplyRaises,
             Wait
  <2> QED
    BY <2>1, <2>2 DEF Next
<1>2. TypeOK /\ [Next]_vars
         => [\A s \in Sources : Deadlocked(s) => Deadlocked(s)']_vars
  BY <1>1
<1> QED
  BY <1>2, TypeCorrect, PTL DEF Spec
================================================================================

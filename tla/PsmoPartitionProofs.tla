-------------------------- MODULE PsmoPartitionProofs --------------------------
(***************************************************************************)
(* Theorems about the process of the psM+O partition, for any number of    *)
(* sources, any queue limit and any number of permits told apart.          *)
(***************************************************************************)
EXTENDS PsmoPartition, TLAPS

\* A post and a wait leave a number of permits in every semaphore.
LEMMA CountType ==
    ASSUME free \in [Sources -> 0 .. MaxPermits], NEW s \in Sources, Post(s) \/ Wait(s)
    PROVE  free' \in [Sources -> 0 .. MaxPermits]
BY PermitsAssumption DEF Post, Wait

LEMMA SourceType ==
    ASSUME TypeOK, NEW s \in Sources, Source(s) PROVE TypeOK'
<1> USE DEF TypeOK, SourceTypeOK
<1>1. SourceTypeOK'
  BY CountType DEF Source, Cycle, Announce, Take, Wipe, Write, Ends, Goes
<1> QED
  BY <1>1 DEF Source, reader, process

LEMMA ReaderType ==
    ASSUME TypeOK, NEW s \in Sources, Reader(s) PROVE TypeOK'
<1> USE DEF TypeOK, SourceTypeOK, ReaderPC, Goto, process, sourceVars
<1>1. CASE Open(s) \/ Head(s) \/ ReadSample(s) \/ ReadRaises(s)
  BY <1>1 DEF Open, Head, ReadSample, ReadRaises
<1>2. CASE Acquire(s) \/ ReadNothing(s) \/ ReadOwnDigest(s)
  BY <1>2, CountType DEF Acquire, ReadNothing, ReadOwnDigest
<1>3. CASE Put(s)
  BY <1>3, QueueAssumption DEF Put
<1>4. CASE Acknowledge(s)
  BY <1>4 DEF Acknowledge, Clear
<1>5. CASE RespondAndPost(s)
  <2>1. text' \in [Sources -> {"empty", "sample", "digest", "garbage"}]
    BY <1>5 DEF RespondAndPost, Respond
  <2> QED
    BY <1>5, <2>1, CountType DEF RespondAndPost
<1> QED
  BY <1>1, <1>2, <1>3, <1>4, <1>5 DEF Reader

LEMMA TypePreserved == TypeOK /\ [Next]_vars => TypeOK'
<1> SUFFICES ASSUME TypeOK, [Next]_vars PROVE TypeOK'
  OBVIOUS
<1>1. ASSUME NEW s \in Sources, Get(s) PROVE TypeOK'
  BY <1>1, QueueAssumption DEF TypeOK, SourceTypeOK, Get, reader, sourceVars
<1>2. CASE Interrupt \/ Return
  BY <1>2 DEF TypeOK, SourceTypeOK, Interrupt, Return, reader, sourceVars
<1>3. CASE UNCHANGED vars
  BY <1>3 DEF TypeOK, SourceTypeOK, vars, reader, process, sourceVars
<1> QED
  BY <1>1, <1>2, <1>3, SourceType, ReaderType DEF Next

LEMMA TypeInit == Init => TypeOK
BY PermitsAssumption, QueueAssumption
   DEF Init, SourceInit, TypeOK, SourceTypeOK, ReaderPC

\* Types; no queue holds more than its limit.
THEOREM TypeCorrect == Spec => []TypeOK
BY TypeInit, TypePreserved, PTL DEF Spec

-----------------------------------------------------------------------------
(* What StopsSoon says is inductive: a reader that puts is at "put", where *)
(* it has put nothing since the interrupt, and the head it goes to next    *)
(* ends it.                                                                *)

IInv == TypeOK /\ StopsSoon

LEMMA ReaderStops ==
    ASSUME IInv, NEW s \in Sources, Reader(s) PROVE StopsSoon'
<1> USE DEF IInv, TypeOK, StopsSoon, ReaderPC, Goto, process, sourceVars
<1>1. CASE Put(s)
  BY <1>1 DEF Put
<1>2. CASE Head(s)
  BY <1>2 DEF Head
<1>3. CASE Open(s) \/ Acquire(s)
  BY <1>3 DEF Open, Acquire
<1>4. CASE ReadNothing(s) \/ ReadOwnDigest(s)
  BY <1>4 DEF ReadNothing, ReadOwnDigest
<1>5. CASE ReadSample(s) \/ ReadRaises(s)
  BY <1>5 DEF ReadSample, ReadRaises
<1>6. CASE Acknowledge(s) \/ RespondAndPost(s)
  BY <1>6 DEF Acknowledge, RespondAndPost
<1> QED
  BY <1>1, <1>2, <1>3, <1>4, <1>5, <1>6 DEF Reader

LEMMA InvPreserved == IInv /\ [Next]_vars => IInv'
<1> SUFFICES ASSUME IInv, [Next]_vars PROVE IInv'
  OBVIOUS
<1>1. SUFFICES StopsSoon'
  BY TypePreserved DEF IInv
<1>2. ASSUME NEW s \in Sources, Source(s) \/ Get(s) PROVE StopsSoon'
  BY <1>2 DEF IInv, StopsSoon, Source, Get, reader, process
<1>3. CASE Interrupt \/ Return
  BY <1>3 DEF IInv, StopsSoon, Interrupt, Return, reader
<1>4. CASE UNCHANGED vars
  BY <1>4 DEF IInv, StopsSoon, vars, reader, process
<1> QED
  BY <1>2, <1>3, <1>4, ReaderStops DEF Next

LEMMA InitInv == Init => IInv
<1> SUFFICES ASSUME Init PROVE StopsSoon
  BY TypeInit DEF IInv
<1> QED
  BY DEF Init, StopsSoon

\* After the interrupt a reader puts at most one sample more, and main returns
\* after every reader.
THEOREM ReadersStopSoon == Spec => []StopsSoon
<1>1. IInv => StopsSoon
  BY DEF IInv
<1> QED
  BY <1>1, InitInv, InvPreserved, PTL DEF Spec

-----------------------------------------------------------------------------

(* What EndsUnlessStuck exempts is no passing state.                       *)

\* The reader of s waits at a place it does not get away from, and main for it.
Caught(s) == main = "joining" /\ Stuck(s)

LEMMA SourceLeavesCaught ==
    ASSUME TypeOK, NEW u \in Sources, Source(u), NEW s \in Sources, Caught(s)
    PROVE  Caught(s)'
<1> USE DEF TypeOK, SourceTypeOK, Source, Caught, Stuck, Ended, Goes, reader, process
<1>1. CASE Announce(u)
  BY <1>1 DEF Announce, Post
<1>2. CASE Take(u)
  BY <1>2 DEF Take, Wait
<1>3. CASE Wipe(u)
  BY <1>3 DEF Wipe
<1>4. CASE Write(u)
  BY <1>4 DEF Write, Post
<1>5. CASE Ends(u)
  BY <1>5 DEF Ends
<1> QED
  BY <1>1, <1>2, <1>3, <1>4, <1>5 DEF Cycle

LEMMA ReaderLeavesCaught ==
    ASSUME TypeOK, NEW u \in Sources, Reader(u), NEW s \in Sources, Caught(s)
    PROVE  Caught(s)'
<1> USE DEF TypeOK, SourceTypeOK, Caught, Stuck, Ended, Goto, process, sourceVars
<1>1. CASE Open(u) \/ Head(u)
  BY <1>1 DEF Open, Head
<1>2. CASE Acquire(u)
  BY <1>2 DEF Acquire, Wait
<1>3. CASE ReadNothing(u)
  BY <1>3 DEF ReadNothing, Post
<1>4. CASE ReadOwnDigest(u)
  BY <1>4 DEF ReadOwnDigest, Post
<1>5. CASE ReadSample(u) \/ ReadRaises(u)
  BY <1>5 DEF ReadSample, ReadRaises, Seen
<1>6. CASE Put(u)
  BY <1>6, QueueAssumption DEF Put
<1>7. CASE Acknowledge(u)
  BY <1>7 DEF Acknowledge, Clear
<1>8. CASE RespondAndPost(u)
  BY <1>8 DEF RespondAndPost, Respond, Post
<1> QED
  BY <1>1, <1>2, <1>3, <1>4, <1>5, <1>6, <1>7, <1>8 DEF Reader

\* A reader that is stuck after the interrupt is stuck for ever, and main never
\* returns: neither the sources nor the other readers set it free.
THEOREM StuckForEver == Spec => [][\A s \in Sources : Caught(s) => Caught(s)']_vars
<1>1. ASSUME TypeOK, Next, NEW s \in Sources, Caught(s) PROVE Caught(s)'
  <2>1. ASSUME NEW u \in Sources, Get(u) PROVE FALSE
    BY <1>1, <2>1 DEF Get, Caught
  <2>2. CASE Interrupt \/ Return
    BY <1>1, <2>2 DEF Interrupt, Return, Caught, Stuck
  <2> QED
    BY <1>1, <2>1, <2>2, SourceLeavesCaught, ReaderLeavesCaught DEF Next
<1>2. TypeOK /\ [Next]_vars => [\A s \in Sources : Caught(s) => Caught(s)']_vars
  BY <1>1
<1> QED
  BY <1>2, TypeCorrect, PTL DEF Spec
================================================================================

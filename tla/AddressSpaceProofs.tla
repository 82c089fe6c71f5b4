-------------------------- MODULE AddressSpaceProofs --------------------------
(***************************************************************************)
(* Theorems about AddressSpace: for all names, types and samples the space *)
(* shows what the pass has gone through, and no variable goes back in time.*)
(***************************************************************************)
EXTENDS AddressSpace, TLAPS

\* The number of a value is at most that of the sample: it was read before.
NumberInv == \A n \in Names : node[n] # NoNode => node[n].no <= no

LocalInv == local # Unbound => local.no <= no

IInv == TypeOK /\ NumberInv /\ LocalInv

\* Samples are sequences of entries, and no name is in one twice.
LEMMA SampleEntries ==
    ASSUME NEW s \in Samples
    PROVE  /\ s \in Seq(Entry) /\ Len(s) \in Nat
           /\ \A k \in 1 .. Len(s) : s[k] \in Entry
           /\ \A j, k \in 1 .. Len(s) : s[j].name = s[k].name => j = k
BY SpaceAssumption

\* The value made of an entry is one, and its number stays in its bound.
LEMMA ValueOfIsValue ==
    ASSUME NEW e \in Entry, NEW v \in Nat
    PROVE  /\ ValueOf(e, v) \in Value
           /\ ValueOf(e, v).of = e.name /\ ValueOf(e, v).no = v
           /\ ValueOf(e, v) # NoNode /\ ValueOf(e, v) # Unbound
BY NullAssumption DEF ValueOf, Value, Entry

LEMMA NumberStep ==
    ASSUME no \in 0 .. MaxSample
    PROVE  NextNumber \in 0 .. MaxSample /\ NextNumber >= no
BY SpaceAssumption DEF NextNumber

\* In a pass, the entry at hand is one of the sample.
LEMMA EntryAtHand ==
    ASSUME TypeOK, NEW e \in Entry, Here(e)
    PROVE  /\ sample \in Samples /\ i \in 1 .. Len(sample)
           /\ e = sample[i] /\ e.name \in Names
<1>1. i \in Nat \ {0} /\ i <= Len(sample)
  BY DEF TypeOK, Here
<1>2. sample # <<>>
  BY <1>1
<1>3. sample \in Samples /\ Len(sample) \in Nat
  BY <1>2, SampleEntries DEF TypeOK
<1> QED
  BY <1>1, <1>3 DEF Here, Entry

\* What the population makes of a placed name.
LEMMA PopulatedNode ==
    ASSUME NEW s \in Samples, NEW v \in Nat, NEW n \in Names,
           \E k \in Placed(s) : s[k].name = n
    PROVE  LET e == s[CHOOSE k \in Placed(s) : s[k].name = n]
           IN  /\ e \in Entry /\ e.name = n /\ n \in Grouped
               /\ ValueOf(e, v) \in Value
<1> DEFINE c == CHOOSE k \in Placed(s) : s[k].name = n
<1>1. c \in Placed(s) /\ s[c].name = n
  OBVIOUS
<1>2. c \in 1 .. Len(s) /\ s[c] \in Entry /\ n \in Grouped
  BY <1>1, SampleEntries DEF Placed
<1> QED
  BY <1>1, <1>2, ValueOfIsValue

-----------------------------------------------------------------------------

LEMMA PopulatePreserves ==
    ASSUME IInv, NEW s \in Samples, Populate(s) PROVE IInv'
<1> USE DEF IInv, Populate
<1>1. no \in 0 .. MaxSample /\ no' \in 0 .. MaxSample /\ no' >= no /\ no' \in Nat
  BY NumberStep, SpaceAssumption DEF TypeOK
<1>2. \A n \in Names : \/ node'[n] = NoNode
                       \/ /\ n \in listed' /\ node'[n] \in Value
                          /\ node'[n].no = no'
  <2> TAKE n \in Names
  <2>1. CASE \E k \in Placed(s) : s[k].name = n /\ s[k].type \in Convertible
    <3>1. node'[n] = ValueOf(s[CHOOSE k \in Placed(s) : s[k].name = n], no')
      BY <2>1
    <3>2. node'[n] \in Value
      BY <2>1, <3>1, <1>1, PopulatedNode
    <3>3. node'[n].no = no'
      BY <3>1 DEF ValueOf
    <3> QED
      BY <2>1, <3>2, <3>3
  <2>2. CASE ~\E k \in Placed(s) : s[k].name = n /\ s[k].type \in Convertible
    BY <2>2
  <2> QED
    BY <2>1, <2>2
<1>3. listed' \subseteq Grouped
  BY DEF Placed
<1>4. Placed(s) = {} => listed' = {}
  OBVIOUS
<1>5. born = {} \/ born \subseteq listed'
  BY DEF TypeOK
<1>6. node' \in [Names -> Value \cup {NoNode}]
  BY <1>2
<1>7. TypeOK'
  BY <1>1, <1>2, <1>3, <1>4, <1>5, <1>6 DEF TypeOK
<1>8. NumberInv'
  BY <1>1, <1>2 DEF NumberInv
<1>9. LocalInv'
  BY <1>1, NullAssumption DEF LocalInv, TypeOK, Value
<1> QED
  BY <1>7, <1>8, <1>9

LEMMA DecodePreserves ==
    ASSUME IInv, NEW s \in Samples, Decode(s) PROVE IInv'
<1> USE DEF IInv, Decode
<1>1. no \in 0 .. MaxSample /\ no' \in 0 .. MaxSample /\ no' >= no /\ no' \in Nat
  BY NumberStep, SpaceAssumption DEF TypeOK
<1>2. s \in Seq(Entry) /\ Len(s) \in Nat /\ (s # <<>> => Len(s) >= 1)
  BY SampleEntries
<1>3. TypeOK'
  BY <1>1, <1>2 DEF TypeOK, BeginPass
<1>4. NumberInv'
  <2> SUFFICES ASSUME NEW n \in Names, node[n] # NoNode PROVE node[n].no <= no'
    BY DEF NumberInv
  <2>1. node[n].no \in Nat /\ node[n].no <= no
    BY DEF NumberInv, TypeOK, Value
  <2> QED
    BY <1>1, <2>1
<1>5. LocalInv'
  BY <1>1 DEF LocalInv, TypeOK, Value
<1> QED
  BY <1>3, <1>4, <1>5

LEMMA ReapplyPreserves ==
    ASSUME IInv, Reapply PROVE IInv'
<1>1. sample \in Samples /\ Len(sample) \in Nat /\ Len(sample) >= 1
  BY SampleEntries DEF IInv, TypeOK, Reapply
<1> QED
  BY <1>1 DEF IInv, TypeOK, NumberInv, LocalInv, Reapply, BeginPass

\* Where a pass goes from an entry.
LEMMA AdvanceInRange ==
    ASSUME TypeOK, NEW e \in Entry, Here(e), Advance \/ Abort
    PROVE  /\ i' \in Nat \ {0} /\ phase' \in {"wait", "pass"}
           /\ phase' = "pass" => i' <= Len(sample)
<1>1. i \in 1 .. Len(sample) /\ Len(sample) \in Nat
  BY EntryAtHand, SampleEntries
<1> QED
  BY <1>1 DEF Advance, Abort

LEMMA HandlePreserves ==
    ASSUME IInv, NEW e \in Entry, Handle(e) PROVE IInv'
<1> USE DEF IInv
<1>0. Here(e) /\ (Advance \/ Abort) /\ no' = no /\ sample' = sample
  BY DEF Handle, Set, SetRaises, Create, CreateRaises, Skip
<1>1. /\ i' \in Nat \ {0} /\ phase' \in {"wait", "pass"}
      /\ phase' = "pass" => i' <= Len(sample)
  BY <1>0, AdvanceInRange
<1>2. e.name \in Names /\ no \in Nat /\ phase # "populate"
  BY <1>0, EntryAtHand, SpaceAssumption DEF TypeOK, Here
<1>3. /\ ValueOf(e, no) \in Value /\ ValueOf(e, no).no = no
      /\ ValueOf(e, no) # Unbound /\ ValueOf(e, no) # NoNode
  BY <1>2, ValueOfIsValue
<1>4. CASE Set(e)
  BY <1>0, <1>1, <1>2, <1>3, <1>4 DEF Set, TypeOK, NumberInv, LocalInv
<1>5. CASE SetRaises(e)
  BY <1>0, <1>1, <1>2, <1>3, <1>5 DEF SetRaises, TypeOK, NumberInv, LocalInv
<1>6. CASE Create(e)
  <2>1. local \in Value /\ local.no <= no
    BY <1>6 DEF Create, TypeOK, LocalInv
  <2>2. node' \in [Names -> Value \cup {NoNode}]
    BY <1>6, <2>1 DEF Create, TypeOK
  <2>3. TypeOK'
    BY <1>0, <1>1, <1>2, <1>6, <2>1, <2>2 DEF Create, TypeOK
  <2>4. NumberInv' /\ LocalInv'
    BY <1>0, <1>2, <1>6, <2>1 DEF Create, TypeOK, NumberInv, LocalInv
  <2> QED
    BY <2>3, <2>4
<1>7. CASE CreateRaises(e)
  BY <1>0, <1>1, <1>2, <1>7 DEF CreateRaises, TypeOK, NumberInv, LocalInv
<1>8. CASE Skip(e)
  BY <1>0, <1>1, <1>2, <1>8 DEF Skip, TypeOK, NumberInv, LocalInv
<1> QED
  BY <1>4, <1>5, <1>6, <1>7, <1>8 DEF Handle

\* IInv is inductive.
LEMMA InvPreserved == IInv /\ [Next]_vars => IInv'
<1> SUFFICES ASSUME IInv, [Next]_vars PROVE IInv'
  OBVIOUS
<1>1. CASE UNCHANGED vars
  BY <1>1 DEF IInv, TypeOK, NumberInv, LocalInv, vars
<1> QED
  BY <1>1, PopulatePreserves, DecodePreserves, ReapplyPreserves, HandlePreserves
     DEF Next, Update

LEMMA InitInv == Init => IInv
BY SpaceAssumption, NullAssumption DEF Init, IInv, TypeOK, NumberInv, LocalInv

LEMMA InvHolds == Spec => []IInv
BY InitInv, InvPreserved, PTL DEF Spec

\* Every variable keeps its type; the list and the space agree on the names.
THEOREM TypeCorrect == Spec => []TypeOK
<1>1. IInv => TypeOK
  BY DEF IInv
<1> QED
  BY <1>1, InvHolds, PTL

-----------------------------------------------------------------------------
(* NeverBackwards.                                                         *)

\* No step takes a name's own value away, or puts an older one in its place.
LEMMA OwnKept ==
    ASSUME IInv, [Next]_vars, NEW n \in Names, Own(n)
    PROVE  Own(n)' /\ node'[n].no >= node[n].no
<1> USE DEF IInv, Own
<1>0. node[n] \in Value /\ node[n].no \in Nat /\ node[n].no <= no /\ n \in listed
  BY DEF TypeOK, NumberInv, Value
<1>1. ASSUME NEW s \in Samples, Populate(s) PROVE FALSE
  BY <1>0, <1>1 DEF Populate, TypeOK
<1>2. ASSUME NEW s \in Samples, Decode(s) PROVE node' = node
  BY <1>2 DEF Decode
<1>3. ASSUME NEW e \in Entry, Set(e)
      PROVE  Own(n)' /\ node'[n].no >= node[n].no
  <2>1. e.name \in Names /\ no \in Nat
    BY <1>3, EntryAtHand, SpaceAssumption DEF Set, TypeOK
  <2>2. ValueOf(e, no).of = e.name /\ ValueOf(e, no).no = no /\ ValueOf(e, no) # NoNode
    BY <2>1, ValueOfIsValue
  <2> QED
    BY <1>0, <1>3, <2>1, <2>2 DEF Set, TypeOK
<1>4. ASSUME NEW e \in Entry, Create(e) PROVE node'[n] = node[n]
  BY <1>0, <1>4 DEF Create, TypeOK
<1>5. ASSUME NEW e \in Entry, SetRaises(e) \/ CreateRaises(e) \/ Skip(e)
      PROVE  node' = node
  BY <1>5 DEF SetRaises, CreateRaises, Skip
<1>6. CASE Reapply \/ UNCHANGED vars
  BY <1>0, <1>6 DEF Reapply, vars
<1> QED
  BY <1>0, <1>1, <1>2, <1>3, <1>4, <1>5, <1>6 DEF Next, Update, Handle

\* A variable that shows its own values is never given another's or an older one,
\* whatever order, repetition and failure the samples and the passes have.
THEOREM NoVariableGoesBack == Spec => NeverBackwards
<1>1. IInv /\ [Next]_vars => [KeepsOwn]_vars
  BY OwnKept DEF KeepsOwn
<1> QED
  BY <1>1, InvHolds, PTL DEF Spec, NeverBackwards

-----------------------------------------------------------------------------
(* Applied.                                                                *)

\* What Applied says of one entry.
Shown(e) == /\ e.name \in listed
            /\ Current(e.name) \/ e.name \in born

\* Handling an entry leaves the entries before it as they were shown, and gets
\* past it only when it is shown, too.
LEMMA HandleApplies ==
    ASSUME IInv, Applied, NEW e \in Entry, Handle(e) PROVE Applied'
<1> USE DEF IInv
<1>0. Here(e) /\ (Advance \/ Abort) /\ no' = no /\ sample' = sample
  BY DEF Handle, Set, SetRaises, Create, CreateRaises, Skip
<1>1. /\ sample \in Samples /\ i \in 1 .. Len(sample) /\ e = sample[i]
      /\ e.name \in Names /\ Len(sample) \in Nat /\ no \in Nat
  BY <1>0, EntryAtHand, SampleEntries, SpaceAssumption DEF TypeOK
<1>2. SUFFICES ASSUME NEW j \in 1 .. Len(sample), j < i', sample[j].name \in Grouped
               PROVE  Shown(sample[j])'
  BY <1>0, <1>1 DEF Applied, Shown, Current, Own
<1>3. sample[j] \in Entry /\ sample[j].name \in Names
  BY <1>1, SampleEntries DEF Entry
<1>4. ASSUME j # i PROVE /\ j < i /\ Shown(sample[j])
                         /\ sample[j].name # e.name
  <2>1. j < i
    BY <1>0, <1>1, <1>2, <1>4 DEF Advance, Abort
  <2>2. Shown(sample[j])
    BY <1>2, <2>1 DEF Applied, Shown
  <2>3. sample[j].name # e.name
    BY <1>1, <1>4, SampleEntries
  <2> QED
    BY <2>1, <2>2, <2>3
<1>5. i' = i => j # i
  BY <1>1, <1>2
<1>6. CASE Set(e)
  <2>1. /\ ValueOf(e, no) # NoNode /\ ValueOf(e, no).of = e.name
        /\ ValueOf(e, no).no = no
    BY <1>1, ValueOfIsValue
  <2>2. node' = [node EXCEPT ![e.name] = ValueOf(e, no)] /\ no' = no
        /\ listed' = listed /\ born' = born /\ e.name \in listed
    BY <1>6, <1>0 DEF Set
  <2>3. CASE j = i
    BY <1>0, <1>1, <2>1, <2>2, <2>3 DEF Shown, Current, Own, TypeOK
  <2>4. CASE j # i
    BY <1>0, <1>1, <1>3, <1>4, <2>2, <2>4 DEF Shown, Current, Own, TypeOK
  <2> QED
    BY <2>3, <2>4
<1>7. CASE Create(e)
  <2>1. CASE j = i
    BY <1>0, <1>1, <1>7, <2>1 DEF Create, Shown
  <2>2. CASE j # i
    BY <1>0, <1>1, <1>3, <1>4, <1>7, <2>2 DEF Create, Shown, Current, Own, TypeOK
  <2> QED
    BY <2>1, <2>2
<1>8. CASE SetRaises(e) \/ CreateRaises(e)
  <2>1. i' = i
    BY <1>8 DEF SetRaises, CreateRaises, Abort
  <2> QED
    BY <1>0, <1>4, <1>5, <1>8, <2>1 DEF SetRaises, CreateRaises, Shown, Current, Own
<1>9. CASE Skip(e)
  <2>1. j # i
    BY <1>1, <1>2, <1>9 DEF Skip
  <2> QED
    BY <1>0, <1>4, <1>9, <2>1 DEF Skip, Shown, Current, Own
<1> QED
  BY <1>6, <1>7, <1>8, <1>9 DEF Handle

LEMMA AppliedPreserved == IInv /\ Applied /\ [Next]_vars => Applied'
<1> SUFFICES ASSUME IInv, Applied, [Next]_vars PROVE Applied'
  OBVIOUS
<1>1. ASSUME NEW s \in Samples, Populate(s) PROVE Applied'
  BY <1>1 DEF Populate, IInv, TypeOK, Applied
<1>2. ASSUME NEW s \in Samples, Decode(s) PROVE Applied'
  <2>1. CASE s = <<>>
    BY <1>2, <2>1 DEF Decode, Applied
  <2>2. CASE s # <<>>
    BY <1>2, <2>2, SampleEntries DEF Decode, BeginPass, Applied
  <2> QED
    BY <2>1, <2>2
<1>3. CASE Reapply
  <2>1. Len(sample) \in Nat
    BY <1>3, SampleEntries DEF Reapply, IInv, TypeOK
  <2> QED
    BY <1>3, <2>1 DEF Reapply, BeginPass, Applied
<1>4. CASE UNCHANGED vars
  BY <1>4 DEF vars, Applied, Current, Own
<1> QED
  BY <1>1, <1>2, <1>3, <1>4, HandleApplies DEF Next, Update

\* What a pass has gone through shows this sample, but for the variables it made.
THEOREM PassApplies == Spec => []Applied
<1>1. Init => Applied
  BY DEF Init, Applied
<1> QED
  BY <1>1, AppliedPreserved, InvHolds, PTL DEF Spec

-----------------------------------------------------------------------------

(* What Converges exempts.                                                 *)

\* The name is in the list of variables and has no node in the space.
Nodeless(n) == n \in listed /\ node[n] = NoNode

\* A variable that was kept although its value did not convert never gets a node:
\* it is an obstacle in every sample that has its name, whatever the later values.
THEOREM NodelessStays == Spec => [][\A n \in Names : Nodeless(n) => Nodeless(n)']_vars
<1>1. ASSUME TypeOK, Next, NEW n \in Names, Nodeless(n) PROVE Nodeless(n)'
  <2> USE <1>1 DEF TypeOK, Nodeless
  <2>1. ASSUME NEW s \in Samples, Populate(s) PROVE FALSE
    BY <2>1 DEF Populate
  <2>2. ASSUME NEW s \in Samples, Decode(s) PROVE Nodeless(n)'
    BY <2>2 DEF Decode
  <2>3. CASE Reapply
    BY <2>3 DEF Reapply
  <2>4. ASSUME NEW e \in Entry, Set(e) \/ Create(e) PROVE Nodeless(n)'
    BY <2>4 DEF Set, Accepts, Create
  <2>5. ASSUME NEW e \in Entry, SetRaises(e) \/ CreateRaises(e) \/ Skip(e)
        PROVE  Nodeless(n)'
    BY <2>5 DEF SetRaises, CreateRaises, Skip
  <2> QED
    BY <2>1, <2>2, <2>3, <2>4, <2>5 DEF Next, Update, Handle
<1>2. TypeOK /\ [Next]_vars => [\A n \in Names : Nodeless(n) => Nodeless(n)']_vars
  BY <1>1
<1> QED
  BY <1>2, TypeCorrect, PTL DEF Spec
===============================================================================

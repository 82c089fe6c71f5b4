--------------------------- MODULE UserAdminProofs ---------------------------
(***************************************************************************)
(* Theorems about UserAdmin, for any number of callers: types, and the     *)
(* consistency of the two stores across interleavings, failing accesses    *)
(* and restarts, for the users that never had two calls at a time.         *)
(***************************************************************************)
EXTENDS UserAdmin, FiniteSetTheorems, TLAPS

\* Where a method can be: what an access reads of its arguments is there.
Place(c) ==
    /\ pc[c] \in {"member", "lookup", "insert"} => args[c].op = "add_user"
    /\ pc[c] \in {"last", "record", "delete", "roles"}
          => args[c].op = "remove_user"
    /\ pc[c] \in {"read", "write"} => args[c].op = "update_user_secret"
    /\ pc[c] = "admin" => args[c].op \in {"add_user", "remove_user"}
    /\ pc[c] = "write" => held[c] \in Salts

Shape ==
    /\ pc \in [Callers -> {"idle", "authenticate", "admin", "member", "lookup",
                           "insert", "last", "record", "delete", "roles",
                           "read", "write"}]
    /\ args \in [Callers -> Args \cup {NoArgs}]
    /\ held \in [Callers -> {0} \cup Salts]

TypeInv == TypeOK /\ Shape /\ \A c \in Callers : Place(c)

\* The ids of rows are among the numbers that held ranges over.
LEMMA IdsAreSalts == Ids \subseteq Salts /\ Ids \subseteq Nat \ {0}
<1>1. Cardinality(Callers) \in Nat
  BY FS_CardinalityType, UserAssumption
<1> QED
  BY <1>1, UserAssumption DEF Ids, Salts

\* What the arguments of a method have in common.
LEMMA ArgsFields ==
    ASSUME NEW a \in Args
    PROVE  /\ a.op \in {"add_user", "remove_user", "update_user_secret"}
           /\ a.user \in Users /\ a.secret \in Secrets
           /\ a.op # "update_user_secret" => a.by \in Users
           /\ a.op # "remove_user" => a.new \in Secrets
           /\ a # NoArgs
BY DEF Args, NoArgs

\* A method that returns leaves its caller idle.
LEMMA ReturnType ==
    ASSUME TypeInv, NEW c \in Callers, Return(c)
    PROVE  /\ Shape' /\ contended' = contended
           /\ \A d \in Callers :
                 /\ args'[d] \in IF pc'[d] = "idle" THEN {NoArgs} ELSE Args
                 /\ Place(d)'
BY DEF TypeInv, TypeOK, Shape, Place, Return

\* A call that goes on keeps its arguments.
LEMMA KeepType ==
    ASSUME TypeInv, NEW c \in Callers, NEW l, NEW v, Keep(c, l, v),
           pc[c] # "idle", v \in {0} \cup Salts,
           l \in {"admin", "member", "lookup", "insert", "last", "record",
                  "delete", "roles", "read", "write"},
           l \in {"member", "lookup", "insert"} => args[c].op = "add_user",
           l \in {"last", "record", "delete", "roles"}
              => args[c].op = "remove_user",
           l \in {"read", "write"} => args[c].op = "update_user_secret",
           l = "admin" => args[c].op \in {"add_user", "remove_user"},
           l = "write" => v \in Salts
    PROVE  /\ Shape' /\ contended' = contended
           /\ \A d \in Callers :
                 /\ args'[d] \in IF pc'[d] = "idle" THEN {NoArgs} ELSE Args
                 /\ Place(d)'
BY DEF TypeInv, TypeOK, Shape, Place, Keep

\* A query changes neither store.
LEMMA QueryType ==
    ASSUME TypeInv, UNCHANGED <<accounts, policy, contended>>,
           faults' \subseteq {"lookup", "delete"},
           Shape',
           \A d \in Callers :
              /\ args'[d] \in IF pc'[d] = "idle" THEN {NoArgs} ELSE Args
              /\ Place(d)'
    PROVE  TypeInv'
BY DEF TypeInv, TypeOK, Shape

\* What the current place of a call says of its arguments.
LEMMA CallFields ==
    ASSUME TypeInv, NEW c \in Callers, pc[c] # "idle"
    PROVE  /\ args[c] \in Args
           /\ args[c].op \in {"add_user", "remove_user", "update_user_secret"}
           /\ args[c].user \in Users /\ args[c].secret \in Secrets
           /\ args[c].op # "update_user_secret" => args[c].by \in Users
           /\ args[c].op # "remove_user" => args[c].new \in Secrets
           /\ held[c] \in {0} \cup Salts
<1>1. args[c] \in Args
  BY DEF TypeInv, TypeOK
<1> QED
  BY <1>1, ArgsFields DEF TypeInv, Shape

\* Accesses of a call that change no store keep the types.
LEMMA QueriesPreserve ==
    ASSUME TypeInv, NEW c \in Callers,
           \/ Authenticate(c) \/ Admin(c) \/ Member(c) \/ Lookup(c) \/ Last(c)
           \/ ReadRecord(c) \/ ReadSalt(c) \/ Abandon(c)
    PROVE  TypeInv'
<1>0. pc[c] # "idle"
  BY DEF Authenticate, Admin, Member, Lookup, Last, ReadRecord, ReadSalt, Abandon
<1>a. faults \subseteq {"lookup", "delete"}
  BY DEF TypeInv, TypeOK
<1>1. CASE Authenticate(c)
  BY <1>0, <1>1, <1>a, CallFields, ReturnType, KeepType, QueryType
     DEF Authenticate, Check
<1>2. CASE Admin(c)
  BY <1>0, <1>2, <1>a, CallFields, ReturnType, KeepType, QueryType
     DEF Admin, Check, TypeInv, Place
<1>3. CASE Member(c)
  BY <1>0, <1>3, <1>a, CallFields, ReturnType, KeepType, QueryType
     DEF Member, Check, TypeInv, Place
<1>4. CASE Lookup(c)
  BY <1>0, <1>4, <1>a, CallFields, ReturnType, KeepType, QueryType
     DEF Lookup, Check, TypeInv, Place
<1>5. CASE Last(c)
  BY <1>0, <1>5, <1>a, CallFields, ReturnType, KeepType, QueryType
     DEF Last, Check, TypeInv, Place
<1>6. CASE ReadRecord(c)
  <2>1. ASSUME NEW r \in accounts PROVE r.id \in Salts
    BY IdsAreSalts DEF TypeInv, TypeOK, Row
  <2> QED
    BY <1>0, <1>6, <1>a, <2>1, ReturnType, KeepType, QueryType
       DEF ReadRecord, TypeInv, Place
<1>7. CASE ReadSalt(c)
  <2>1. ASSUME NEW r \in accounts PROVE r.salt \in Salts
    BY DEF TypeInv, TypeOK, Row
  <2> QED
    BY <1>0, <1>7, <1>a, <2>1, ReturnType, KeepType, QueryType
       DEF ReadSalt, TypeInv, Place
<1>8. CASE Abandon(c)
  BY <1>8, <1>a, ReturnType, QueryType DEF Abandon
<1> QED
  BY <1>1, <1>2, <1>3, <1>4, <1>5, <1>6, <1>7, <1>8

\* The three accesses that change the table, and the one that changes the
\* policy, keep the types.
LEMMA WritesPreserve ==
    ASSUME TypeInv, NEW c \in Callers,
           Insert(c) \/ Delete(c) \/ RemoveRoles(c) \/ Write(c)
    PROVE  TypeInv'
<1>0. pc[c] # "idle"
  BY DEF Insert, Delete, RemoveRoles, Write
<1>1. CASE Insert(c)
  <2>1. args[c].user \in Users /\ args[c].new \in Secrets
    BY <1>0, <1>1, CallFields DEF Insert, TypeInv, Place
  <2>2. PICK i \in Ids, s \in Salts :
           /\ NextId(i)
           /\ accounts' = accounts \cup
                 {[id |-> i, user |-> args[c].user, salt |-> s,
                   secret |-> args[c].new, hsalt |-> s]}
    BY <1>1 DEF Insert
  <2>3. accounts' \subseteq Row
    BY <2>1, <2>2 DEF TypeInv, TypeOK, Row
  <2>4. \A r, q \in accounts' : r.id = q.id => r = q
    <3>1. \A r \in accounts : r.id \in Nat /\ i \in Nat /\ r.id # i
      <4>1. i \in Nat /\ \A r \in accounts : r.id \in Nat
        BY IdsAreSalts DEF TypeInv, TypeOK, Row
      <4>2. \A r \in accounts : r.id < i
        BY <2>2 DEF NextId
      <4> QED
        BY <4>1, <4>2
    <3> QED
      BY <2>2, <3>1 DEF TypeInv, TypeOK
  <2> QED
    BY <1>1, <2>3, <2>4, ReturnType DEF Insert, TypeInv, TypeOK, Shape
<1>2. CASE Delete(c)
  <2>1. args[c].op = "remove_user"
    BY <1>2 DEF Delete, TypeInv, Place
  <2>2. accounts' \subseteq accounts /\ faults' \subseteq {"lookup", "delete"}
    BY <1>2 DEF Delete, TypeInv, TypeOK
  <2>3. /\ Shape' /\ contended' = contended
        /\ \A d \in Callers :
              /\ args'[d] \in IF pc'[d] = "idle" THEN {NoArgs} ELSE Args
              /\ Place(d)'
    BY <1>0, <1>2, <2>1, KeepType DEF Delete
  <2> QED
    BY <1>2, <2>2, <2>3 DEF Delete, TypeInv, TypeOK, Shape
<1>3. CASE RemoveRoles(c)
  BY <1>3, ReturnType DEF RemoveRoles, TypeInv, TypeOK, Shape
<1>4. CASE Write(c)
  <2>1. args[c].new \in Secrets /\ held[c] \in Salts
    BY <1>0, <1>4, CallFields DEF Write, TypeInv, Place
  <2> DEFINE Updated(r) ==
           IF r.user = args[c].user
           THEN [r EXCEPT !.secret = args[c].new, !.hsalt = held[c]] ELSE r
  <2>2. ASSUME NEW r \in accounts
        PROVE  Updated(r) \in Row /\ Updated(r).id = r.id
    BY <2>1 DEF TypeInv, TypeOK, Row
  <2>3. accounts' \subseteq Row /\ \A r, q \in accounts' : r.id = q.id => r = q
    <3>1. accounts' = {Updated(r) : r \in accounts}
      BY <1>4 DEF Write
    <3>2. \A r, q \in accounts : r.id = q.id => r = q
      BY DEF TypeInv, TypeOK
    <3> HIDE DEF Updated
    <3> QED
      BY <2>2, <3>1, <3>2
  <2> QED
    BY <1>4, <2>3, ReturnType DEF Write, TypeInv, TypeOK, Shape
<1> QED
  BY <1>1, <1>2, <1>3, <1>4

\* No step takes a variable out of its type.
LEMMA TypePreserved == TypeInv /\ [Next]_vars => TypeInv'
<1> SUFFICES ASSUME TypeInv, [Next]_vars PROVE TypeInv'
  OBVIOUS
<1>1. ASSUME NEW c \in Callers, Method(c) PROVE TypeInv'
  BY <1>1, QueriesPreserve, WritesPreserve DEF Method
<1>2. ASSUME NEW c \in Callers, NEW m \in Args, Begin(c, m) PROVE TypeInv'
  BY <1>2 DEF Begin, TypeInv, TypeOK, Shape, Place
<1>3. CASE Restart
  BY <1>3 DEF Restart, TypeInv, TypeOK, Shape, Place
<1>4. CASE UNCHANGED vars
  BY <1>4 DEF vars, TypeInv, TypeOK, Shape, Place
<1> QED
  BY <1>1, <1>2, <1>3, <1>4 DEF Next

\* The strengthened type invariant, for the theorems below.
LEMMA TypeInvariant == Spec => []TypeInv
<1>1. Init => TypeInv
  <2>1. 1 .. 2 \subseteq Ids /\ Ids \subseteq Salts
    BY IdsAreSalts, UserAssumption DEF Ids
  <2>2. FirstSecret \in Secrets
    BY UserAssumption DEF FirstSecret
  <2>3. \A i \in 1 .. 2 : FirstUsers[i] \in Users
    BY UserAssumption
  <2>4. Init => accounts \subseteq Row
    BY <2>1, <2>2, <2>3 DEF Init, Row
  <2>5. Init => \A r, q \in accounts : r.id = q.id => r = q
    BY DEF Init
  <2>6. Init => \A c \in Callers : /\ pc[c] = "idle" /\ args[c] = NoArgs
                                  /\ held[c] = 0
    BY DEF Init
  <2>7. Init => Shape /\ policy \subseteq PolicyUsers
                /\ faults \subseteq {"lookup", "delete"} /\ contended \subseteq Users
    BY DEF Init, Shape
  <2> QED
    BY <2>4, <2>5, <2>6, <2>7 DEF TypeInv, TypeOK, Shape, Place
<1> QED
  BY <1>1, TypePreserved, PTL DEF Spec

\* Rows are of the table's columns, with distinct ids whatever is deleted and
\* inserted by any number of callers.
THEOREM TypeCorrect == Spec => []TypeOK
<1>1. TypeInv => TypeOK
  BY DEF TypeInv
<1> QED
  BY <1>1, TypeInvariant, PTL

-----------------------------------------------------------------------------
(* Calls about different users.                                            *)

\* Two calls about one user have made it contended.
Exclusive ==
    \A c, d \in Callers :
        (c # d /\ pc[c] # "idle" /\ pc[d] # "idle" /\ args[c].user = args[d].user)
            => args[c].user \in contended

\* What call c has read still says, when the access that relies on it comes:
\* the name is free, all rows of the user have the salt or the id, the user has a
\* role, the user's rows are gone, the row to delete is one of the user, and one
\* of the user has the secret that was given as the old one.
NameFree(c) == pc[c] = "insert" => \A r \in accounts : r.user # args[c].user
SaltHeld(c) == pc[c] = "write" => \A r \in accounts : r.user = args[c].user
                                                          => r.salt = held[c]
IdHeld(c) == pc[c] = "delete" => \A r \in accounts : r.user = args[c].user
                                                         => r.id = held[c]
RoleSeen(c) == pc[c] \in {"lookup", "insert"} => args[c].user \in policy
RowsGone(c) == pc[c] = "roles" => \A r \in accounts : r.user # args[c].user
RowThere(c) == pc[c] = "delete" => \E r \in accounts : /\ r.id = held[c]
                                                       /\ r.user = args[c].user
RowSeen(c) == pc[c] = "write" => \E r \in accounts : /\ r.user = args[c].user
                                                     /\ r.secret = args[c].secret

StillTrue(c) ==
    args[c].user \notin contended =>
        /\ "lookup" \notin faults => NameFree(c) /\ SaltHeld(c) /\ IdHeld(c)
        /\ faults = {} => RoleSeen(c) /\ RowsGone(c)
        /\ contended = {} => RowThere(c) /\ RowSeen(c)

Sound == UniqueAccount /\ SaltsMatch /\ AccountHasRole

IInv == TypeInv /\ Exclusive /\ Sound /\ \A c \in Callers : StillTrue(c)

\* What a step of a call can do to what others rely on: it changes rows of its
\* own user, and removes the row whose id it holds.
LEMMA Footprint ==
    ASSUME TypeInv, NEW d \in Callers, Method(d)
    PROVE  /\ pc[d] # "idle" /\ contended' = contended /\ faults \subseteq faults'
           /\ pc'[d] # "idle" => args'[d] = args[d]
           /\ \A c \in Callers \ {d} : /\ pc'[c] = pc[c] /\ args'[c] = args[c]
                                       /\ held'[c] = held[c]
           /\ \A u \in policy : u \in policy' \/ u = args[d].user
           /\ \A r \in accounts' : r \in accounts \/ r.user = args[d].user
           /\ \A r \in accounts :
                 \/ r \in accounts' \/ r.user = args[d].user
                 \/ pc[d] = "delete" /\ r.id = held[d]
<1> USE DEF TypeInv, Shape
<1>1. CASE \/ Authenticate(d) \/ Admin(d) \/ Member(d) \/ Lookup(d) \/ Last(d)
           \/ ReadRecord(d) \/ ReadSalt(d) \/ Abandon(d)
  BY <1>1 DEF Authenticate, Admin, Member, Lookup, Last, ReadRecord, ReadSalt,
              Abandon, Check, Keep, Return
<1>2. CASE Insert(d)
  BY <1>2 DEF Insert, Return
<1>3. CASE Delete(d)
  BY <1>3 DEF Delete, Keep
<1>4. CASE RemoveRoles(d)
  BY <1>4 DEF RemoveRoles, Return
<1>5. CASE Write(d)
  <2> DEFINE Updated(r) ==
           IF r.user = args[d].user
           THEN [r EXCEPT !.secret = args[d].new, !.hsalt = held[d]] ELSE r
  <2>1. accounts' = {Updated(r) : r \in accounts}
    BY <1>5 DEF Write
  <2>2. ASSUME NEW r \in accounts
        PROVE  Updated(r) = r \/ (Updated(r).user = args[d].user
                                  /\ r.user = args[d].user)
    BY DEF TypeOK, Row
  <2> HIDE DEF Updated
  <2>3. /\ \A r \in accounts' : r \in accounts \/ r.user = args[d].user
        /\ \A r \in accounts : r \in accounts' \/ r.user = args[d].user
    BY <2>1, <2>2
  <2> QED
    BY <1>5, <2>3 DEF Write, Return
<1> QED
  BY <1>1, <1>2, <1>3, <1>4, <1>5 DEF Method

\* The step of a call leaves true what the calls about other users have read.
LEMMA OthersKept ==
    ASSUME IInv, NEW d \in Callers, Method(d), NEW c \in Callers \ {d}
    PROVE  StillTrue(c)'
<1>1. CASE pc[c] = "idle"
  BY <1>1, Footprint DEF IInv, StillTrue, NameFree, SaltHeld, IdHeld, RoleSeen,
                         RowsGone, RowThere, RowSeen
<1>2. CASE args[c].user \in contended
  BY <1>2, Footprint DEF IInv, StillTrue
<1>3. CASE pc[c] # "idle" /\ args[c].user \notin contended
  <2>1. args[d].user # args[c].user
    BY <1>3, Footprint DEF IInv, Exclusive
  <2>2. /\ pc'[c] = pc[c] /\ args'[c] = args[c] /\ held'[c] = held[c]
        /\ contended' = contended /\ faults \subseteq faults'
        /\ args[c].user \in policy => args[c].user \in policy'
        /\ \A r \in accounts' : r.user = args[c].user => r \in accounts
    BY <2>1, Footprint DEF IInv
  <2>3. "lookup" \notin faults' => (NameFree(c) /\ SaltHeld(c) /\ IdHeld(c))'
    BY <1>3, <2>2 DEF IInv, StillTrue, NameFree, SaltHeld, IdHeld
  <2>4. faults' = {} => (RoleSeen(c) /\ RowsGone(c))'
    BY <1>3, <2>2 DEF IInv, StillTrue, RoleSeen, RowsGone
  <2>5. contended' = {} => RowSeen(c)'
    <3> SUFFICES ASSUME contended = {}, pc[c] = "write"
                 PROVE  \E r \in accounts' : /\ r.user = args[c].user
                                             /\ r.secret = args[c].secret
      BY <2>2 DEF RowSeen
    <3>1. PICK r \in accounts : r.user = args[c].user /\ r.secret = args[c].secret
      BY DEF IInv, StillTrue, RowSeen
    <3>2. ~(pc[d] = "delete" /\ r.id = held[d])
      <4> SUFFICES ASSUME pc[d] = "delete", r.id = held[d] PROVE FALSE
        OBVIOUS
      <4>1. PICK q \in accounts : q.id = held[d] /\ q.user = args[d].user
        BY DEF IInv, StillTrue, RowThere
      <4> QED
        BY <2>1, <3>1, <4>1 DEF IInv, TypeInv, TypeOK
    <3> QED
      BY <2>1, <3>1, <3>2, Footprint DEF IInv
  <2>6. contended' = {} => RowThere(c)'
    <3> SUFFICES ASSUME contended = {}, pc[c] = "delete"
                 PROVE  \E r \in accounts' : r.id = held[c] /\ r.user = args[c].user
      BY <2>2 DEF RowThere
    <3>1. PICK r \in accounts : r.id = held[c] /\ r.user = args[c].user
      BY DEF IInv, StillTrue, RowThere
    <3>2. ~(pc[d] = "delete" /\ r.id = held[d])
      <4> SUFFICES ASSUME pc[d] = "delete", r.id = held[d] PROVE FALSE
        OBVIOUS
      <4>1. PICK q \in accounts : q.id = held[d] /\ q.user = args[d].user
        BY DEF IInv, StillTrue, RowThere
      <4> QED
        BY <2>1, <3>1, <4>1 DEF IInv, TypeInv, TypeOK
    <3> QED
      BY <2>1, <3>1, <3>2, Footprint DEF IInv
  <2> QED
    BY <2>3, <2>4, <2>5, <2>6 DEF StillTrue
<1> QED
  BY <1>1, <1>2, <1>3

\* The accesses that only read find what they rely on, and change no store.
LEMMA QueriesConsistent ==
    ASSUME IInv, NEW c \in Callers,
           \/ Authenticate(c) \/ Admin(c) \/ Member(c) \/ Lookup(c) \/ Last(c)
           \/ ReadRecord(c) \/ ReadSalt(c) \/ Abandon(c)
    PROVE  Sound' /\ StillTrue(c)'
<1> USE DEF IInv, StillTrue, NameFree, SaltHeld, IdHeld, RoleSeen, RowsGone,
            RowThere, RowSeen, TypeInv, Shape
<1>1. Sound'
  BY DEF Sound, UniqueAccount, SaltsMatch, AccountHasRole, Apart, Authenticate,
         Admin, Member, Lookup, Last, ReadRecord, ReadSalt, Abandon, Check,
         Keep, Return
<1>2. CASE Authenticate(c)
  BY <1>1, <1>2 DEF Authenticate, Check, Keep, Return
<1>3. CASE Admin(c)
  BY <1>1, <1>3 DEF Admin, Check, Keep, Return
<1>4. CASE Member(c)
  BY <1>1, <1>4 DEF Member, Check, Keep, Return
<1>5. CASE Lookup(c)
  BY <1>1, <1>5 DEF Lookup, Check, Keep, Return
<1>6. CASE Last(c)
  BY <1>1, <1>6 DEF Last, Check, Keep, Return
<1>7. CASE ReadRecord(c)
  <2>1. CASE Return(c)
    BY <1>1, <1>7, <2>1 DEF ReadRecord, Return
  <2>2. ASSUME NEW r \in accounts, Record(r, args[c].user),
               Keep(c, "delete", r.id)
        PROVE  StillTrue(c)'
    <3>1. r.user = args[c].user
      BY <2>2 DEF Record
    <3>2. ("lookup" \notin faults /\ args[c].user \notin contended) =>
              \A q \in accounts : q.user = args[c].user => q = r
      BY <3>1 DEF Sound, UniqueAccount, Apart
    <3> QED
      BY <1>7, <2>2, <3>1, <3>2 DEF ReadRecord, Keep
  <2> QED
    BY <1>1, <1>7, <2>1, <2>2 DEF ReadRecord
<1>8. CASE ReadSalt(c)
  <2>1. CASE Return(c)
    BY <1>1, <1>8, <2>1 DEF ReadSalt, Return
  <2>2. ASSUME NEW r \in accounts, Record(r, args[c].user),
               Matches(r, args[c].secret), Keep(c, "write", r.salt)
        PROVE  StillTrue(c)'
    <3>1. r.user = args[c].user /\ r.secret = args[c].secret
      BY <2>2 DEF Record, Matches
    <3>2. ("lookup" \notin faults /\ args[c].user \notin contended) =>
              \A q \in accounts : q.user = args[c].user => q = r
      BY <3>1 DEF Sound, UniqueAccount, Apart
    <3> QED
      BY <1>8, <2>2, <3>1, <3>2 DEF ReadSalt, Keep
  <2> QED
    BY <1>1, <1>8, <2>1, <2>2 DEF ReadSalt
<1>9. CASE Abandon(c)
  BY <1>1, <1>9 DEF Abandon, Return
<1> QED
  BY <1>2, <1>3, <1>4, <1>5, <1>6, <1>7, <1>8, <1>9

\* The accesses that write rely on what was read, and keep the stores consistent.
LEMMA WritesConsistent ==
    ASSUME IInv, NEW c \in Callers,
           Insert(c) \/ Delete(c) \/ RemoveRoles(c) \/ Write(c)
    PROVE  Sound' /\ StillTrue(c)'
<1> USE DEF Sound, UniqueAccount, SaltsMatch, AccountHasRole, Apart, IInv,
            StillTrue, NameFree, SaltHeld, IdHeld, RoleSeen, RowsGone, RowThere,
            RowSeen, TypeInv, Shape
<1>1. CASE Insert(c)
  <2>1. PICK i \in Ids, s \in Salts :
           accounts' = accounts \cup
              {[id |-> i, user |-> args[c].user, salt |-> s,
                secret |-> args[c].new, hsalt |-> s]}
    BY <1>1 DEF Insert
  <2> QED
    BY <1>1, <2>1 DEF Insert, Return
<1>2. CASE Delete(c)
  BY <1>2 DEF Delete, Keep
<1>3. CASE RemoveRoles(c)
  BY <1>3 DEF RemoveRoles, Return
<1>4. CASE Write(c)
  <2> DEFINE Updated(r) ==
           IF r.user = args[c].user
           THEN [r EXCEPT !.secret = args[c].new, !.hsalt = held[c]] ELSE r
  <2>1. accounts' = {Updated(r) : r \in accounts}
    BY <1>4 DEF Write
  <2>2. ASSUME NEW r \in accounts
        PROVE  /\ Updated(r).user = r.user /\ Updated(r).salt = r.salt
               /\ Updated(r).hsalt = IF r.user = args[c].user THEN held[c]
                                                              ELSE r.hsalt
    BY DEF TypeOK, Row
  <2>3. /\ pc'[c] = "idle" /\ pc[c] = "write"
        /\ UNCHANGED <<policy, faults, contended>>
    BY <1>4 DEF Write, Return
  <2> HIDE DEF Updated
  <2>4. "lookup" \notin faults => UniqueAccount' /\ SaltsMatch'
    BY <2>1, <2>2, <2>3
  <2>5. faults = {} => AccountHasRole'
    BY <2>1, <2>2, <2>3
  <2> QED
    BY <2>3, <2>4, <2>5
<1> QED
  BY <1>1, <1>2, <1>3, <1>4

\* The step of a call preserves the invariant.
LEMMA MethodPreserves == ASSUME IInv, NEW d \in Callers, Method(d) PROVE IInv'
<1>1. TypeInv'
  BY QueriesPreserve, WritesPreserve DEF IInv, Method
<1>2. Exclusive'
  BY Footprint DEF IInv, Exclusive
<1>3. Sound' /\ StillTrue(d)'
  BY QueriesConsistent, WritesConsistent DEF Method
<1> QED
  BY <1>1, <1>2, <1>3, OthersKept DEF IInv

\* A call that begins may only make its user contended.
LEMMA BeginPreserves ==
    ASSUME IInv, NEW d \in Callers, NEW m \in Args, Begin(d, m) PROVE IInv'
<1>1. TypeInv'
  BY TypePreserved DEF IInv, Next
<1>2. /\ contended \subseteq contended' /\ UNCHANGED <<accounts, policy, held, faults>>
      /\ pc[d] = "idle" /\ pc'[d] = "authenticate" /\ args'[d] = m
      /\ \A c \in Callers \ {d} : pc'[c] = pc[c] /\ args'[c] = args[c]
  BY DEF Begin, IInv, TypeInv, Shape
<1>3. \A c \in Callers \ {d} :
          (pc[c] # "idle" /\ args[c].user = m.user) => m.user \in contended'
  <2>1. m.user \in Users
    BY ArgsFields
  <2> QED
    BY <2>1 DEF Begin, Busy
<1>4. Exclusive'
  BY <1>2, <1>3 DEF IInv, Exclusive
<1>5. Sound'
  BY <1>2 DEF IInv, Sound, UniqueAccount, SaltsMatch, AccountHasRole, Apart
<1>6. ASSUME NEW c \in Callers PROVE StillTrue(c)'
  BY <1>2 DEF IInv, StillTrue, NameFree, SaltHeld, IdHeld, RoleSeen, RowsGone,
              RowThere, RowSeen
<1> QED
  BY <1>1, <1>4, <1>5, <1>6 DEF IInv

\* A restart ends every call, and its policy is that of the file.
LEMMA RestartPreserves == ASSUME IInv, Restart PROVE IInv'
<1>1. TypeInv'
  BY TypePreserved DEF IInv, Next
<1>2. \A c \in Callers : pc'[c] = "idle"
  BY DEF Restart
<1>3. Sound'
  BY DEF Restart, IInv, TypeInv, TypeOK, Sound, UniqueAccount, SaltsMatch,
         AccountHasRole, Apart
<1>4. Exclusive' /\ \A c \in Callers : StillTrue(c)'
  BY <1>2 DEF Exclusive, StillTrue, NameFree, SaltHeld, IdHeld, RoleSeen,
              RowsGone, RowThere, RowSeen
<1> QED
  BY <1>1, <1>3, <1>4 DEF IInv

\* The invariant, whichever accesses fail and wherever the process restarts.
LEMMA InvHolds == Spec => []IInv
<1>1. Init /\ TypeInv => IInv
  BY UserAssumption
     DEF Init, IInv, Exclusive, Sound, UniqueAccount, SaltsMatch, AccountHasRole,
         Apart, StillTrue, NameFree, SaltHeld, IdHeld, RoleSeen, RowsGone, RowThere,
         RowSeen
<1>2. IInv /\ [Next]_vars => IInv'
  <2> SUFFICES ASSUME IInv, [Next]_vars PROVE IInv'
    OBVIOUS
  <2>1. CASE UNCHANGED vars
    <3>1. TypeInv'
      BY TypePreserved DEF IInv
    <3> QED
      BY <2>1, <3>1 DEF vars, IInv, Exclusive, Sound, UniqueAccount, SaltsMatch,
         AccountHasRole, Apart, StillTrue, NameFree, SaltHeld, IdHeld, RoleSeen,
         RowsGone, RowThere, RowSeen
  <2> QED
    BY <2>1, MethodPreserves, BeginPreserves, RestartPreserves DEF Next
<1> QED
  BY <1>1, <1>2, TypeInvariant, PTL DEF Spec

\* A user that never had two calls at a time has one account, unless a lookup
\* failed, though nothing but the lookup guards the INSERT.
THEOREM AccountsUnique == Spec => []UniqueAccount
<1>1. IInv => UniqueAccount
  BY DEF IInv, Sound
<1> QED
  BY <1>1, InvHolds, PTL

\* The password that was set opens the account, though its hash is made of a
\* salt read before.
THEOREM HashesMatch == Spec => []SaltsMatch
<1>1. IInv => SaltsMatch
  BY DEF IInv, Sound
<1> QED
  BY <1>1, InvHolds, PTL

\* An account has a role, across restarts, unless an access to the table failed.
THEOREM AccountsHaveRoles == Spec => []AccountHasRole
<1>1. IInv => AccountHasRole
  BY DEF IInv, Sound
<1> QED
  BY <1>1, InvHolds, PTL

\* While no user has had two calls at a time, remove_user deletes no row of
\* another user, even if the lookup of an add_user failed and ids are reused.
THEOREM OnlyTargetRemoved == Spec => RemovesOnlyTarget
<1> DEFINE OnlyTarget == \A c \in Callers :
              (contended = {} /\ pc[c] = "delete" /\ pc'[c] = "roles") =>
                  \A r \in accounts \ accounts' : r.user = args[c].user
<1>1. IInv /\ [Next]_vars => [OnlyTarget]_vars
  <2> SUFFICES ASSUME IInv, Next, NEW c \in Callers, contended = {},
                      pc[c] = "delete", pc'[c] = "roles",
                      NEW r \in accounts \ accounts'
               PROVE  r.user = args[c].user
    OBVIOUS
  <2>1. PICK d \in Callers : Method(d)
    BY DEF Next, Begin, Restart
  <2>2. d = c
    BY <2>1, Footprint DEF IInv
  <2>3. r.user = args[c].user \/ r.id = held[c]
    BY <2>1, <2>2, Footprint DEF IInv
  <2>4. PICK q \in accounts : q.id = held[c] /\ q.user = args[c].user
    BY DEF IInv, StillTrue, RowThere
  <2> QED
    BY <2>3, <2>4 DEF IInv, TypeInv, TypeOK
<1> QED
  BY <1>1, InvHolds, PTL DEF Spec, RemovesOnlyTarget

-----------------------------------------------------------------------------
(* To their callers the methods act on one store.                          *)

Opens == {p \in Users \X Secrets : Authenticated(p[1], p[2])}
Roles == policy \ {u \in Users : \E c \in Callers : /\ pc[c] = "roles"
                                                  /\ args[c].user = u}

\* No user has had two calls, and no access was lost.
Calm == contended = {} /\ faults = {}

\* What opens is what the rows hold, each user's first row being the only one.
OpensRows == Opens = {<<r.user, r.secret>> : r \in accounts}

LEMMA OpensTheRows == ASSUME IInv, Calm PROVE OpensRows
<1>1. ASSUME NEW r \in accounts
      PROVE  /\ r.user \in Users /\ r.secret \in Secrets /\ r.hsalt = r.salt
             /\ Record(r, r.user)
  <2>1. /\ r.user \in Users /\ r.secret \in Secrets /\ r.id \in Nat
    BY IdsAreSalts DEF IInv, TypeInv, TypeOK, Row
  <2>2. r.hsalt = r.salt /\ \A q \in accounts : q.user = r.user => q = r
    BY DEF IInv, Sound, UniqueAccount, SaltsMatch, Apart, Calm
  <2> QED
    BY <2>1, <2>2 DEF Record
<1>2. ASSUME NEW r \in accounts PROVE <<r.user, r.secret>> \in Opens
  BY <1>1 DEF Opens, Authenticated, Matches
<1>3. ASSUME NEW p \in Opens PROVE \E r \in accounts : p = <<r.user, r.secret>>
  <2>1. PICK r \in accounts : Record(r, p[1]) /\ Matches(r, p[2])
    BY DEF Opens, Authenticated
  <2> QED
    BY <2>1 DEF Opens, Record, Matches
<1> QED
  BY <1>2, <1>3 DEF OpensRows

LEMMA OpensTheNextRows == (IInv /\ Calm => OpensRows)'
<1>1. IInv /\ Calm => OpensRows
  BY OpensTheRows
<1> QED
  BY <1>1, PTL

\* The steps of the store, in the words of this module.
LEMMA StoreSteps ==
    ASSUME \/ Opens' = Opens /\ Roles' = Roles
           \/ \E u \in Users, s \in Secrets :
                 /\ u \in Roles /\ \A t \in Secrets : <<u, t>> \notin Opens
                 /\ Opens' = Opens \cup {<<u, s>>} /\ Roles' = Roles
           \/ \E u \in Users, s \in Secrets :
                 /\ <<u, s>> \in Opens
                 /\ Opens' = {p \in Opens : p[1] # u} /\ Roles' = Roles \ {u}
           \/ \E u \in Users, s, t \in Secrets :
                 /\ <<u, s>> \in Opens
                 /\ Opens' = (Opens \ {<<u, s>>}) \cup {<<u, t>>} /\ Roles' = Roles
           \/ Opens' = Opens /\ Roles' = PolicyUsers
    PROVE  [Store!Next]_(Store!vars)
BY DEF Opens, Roles, Store!Next, Store!vars, Store!Add, Store!Remove,
       Store!Change, Store!Restart, Store!HasAccount

\* A query leaves the store as it is.
LEMMA QueriesUnseen ==
    ASSUME IInv, NEW c \in Callers,
           \/ Authenticate(c) \/ Admin(c) \/ Member(c) \/ Lookup(c) \/ Last(c)
           \/ ReadRecord(c) \/ ReadSalt(c) \/ Abandon(c)
    PROVE  Opens' = Opens /\ Roles' = Roles
<1>1. UNCHANGED <<accounts, policy>>
  BY DEF Authenticate, Admin, Member, Lookup, Last, ReadRecord, ReadSalt, Abandon
<1>2. pc[c] # "roles" /\ pc'[c] # "roles"
  BY DEF Authenticate, Admin, Member, Lookup, Last, ReadRecord, ReadSalt, Abandon,
         Check, Keep, Return, IInv, TypeInv, Shape
<1>3. \A d \in Callers \ {c} : pc'[d] = pc[d] /\ args'[d] = args[d]
  BY Footprint DEF IInv, Method
<1>4. Opens' = Opens
  BY <1>1 DEF Opens, Authenticated, Record, Matches
<1> QED
  BY <1>1, <1>2, <1>3, <1>4 DEF Roles

\* The INSERT adds an account of a name that is still free and has a role.
LEMMA InsertAdds ==
    ASSUME IInv, Calm, OpensRows, OpensRows', NEW c \in Callers, Insert(c)
    PROVE  /\ args[c].user \in Users /\ args[c].new \in Secrets
           /\ args[c].user \in Roles
           /\ \A t \in Secrets : <<args[c].user, t>> \notin Opens
           /\ Opens' = Opens \cup {<<args[c].user, args[c].new>>}
           /\ Roles' = Roles
<1>1. args[c].user \in Users /\ args[c].new \in Secrets
  BY CallFields DEF Insert, IInv, TypeInv, Place
<1>2. PICK i \in Ids, s \in Salts :
         accounts' = accounts \cup
            {[id |-> i, user |-> args[c].user, salt |-> s,
              secret |-> args[c].new, hsalt |-> s]}
  BY DEF Insert
<1>3. /\ args[c].user \in policy
      /\ \A r \in accounts : r.user # args[c].user
  BY DEF Insert, IInv, StillTrue, NameFree, RoleSeen, Calm
<1>4. args[c].user \in Roles
  BY <1>3 DEF Insert, IInv, Exclusive, Calm, Roles
<1>5. Opens' = Opens \cup {<<args[c].user, args[c].new>>}
  <2>1. PICK n : /\ n.user = args[c].user /\ n.secret = args[c].new
                 /\ accounts' = accounts \cup {n}
    BY <1>2
  <2>2. Opens' = {<<r.user, r.secret>> : r \in accounts \cup {n}}
    BY <2>1 DEF OpensRows
  <2>3. Opens' = {<<r.user, r.secret>> : r \in accounts} \cup {<<n.user, n.secret>>}
    BY <2>2
  <2> QED
    BY <2>1, <2>3 DEF OpensRows
<1>6. Roles' = Roles
  BY Footprint DEF Insert, Return, IInv, TypeInv, Shape, Roles
<1> QED
  BY <1>1, <1>3, <1>4, <1>5, <1>6 DEF OpensRows

\* The DELETE removes the account, and what is left of its role is nothing to
\* anybody.
LEMMA DeleteRemoves ==
    ASSUME IInv, Calm, Calm', OpensRows, OpensRows', NEW c \in Callers, Delete(c)
    PROVE  /\ args[c].user \in Users
           /\ \E s \in Secrets : <<args[c].user, s>> \in Opens
           /\ Opens' = {p \in Opens : p[1] # args[c].user}
           /\ Roles' = Roles \ {args[c].user}
<1>1. args[c].user \in Users
  BY CallFields DEF Delete, IInv
<1>2. accounts' = {r \in accounts : r.id # held[c]}
  BY DEF Delete, Calm
<1>3. PICK r \in accounts : r.id = held[c] /\ r.user = args[c].user
  BY DEF Delete, IInv, StillTrue, RowThere, Calm
<1>4. \A q \in accounts : q.user = args[c].user <=> q.id = held[c]
  BY <1>3 DEF Delete, IInv, TypeInv, TypeOK, StillTrue, IdHeld, Calm
<1>5. Opens' = {p \in Opens : p[1] # args[c].user}
  BY <1>2, <1>4 DEF OpensRows
<1>6. r.secret \in Secrets /\ <<args[c].user, r.secret>> \in Opens
  BY <1>3 DEF OpensRows, IInv, TypeInv, TypeOK, Row
<1>7. /\ pc[c] = "delete" /\ pc'[c] = "roles" /\ args' = args
      /\ \A d \in Callers \ {c} : pc'[d] = pc[d]
      /\ policy' = policy
  BY DEF Delete, Keep, IInv, TypeInv, Shape
<1>8. Roles' = Roles \ {args[c].user}
  BY <1>1, <1>7 DEF Roles
<1> QED
  BY <1>1, <1>5, <1>6, <1>8

\* The role that goes last is that of a user whose rows are gone.
LEMMA RolesUnseen ==
    ASSUME IInv, NEW c \in Callers, RemoveRoles(c)
    PROVE  Opens' = Opens /\ Roles' = Roles
<1>1. /\ pc[c] = "roles" /\ pc'[c] = "idle" /\ accounts' = accounts
      /\ policy' = policy \ {args[c].user}
      /\ \A d \in Callers \ {c} : pc'[d] = pc[d] /\ args'[d] = args[d]
  BY DEF RemoveRoles, Return, IInv, TypeInv, Shape
<1>2. args[c].user \in Users
  BY <1>1, CallFields DEF IInv
<1>3. Opens' = Opens
  BY <1>1 DEF Opens, Authenticated, Record, Matches
<1>4. Roles' = Roles
  BY <1>1, <1>2 DEF Roles
<1> QED
  BY <1>3, <1>4

\* The UPDATE puts the new password in the place of the one that was given.
LEMMA WriteChanges ==
    ASSUME IInv, Calm, OpensRows, OpensRows', NEW c \in Callers, Write(c)
    PROVE  /\ args[c].user \in Users
           /\ args[c].secret \in Secrets /\ args[c].new \in Secrets
           /\ <<args[c].user, args[c].secret>> \in Opens
           /\ Opens' = (Opens \ {<<args[c].user, args[c].secret>>})
                         \cup {<<args[c].user, args[c].new>>}
           /\ Roles' = Roles
<1> DEFINE Updated(r) ==
         IF r.user = args[c].user
         THEN [r EXCEPT !.secret = args[c].new, !.hsalt = held[c]] ELSE r
<1>1. /\ args[c].user \in Users
      /\ args[c].secret \in Secrets /\ args[c].new \in Secrets
  BY CallFields DEF Write, IInv, TypeInv, Place
<1>2. accounts' = {Updated(r) : r \in accounts}
  BY DEF Write
<1>3. ASSUME NEW r \in accounts
      PROVE  /\ Updated(r).user = r.user
             /\ Updated(r).secret = IF r.user = args[c].user THEN args[c].new
                                                             ELSE r.secret
  BY DEF IInv, TypeInv, TypeOK, Row
<1>4. PICK r \in accounts : r.user = args[c].user /\ r.secret = args[c].secret
  BY DEF Write, IInv, StillTrue, RowSeen, Calm
<1>5. \A q \in accounts : q.user = args[c].user => q = r
  BY <1>4 DEF IInv, Sound, UniqueAccount, Apart, Calm
<1> HIDE DEF Updated
<1>6. Opens' = {<<Updated(q).user, Updated(q).secret>> : q \in accounts}
  BY <1>2 DEF OpensRows
<1>7. Opens' = (Opens \ {<<args[c].user, args[c].secret>>})
                  \cup {<<args[c].user, args[c].new>>}
  BY <1>3, <1>4, <1>5, <1>6 DEF OpensRows
<1>8. Roles' = Roles
  BY Footprint DEF Write, Return, IInv, TypeInv, Shape, Roles
<1> QED
  BY <1>1, <1>4, <1>7, <1>8 DEF OpensRows

\* Every step is one of the store, or changes nothing in it.
LEMMA StoreStep ==
    ASSUME IInv, Next, Calm, Calm', OpensRows, OpensRows'
    PROVE  [Store!Next]_(Store!vars)
<1>1. ASSUME NEW c \in Callers, Method(c) PROVE [Store!Next]_(Store!vars)
  <2>1. CASE Insert(c)
    BY <2>1, InsertAdds, StoreSteps
  <2>2. CASE Delete(c)
    BY <2>2, DeleteRemoves, StoreSteps
  <2>3. CASE RemoveRoles(c)
    BY <2>3, RolesUnseen, StoreSteps
  <2>4. CASE Write(c)
    BY <2>4, WriteChanges, StoreSteps
  <2>5. CASE \/ Authenticate(c) \/ Admin(c) \/ Member(c) \/ Lookup(c) \/ Last(c)
             \/ ReadRecord(c) \/ ReadSalt(c) \/ Abandon(c)
    BY <2>5, QueriesUnseen, StoreSteps
  <2> QED
    BY <1>1, <2>1, <2>2, <2>3, <2>4, <2>5 DEF Method
<1>2. ASSUME NEW c \in Callers, NEW m \in Args, Begin(c, m)
      PROVE  [Store!Next]_(Store!vars)
  <2>1. /\ pc[c] = "idle" /\ pc'[c] = "authenticate"
        /\ UNCHANGED <<accounts, policy>>
        /\ \A d \in Callers \ {c} : pc'[d] = pc[d] /\ args'[d] = args[d]
    BY <1>2 DEF Begin, IInv, TypeInv, Shape
  <2>2. Opens' = Opens /\ Roles' = Roles
    BY <2>1 DEF OpensRows, Roles
  <2> QED
    BY <2>2, StoreSteps
<1>3. CASE Restart
  <2>1. Opens' = Opens /\ Roles' = PolicyUsers
    BY <1>3 DEF Restart, OpensRows, Roles
  <2> QED
    BY <2>1, StoreSteps
<1> QED
  BY <1>1, <1>2, <1>3 DEF Next

\* The rows delivered open one account per user, and the roles are the policy's.
LEMMA StoreInit == ASSUME Init, IInv PROVE Store!Init
<1>1. Calm
  BY DEF Init, Calm
<1>2. Opens = {<<r.user, r.secret>> : r \in accounts}
  BY <1>1, OpensTheRows DEF OpensRows
<1>3. \A r, q \in accounts : r.user = q.user => r = q
  BY <1>1 DEF Calm, IInv, Sound, UniqueAccount, Apart
<1>4. \A p, o \in Opens : p[1] = o[1] => p = o
  BY <1>2, <1>3
<1>5. Opens \subseteq Users \X Secrets
  BY DEF Opens
<1>6. Roles = PolicyUsers
  BY DEF Init, Roles
<1> QED
  BY <1>4, <1>5, <1>6 DEF Store!Init, Opens, Roles

\* As long as no user has had two calls and no access was lost, the methods act
\* on the table and the policy as on one store, each in one step: what a method
\* has checked, one access after the other, holds when it writes.
THEOREM MethodsActAsStore == Spec => ActsAsStore
<1>1. Init /\ IInv => Store!Init
  BY StoreInit
<1>2. IInv /\ IInv' /\ [Next]_vars =>
         [(contended' = {} /\ faults' = {}) => [Store!Next]_(Store!vars)]_vars
  <2> SUFFICES ASSUME IInv, IInv', Next, Calm'
               PROVE  [Store!Next]_(Store!vars)
    BY DEF Calm
  <2>1. contended \subseteq contended' /\ faults \subseteq faults'
    BY Footprint DEF Next, Begin, Restart, IInv
  <2>2. Calm
    BY <2>1 DEF Calm
  <2> QED
    BY <2>2, OpensTheRows, OpensTheNextRows, StoreStep
<1> QED
  BY <1>1, <1>2, InvHolds, PTL DEF Spec, ActsAsStore

=============================================================================

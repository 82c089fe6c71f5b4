------------------------------ MODULE UserAdmin ------------------------------
(***************************************************************************)
(* User administration of the interface partition: the OPC UA methods      *)
(* add_user, remove_user and update_user_secret over two stores, the       *)
(* credentials table in sqlite and the role policy in the memory of the    *)
(* casbin enforcer.                                                        *)
(*                                                                         *)
(* The OPC UA server executes a method in a thread of its pool, so a call  *)
(* per member of Callers may be under way.  One access to either store is  *)
(* one step.  sqlite gives a new row the greatest id plus one, and the     *)
(* table has no constraint on user names.  The policy is read from a file  *)
(* when the process starts; what is removed from it is not written back.   *)
(***************************************************************************)
EXTENDS Naturals, FiniteSets

CONSTANTS Users,        \* the user names
          PolicyUsers,  \* users to whom the policy file assigns a role
          PolicyAdmins, \* those to whom it assigns the role Admin
          FirstUsers,   \* users with a row in the table delivered, of one secret
          Secrets,      \* passwords
          Strong,       \* passwords that validate_password accepts
          Callers,      \* threads that execute a method
          MaxRows       \* bound: rows of the table

ASSUME UserAssumption ==
    /\ PolicyUsers \subseteq Users /\ PolicyAdmins \subseteq PolicyUsers
    /\ FirstUsers \in [1 .. 2 -> PolicyUsers] /\ FirstUsers[1] # FirstUsers[2]
    /\ Strong \subseteq Secrets /\ Strong # {}
    /\ IsFiniteSet(Callers) /\ MaxRows \in Nat \ {0, 1}

Ids == 1 .. MaxRows
Salts == 1 .. 2 * MaxRows + Cardinality(Callers) + 1

\* A row of the table: the password column holds the hash of a secret with a
\* salt (hsalt), which ought to be that of the column salt.
Row == [id : Ids, user : Users, salt : Salts, secret : Secrets, hsalt : Salts]

\* The arguments of the methods.
Args == [op : {"add_user"}, by : Users, secret : Secrets, user : Users,
         new : Secrets]
        \cup [op : {"remove_user"}, by : Users, secret : Secrets, user : Users]
        \cup [op : {"update_user_secret"}, user : Users, secret : Secrets,
              new : Secrets]

VARIABLES
    accounts,   \* the rows of table credentials
    policy,     \* the users with a role in the enforcer's memory
    pc,         \* next access of each call
    args,       \* arguments of each call
    held,       \* the row id or the salt that each call has read
    faults,     \* the accesses to the table that have failed so far
    contended   \* history: the users two calls were about at the same time

vars == <<accounts, policy, pc, args, held, faults, contended>>

NoArgs == [op |-> "none"]
FirstSecret == CHOOSE s \in Strong : TRUE

Init ==
    /\ accounts = {[id |-> i, user |-> FirstUsers[i], salt |-> i,
                    secret |-> FirstSecret, hsalt |-> i] : i \in 1 .. 2}
    /\ policy = PolicyUsers
    /\ pc = [c \in Callers |-> "idle"]
    /\ args = [c \in Callers |-> NoArgs]
    /\ held = [c \in Callers |-> 0]
    /\ faults = {} /\ contended = {}

\* The call goes on to its next access, with a value that it has read.
Keep(c, l, v) == /\ pc' = [pc EXCEPT ![c] = l]
                 /\ held' = [held EXCEPT ![c] = v]
                 /\ UNCHANGED <<args, contended>>

\* The method returns.
Return(c) == /\ pc' = [pc EXCEPT ![c] = "idle"]
             /\ args' = [args EXCEPT ![c] = NoArgs]
             /\ held' = [held EXCEPT ![c] = 0]
             /\ UNCHANGED contended

\* Go on if the access found what the method asks for; otherwise return.
Check(c, found, l) == \/ found /\ Keep(c, l, held[c])
                      \/ ~ found /\ Return(c)

\* The row that fetchone returns for user u: the one of least id.
Record(r, u) == /\ r \in accounts /\ r.user = u
                /\ \A q \in accounts : q.user = u => r.id <= q.id

\* verify_password: the hash of the secret with the row's salt.
Matches(r, s) == r.secret = s /\ r.hsalt = r.salt

Authenticated(u, s) == \E r \in accounts : Record(r, u) /\ Matches(r, s)

-----------------------------------------------------------------------------

\* Another call under way is about user u.
Busy(u) == \E d \in Callers : pc[d] # "idle" /\ args[d].user = u

Begin(c, m) ==
    /\ pc[c] = "idle"
    /\ pc' = [pc EXCEPT ![c] = "authenticate"]
    /\ args' = [args EXCEPT ![c] = m]
    /\ contended' = contended \cup ({m.user} \cap {u \in Users : Busy(u)})
    /\ UNCHANGED <<accounts, policy, held, faults>>

\* verify_credentials of the administrator, or of the user whose secret changes.
Authenticate(c) ==
    /\ pc[c] = "authenticate"
    /\ \/ /\ args[c].op = "update_user_secret"
          /\ Check(c, Authenticated(args[c].user, args[c].secret), "read")
       \/ /\ args[c].op # "update_user_secret"
          /\ Check(c, Authenticated(args[c].by, args[c].secret), "admin")
    /\ UNCHANGED <<accounts, policy, faults>>

\* check_admin_role.
Admin(c) ==
    /\ pc[c] = "admin"
    /\ Check(c, args[c].by \in policy \cap PolicyAdmins,
             IF args[c].op = "add_user" THEN "member" ELSE "last")
    /\ UNCHANGED <<accounts, policy, faults>>

\* Mutant: the password is validated, the policy not asked.
MemberOfAny(c) ==
    /\ pc[c] = "member"
    /\ Check(c, args[c].new \in Strong, "lookup")
    /\ UNCHANGED <<accounts, policy, faults>>

\* add_user: check_user_exists of the policy, and validate_password.
Member(c) ==
    /\ pc[c] = "member"
    /\ Check(c, args[c].user \in policy /\ args[c].new \in Strong, "lookup")
    /\ UNCHANGED <<accounts, policy, faults>>

\* Mutant: the user is looked for under the name of the administrator.
LookupCaller(c) ==
    /\ pc[c] = "lookup"
    /\ Check(c, \E r \in accounts : r.user = args[c].by, "insert")
    /\ UNCHANGED <<accounts, policy, faults>>

\* insert_credentials: a row of that name ends the method.  retrieve_credentials
\* returns the same for an error as for no row.
Lookup(c) ==
    /\ pc[c] = "lookup"
    /\ \/ /\ Check(c, \A r \in accounts : r.user # args[c].user, "insert")
          /\ UNCHANGED faults
       \/ Keep(c, "insert", held[c]) /\ faults' = faults \cup {"lookup"}
    /\ UNCHANGED <<accounts, policy>>

\* Mutant: ids are counted.
CountedId(i) == i = Cardinality(accounts) + 1

\* The id of the next row is one more than the greatest.
NextId(i) == /\ \A r \in accounts : r.id < i
             /\ i = 1 \/ \E r \in accounts : r.id = i - 1

\* A salt that no row, no hash and no call has; any one will do, so the least.
Unused(s) == /\ \A r \in accounts : s # r.salt /\ s # r.hsalt
             /\ \A c \in Callers : held[c] # s
NewSalt(s) == Unused(s) /\ \A t \in Salts : t < s => ~ Unused(t)

\* Mutant: the hash is made of the salt of another user.
InsertSalted(c) ==
    /\ pc[c] = "insert"
    /\ \E i \in Ids, s \in Salts, r \in accounts :
          /\ NextId(i) /\ NewSalt(s)
          /\ accounts' = accounts \cup
                {[id |-> i, user |-> args[c].user, salt |-> s,
                  secret |-> args[c].new, hsalt |-> r.salt]}
    /\ Return(c)
    /\ UNCHANGED <<policy, faults>>

\* The INSERT and its commit, with a salt of its own.
Insert(c) ==
    /\ pc[c] = "insert"
    /\ \E i \in Ids, s \in Salts :
          /\ NextId(i) /\ NewSalt(s)
          /\ accounts' = accounts \cup
                {[id |-> i, user |-> args[c].user, salt |-> s,
                  secret |-> args[c].new, hsalt |-> s]}
    /\ Return(c)
    /\ UNCHANGED <<policy, faults>>

\* remove_user: the only administrator of the policy is not removed.
Last(c) ==
    /\ pc[c] = "last"
    /\ Check(c, policy \cap PolicyAdmins # {args[c].user}, "record")
    /\ UNCHANGED <<accounts, policy, faults>>

\* Mutant: the id is that of any row.
ReadAnyRecord(c) ==
    /\ pc[c] = "record"
    /\ \E r \in accounts : Keep(c, "delete", r.id)
    /\ UNCHANGED <<accounts, policy, faults>>

\* retrieve_user, for the id of its row.
ReadRecord(c) ==
    /\ pc[c] = "record"
    /\ \/ \E r \in accounts : Record(r, args[c].user) /\ Keep(c, "delete", r.id)
       \/ (\A r \in accounts : r.user # args[c].user) /\ Return(c)
    /\ UNCHANGED <<accounts, policy, faults>>

\* delete_credentials by the id read; an sqlite3.Error does not keep remove_user
\* from going on.
Delete(c) ==
    /\ pc[c] = "delete"
    /\ \/ accounts' = {r \in accounts : r.id # held[c]} /\ UNCHANGED faults
       \/ faults' = faults \cup {"delete"} /\ UNCHANGED accounts
    /\ Keep(c, "roles", 0)
    /\ UNCHANGED policy

\* delete_user of the enforcer, in memory only.
RemoveRoles(c) ==
    /\ pc[c] = "roles"
    /\ policy' = policy \ {args[c].user}
    /\ Return(c)
    /\ UNCHANGED <<accounts, faults>>

\* update_credentials: the row is read again, and its salt kept.
ReadSalt(c) ==
    /\ pc[c] = "read"
    /\ \/ \E r \in accounts : /\ Record(r, args[c].user)
                              /\ Matches(r, args[c].secret)
                              /\ Keep(c, "write", r.salt)
       \/ ~ Authenticated(args[c].user, args[c].secret) /\ Return(c)
    /\ UNCHANGED <<accounts, policy, faults>>

\* Mutant: the UPDATE without its WHERE.
WriteEveryRow(c) ==
    /\ pc[c] = "write"
    /\ accounts' = {[r EXCEPT !.secret = args[c].new, !.hsalt = held[c]] : r \in accounts}
    /\ Return(c)
    /\ UNCHANGED <<policy, faults>>

\* The UPDATE of every row of that name, with the hash made of the salt read.
Write(c) ==
    /\ pc[c] = "write"
    /\ accounts' = {IF r.user = args[c].user
                    THEN [r EXCEPT !.secret = args[c].new, !.hsalt = held[c]]
                    ELSE r : r \in accounts}
    /\ Return(c)
    /\ UNCHANGED <<policy, faults>>

\* An error of an access ends the method without an effect.
Abandon(c) ==
    /\ pc[c] \in {"authenticate", "insert", "record", "delete", "read", "write"}
    /\ Return(c)
    /\ UNCHANGED <<accounts, policy, faults>>

\* The process ends and is started again: the policy is that of the file.
Restart ==
    /\ pc' = [c \in Callers |-> "idle"]
    /\ args' = [c \in Callers |-> NoArgs]
    /\ held' = [c \in Callers |-> 0]
    /\ policy' = PolicyUsers
    /\ UNCHANGED <<accounts, faults, contended>>

Method(c) ==
    \/ Authenticate(c) \/ Admin(c) \/ Member(c) \/ Lookup(c) \/ Insert(c)
    \/ Last(c) \/ ReadRecord(c) \/ Delete(c) \/ RemoveRoles(c)
    \/ ReadSalt(c) \/ Write(c) \/ Abandon(c)

Next ==
    \/ \E c \in Callers : Method(c) \/ \E m \in Args : Begin(c, m)
    \/ Restart

Spec == Init /\ [][Next]_vars

-----------------------------------------------------------------------------
(* Properties.                                                             *)

\* Rows are of the table's columns with distinct ids, and a call has arguments
\* while it is under way.
TypeOK ==
    /\ accounts \subseteq Row
    /\ \A r, q \in accounts : r.id = q.id => r = q
    /\ policy \subseteq PolicyUsers
    /\ pc \in [Callers -> {"idle", "authenticate", "admin", "member", "lookup",
                           "insert", "last", "record", "delete", "roles",
                           "read", "write"}]
    /\ \A c \in Callers : args[c] \in IF pc[c] = "idle" THEN {NoArgs} ELSE Args
    /\ held \in [Callers -> {0} \cup Salts]
    /\ faults \subseteq {"lookup", "delete"}
    /\ contended \subseteq Users

\* Methods run in parallel without a lock or a transaction around their accesses.
\* What keeps the stores consistent is that no two calls are about one user at
\* the same time: the rows of a user that never had two are as they should be,
\* whatever the other calls do to the table between any two accesses.
Apart == {r \in accounts : r.user \notin contended}

\* No two rows have a name, although only a lookup keeps them apart, unless that
\* lookup failed.
UniqueAccount ==
    "lookup" \notin faults => \A r, q \in Apart : r.user = q.user => r = q

\* The hash of every row was made with the salt of that row, which may have been
\* read long before, so the secret a user was given, or chose, opens the account.
SaltsMatch == "lookup" \notin faults => \A r \in Apart : r.hsalt = r.salt

\* An account has a role, across restarts of the process in the middle of a
\* method, unless an access to the table failed.
AccountHasRole == faults = {} => \A r \in Apart : r.user \in policy

\* server_methods.py:160, 166, of remove_user: "Remove a user from the system",
\* "User to remove".  Only rows of that user are removed, though by an id read
\* before.  Here no user at all may have had two calls: a removal that went wrong
\* frees the id of another user's row, which a third row gets.
RemovesOnlyTarget ==
    [][\A c \in Callers :
          (contended = {} /\ pc[c] = "delete" /\ pc'[c] = "roles") =>
              \A r \in accounts \ accounts' : r.user = args[c].user]_vars

\* The methods have their effect in one access each, at which what they checked
\* at others before still holds: the name is free, the old password valid, the
\* row that of the user.  To its callers the table and the policy are one store,
\* as long as no user has had two calls and no access was lost.  The role of a
\* user whose rows are deleted is as good as removed.
Store == INSTANCE AccountStore
    WITH opens <- {p \in Users \X Secrets : Authenticated(p[1], p[2])},
         roles <- policy \ {u \in Users : \E c \in Callers : /\ pc[c] = "roles"
                                                           /\ args[c].user = u}

ActsAsStore ==
    /\ Store!Init
    /\ [][(contended' = {} /\ faults' = {}) => [Store!Next]_(Store!vars)]_vars

\* server_methods.py:178: "Check if user is last admin and prevent deletion":
\* there is always an administrator with an account.
AdminRemains == \E r \in accounts : r.user \in policy \cap PolicyAdmins
=============================================================================

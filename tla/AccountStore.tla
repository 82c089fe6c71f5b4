----------------------------- MODULE AccountStore -----------------------------
(***************************************************************************)
(* What the methods of the user administration promise their callers: one  *)
(* store of passwords and roles, on which each method acts in one step, or *)
(* not at all.  The roles are those of the policy file again whenever the  *)
(* process starts.                                                         *)
(***************************************************************************)
CONSTANTS Users, Secrets,
          PolicyUsers   \* users to whom the policy file assigns a role

VARIABLES opens,        \* the pairs of a user and the password that is accepted
          roles         \* the users with a role

vars == <<opens, roles>>

HasAccount(u) == \E s \in Secrets : <<u, s>> \in opens

Init ==
    /\ opens \subseteq Users \X Secrets
    /\ \A p, o \in opens : p[1] = o[1] => p = o
    /\ roles = PolicyUsers

\* A user with a role and no account gets one.
Add(u, s) ==
    /\ u \in roles /\ ~HasAccount(u)
    /\ opens' = opens \cup {<<u, s>>}
    /\ UNCHANGED roles

\* Account and role go together.
Remove(u) ==
    /\ HasAccount(u)
    /\ opens' = {p \in opens : p[1] # u} /\ roles' = roles \ {u}

\* Only the password that is valid at this time gives way to another.
Change(u, old, new) ==
    /\ <<u, old>> \in opens
    /\ opens' = (opens \ {<<u, old>>}) \cup {<<u, new>>}
    /\ UNCHANGED roles

Restart == roles' = PolicyUsers /\ UNCHANGED opens

Next ==
    \/ \E u \in Users, s \in Secrets : Add(u, s) \/ \E t \in Secrets : Change(u, s, t)
    \/ \E u \in Users : Remove(u)
    \/ Restart

Spec == Init /\ [][Next]_vars
=============================================================================

----------------------------- MODULE MCIdentity -----------------------------
(***************************************************************************)
(* The parts share no state: one run checks all of them, `part` saying     *)
(* which one a behaviour is about.                                         *)
(***************************************************************************)
EXTENDS Sessions, Accounts, Permissions, Access, TLC

VARIABLE part

identityVars == <<part, vars, accountVars, rbacVars, accessVars>>

\* The accounts start with no token left and the whole clock for logins, or
\* with every token to come and a shorter clock.
MCInit ==
    /\ Init /\ InitRbac /\ InitAccess
    /\ \/ part \in {"sessions", "logins", "rbac", "access"} /\ AccountsFrom(0, "deleted")
       \/ part = "tokens" /\ AccountsFrom(Horizon - 1, "unborn")
    /\ part \in {"sessions", "rbac", "access"} =>
         \A u \in Owners : account[u].password = CHOOSE p \in Passwords : TRUE
    /\ part # "rbac" => \A o \in Roles, p \in Principals :
                            roleRights[o] = {} /\ userRoles[p] = {}

MCNext ==
    \/ part = "sessions" /\ Next /\ UNCHANGED <<part, accountVars, rbacVars, accessVars>>
    \/ part \in {"logins", "tokens"} /\ NextAccounts /\ UNCHANGED <<part, vars, rbacVars, accessVars>>
    \/ part = "rbac" /\ NextRbac /\ UNCHANGED <<part, vars, accountVars, accessVars>>
    \/ part = "access" /\ NextAccess /\ UNCHANGED <<part, vars, accountVars, rbacVars>>

MCSpec == MCInit /\ [][MCNext]_identityVars

\* The requests of the three parts are the same model values.
Symmetry == Permutations(Requests)
=============================================================================

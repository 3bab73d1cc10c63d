---------------------------- MODULE Permissions ----------------------------
(***************************************************************************)
(* Role-based permissions and their cache.  PostgreSQL holds the grants;   *)
(* Redis keeps the effective permissions of a principal under a key that   *)
(* names a generation and a version of the principal, so that a change     *)
(* invalidates by moving the key.  Reading the key, the entry and the      *)
(* grants and writing the entry back are separate steps, and any of them   *)
(* but the reading of the grants may fail.                                 *)
(***************************************************************************)
EXTENDS Integers, FiniteSets

CONSTANTS Principals,   \* users asking
          Roles,
          Rights,       \* permission names
          Checks,       \* authorization checks in progress at the same time
          MaxChanges,   \* bound on the changes of grants
          NoEntry

ASSUME RbacAssumption == MaxChanges \in Nat

VARIABLES userRoles,    \* identity_user_roles
          roleRights,   \* identity_role_permissions
          generation,   \* the generation key of the cache
          version,      \* the version key of each principal
          cache,        \* entries by <<generation, principal, version>>
          check,        \* what each check is doing
          pending,      \* committed changes not yet invalidated
          changes,      \* grant changes so far
          lost          \* history: principals whose invalidation failed last

rbacVars == <<userRoles, roleRights, generation, version, cache, check,
              pending, changes, lost>>

\* resolve_authorization: what the roles of a principal grant together.
Effective(p) == UNION {roleRights[o] : o \in userRoles[p]}

Versions == 0..MaxChanges
Keys == Versions \X Principals \X Versions
KeyOfPrincipal(p) == <<0, p, version[p]>>
Key(p) == <<generation, p, version[p]>>

InitRbac ==
    /\ userRoles \in [Principals -> SUBSET Roles]
    /\ roleRights \in [Roles -> SUBSET Rights]
    /\ generation = 0
    /\ version = [p \in Principals |-> 0]
    /\ cache = [k \in Keys |-> NoEntry]
    /\ check = [c \in Checks |-> NoEntry]
    /\ pending = {}
    /\ changes = 0
    /\ lost = {}

-----------------------------------------------------------------------------
(* PermissionResolver.resolve: an entry under the current key is the answer  *)
(* and nothing changes; else the grants are read and written back.           *)

\* `overtaken` is history: whether the grants changed since they were read.
CacheMiss(c, p) ==
    /\ check[c] = NoEntry
    /\ check' = [check EXCEPT ![c] =
         [principal |-> p, rights |-> Effective(p), overtaken |-> FALSE]]
    /\ UNCHANGED <<userRoles, roleRights, generation, version, cache, pending, changes, lost>>

\* The key is computed again to write the entry: a change may have moved it.
StoreEntry(c) ==
    /\ check[c] # NoEntry
    /\ cache' = [cache EXCEPT ![Key(check[c].principal)] =
         [rights |-> check[c].rights, overtaken |-> check[c].overtaken]]
    /\ check' = [check EXCEPT ![c] = NoEntry]
    /\ UNCHANGED <<userRoles, roleRights, generation, version, pending, changes, lost>>

\* Redis does not answer: the check is decided and nothing is kept.
StoreFails(c) ==
    /\ check[c] # NoEntry
    /\ check' = [check EXCEPT ![c] = NoEntry]
    /\ UNCHANGED <<userRoles, roleRights, generation, version, cache, pending, changes, lost>>

\* The time to live of an entry ends.
ExpireEntry(k) ==
    /\ cache[k] # NoEntry
    /\ cache' = [cache EXCEPT ![k] = NoEntry]
    /\ UNCHANGED <<userRoles, roleRights, generation, version, check, pending, changes, lost>>

-----------------------------------------------------------------------------
(* PermissionService: a change of the grants is committed, and only then     *)
(* invalidated.                                                              *)

Change(S) ==
    /\ changes < MaxChanges
    /\ changes' = changes + 1
    /\ pending' = pending \cup {[number |-> changes, scope |-> S]}
    /\ check' = [c \in Checks |->
         IF check[c] # NoEntry /\ check[c].principal \in S
         THEN [check[c] EXCEPT !.overtaken = TRUE] ELSE check[c]]
    /\ UNCHANGED <<generation, version, cache, lost>>

AssignRole(p, o) ==
    /\ o \notin userRoles[p]
    /\ userRoles' = [userRoles EXCEPT ![p] = @ \cup {o}]
    /\ Change({p})
    /\ UNCHANGED roleRights

\* Revoking what is not there invalidates all the same.
RevokeRole(p, o) ==
    /\ userRoles' = [userRoles EXCEPT ![p] = @ \ {o}]
    /\ Change({p})
    /\ UNCHANGED roleRights

AssignPermission(o, x) ==
    /\ x \notin roleRights[o]
    /\ roleRights' = [roleRights EXCEPT ![o] = @ \cup {x}]
    /\ Change(Principals)
    /\ UNCHANGED userRoles

RevokePermission(o, x) ==
    /\ roleRights' = [roleRights EXCEPT ![o] = @ \ {x}]
    /\ Change(Principals)
    /\ UNCHANGED userRoles

\* invalidate_user moves the key of one principal, invalidate_all every key.
InvalidateUser(d, p) ==
    /\ d \in pending /\ d.scope = {p}
    /\ version' = [version EXCEPT ![p] = @ + 1]
    /\ pending' = pending \ {d}
    /\ lost' = lost \ {p}
    /\ UNCHANGED <<userRoles, roleRights, generation, cache, check, changes>>

InvalidateAll(d) ==
    /\ d \in pending /\ d.scope = Principals
    /\ generation' = generation + 1
    /\ pending' = pending \ {d}
    /\ lost' = {}
    /\ UNCHANGED <<userRoles, roleRights, version, cache, check, changes>>

\* A failing Redis loses the invalidation, and the change stays.
InvalidationFails(d) ==
    /\ d \in pending
    /\ pending' = pending \ {d}
    /\ lost' = lost \cup d.scope
    /\ UNCHANGED <<userRoles, roleRights, generation, version, cache, check, changes>>

NextRbac ==
    \/ \E c \in Checks : \/ StoreEntry(c) \/ StoreFails(c)
                         \/ \E p \in Principals : CacheMiss(c, p)
    \/ \E k \in Keys : ExpireEntry(k)
    \/ \E o \in Roles : \/ \E p \in Principals : AssignRole(p, o) \/ RevokeRole(p, o)
                        \/ \E x \in Rights : AssignPermission(o, x) \/ RevokePermission(o, x)
    \/ \E d \in pending : \/ InvalidateAll(d) \/ InvalidationFails(d)
                          \/ \E p \in Principals : InvalidateUser(d, p)

RbacSpec == InitRbac /\ [][NextRbac]_rbacVars

-----------------------------------------------------------------------------
\* What a check finds in the cache are the grants of the principal, except
\* while the invalidation of a change is outstanding, when the last one
\* failed, or when the entry was read before a change and written after it
\* (then until its time to live or the next change): no other interleaving
\* of resolutions and changes leaves a stale entry.
StaleHasCause ==
    \A p \in Principals :
        LET entry == cache[Key(p)] IN
        entry # NoEntry =>
            \/ entry.rights = Effective(p)
            \/ entry.overtaken
            \/ p \in lost
            \/ \E d \in pending : p \in d.scope
=============================================================================

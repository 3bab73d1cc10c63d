------------------------------- MODULE Access -------------------------------
(***************************************************************************)
(* Tenant isolation.  A request passes three points, and roles, stores and *)
(* memberships may change between any two of them: its route requires a    *)
(* permission, its service looks for the row within the caller's scope,    *)
(* and only then it reads or writes what it came for.                      *)
(***************************************************************************)
EXTENDS Routes, Integers, FiniteSets

CONSTANTS Persons, Shops,
          Assignable,      \* the roles an administrator gives and takes here
          MaxHeld,         \* bound on the roles an account has at the same time
          Nothing

ASSUME AccessAssumption == Assignable \subseteq RoleNames

VARIABLES held,      \* identity_user_roles
          holder,    \* owner of each store, Nothing before it is created
          seat,      \* status of each person's membership of each store
          asking,    \* the request in progress
          answered   \* the last request that did what it came for

accessVars == <<held, holder, seat, asking, answered>>

SeatStatuses == {"none", "pending", "active", "suspended", "removed"}

InitAccess ==
    /\ held = [p \in Persons |-> {}]
    /\ holder = [s \in Shops |-> Nothing]
    /\ seat = [s \in Shops |-> [p \in Persons |-> "none"]]
    /\ asking = Nothing
    /\ answered = Nothing

-----------------------------------------------------------------------------
(* The two scopes of store rows.                                             *)

StoreOwnedBy(p, s) == holder[s] = p
StoreKnownTo(p, s) == holder[s] = p \/ seat[s][p] \in {"pending", "active"}
StoreAccessibleBy(p, s) == holder[s] = p \/ seat[s][p] = "active"

\* The condition a service puts on the row; rows of the caller are always
\* his, and the rows of everybody need no store of the caller's.
InScope(scope, p, s, of) ==
    CASE scope = "owner" -> StoreOwnedBy(p, s)
      [] scope = "member" -> StoreAccessibleBy(p, s)
      [] scope = "invited" -> seat[s][p] = "pending"
      [] scope = "new" -> holder[s] = Nothing
      [] scope \in {"own", "verdict"} -> of = p
      [] OTHER -> TRUE

\* History kept with a request: what its caller was at some time since it
\* began.  `staff` is a role that neither a customer nor a guest holds.
Witness ==
    asking' = IF asking = Nothing THEN Nothing
              ELSE [asking EXCEPT
                    !.inside = @ \/ holder'[asking.shop] = asking.by
                                 \/ seat'[asking.shop][asking.by] = "active",
                    !.staff = @ \/ held'[asking.by] \ Shoppers # {}]

-----------------------------------------------------------------------------
(* The request.                                                              *)

\* require_permission.  `of` is whose row the path names, `shop` which store's.
Ask(p, r, s, q) ==
    /\ asking = Nothing
    /\ r.needs = "none" \/ r.needs \in PermissionsOf(held[p])
    /\ asking' = [by |-> p, of |-> q, shop |-> s, scope |-> r.scope, does |-> r.does,
                  at |-> "service",
                  inside |-> holder[s] = p \/ seat[s][p] = "active",
                  staff |-> held[p] \ Shoppers # {}]
    /\ answered' = Nothing
    /\ UNCHANGED <<held, holder, seat>>

\* The service finds the row, or answers that there is none.
Find ==
    /\ asking # Nothing /\ asking.at = "service"
    /\ asking' = IF InScope(asking.scope, asking.by, asking.shop, asking.of)
                 THEN [asking EXCEPT !.at = "found"]
                 ELSE Nothing
    /\ UNCHANGED <<held, holder, seat, answered>>

\* Of what requests change, only who is inside a store matters here.
Finish ==
    /\ asking # Nothing /\ asking.at = "found"
    /\ asking.scope \in {"new", "invited"} =>
         InScope(asking.scope, asking.by, asking.shop, asking.of)
    /\ holder' = IF asking.scope = "new"
                 THEN [holder EXCEPT ![asking.shop] = asking.by] ELSE holder
    /\ \/ asking.scope = "invited"
          /\ \E status \in {"active", "removed"} :
                seat' = [seat EXCEPT ![asking.shop][asking.by] = status]
       \/ asking.scope # "invited" /\ UNCHANGED seat
    /\ answered' = [scope |-> asking.scope, does |-> asking.does,
                    inside |-> asking.inside, staff |-> asking.staff,
                    own |-> asking.of = asking.by]
    /\ asking' = Nothing
    /\ UNCHANGED held

-----------------------------------------------------------------------------
(* What changes meanwhile.                                                   *)

GiveRole(p, o) ==
    /\ o \notin held[p] /\ Cardinality(held[p]) < MaxHeld
    /\ held' = [held EXCEPT ![p] = @ \cup {o}]
    /\ UNCHANGED <<holder, seat, answered>>
    /\ Witness

TakeRole(p, o) ==
    /\ o \in held[p]
    /\ held' = [held EXCEPT ![p] = @ \ {o}]
    /\ UNCHANGED <<holder, seat, answered>>
    /\ Witness

\* The owner invites, suspends, reactivates and removes; a step starts from
\* the statuses the service allows it in.
Seat(p, s, from, to) ==
    /\ holder[s] \notin {Nothing, p}
    /\ seat[s][p] \in from
    /\ seat' = [seat EXCEPT ![s][p] = to]
    /\ UNCHANGED <<held, holder, answered>>
    /\ Witness

InviteMember(p, s) == Seat(p, s, {"none", "removed"}, "pending")
SuspendMember(p, s) == Seat(p, s, {"active"}, "suspended")
ReactivateMember(p, s) == Seat(p, s, {"suspended"}, "active")
RemoveMember(p, s) == Seat(p, s, {"pending", "active", "suspended"}, "removed")

NextAccess ==
    \/ \E p, q \in Persons, r \in AllRoutes, s \in Shops : Ask(p, r, s, q)
    \/ Find \/ Finish
    \/ \E p \in Persons : \/ \E o \in Assignable : GiveRole(p, o) \/ TakeRole(p, o)
                          \/ \E s \in Shops : \/ InviteMember(p, s) \/ SuspendMember(p, s)
                                              \/ ReactivateMember(p, s) \/ RemoveMember(p, s)

AccessSpec == InitAccess /\ [][NextAccess]_accessVars

-----------------------------------------------------------------------------
\* Store data is isolated by membership: whoever reads or changes rows of a
\* store, on a route that is not open to administrators or to the public, was
\* its owner or an active member of it at some time during the request, so
\* that access ends with the first request begun after the removal.
TenantIsolation ==
    answered # Nothing /\ answered.scope \in {"owner", "member"} => answered.inside

\* Nothing of a store is changed, and no return or refund is decided, by an
\* account that was only a customer or a guest all the while, whatever
\* memberships it accepted; and returns are decided on the caller's own rows.
StaffDecides ==
    answered # Nothing /\ answered.does = "writes"
        /\ answered.scope \in {"owner", "member", "verdict"} =>
        /\ answered.staff
        /\ answered.scope = "verdict" => answered.own
=============================================================================

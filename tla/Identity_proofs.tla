--------------------------- MODULE Identity_proofs ---------------------------
(***************************************************************************)
(* Proofs about who may do what and about the sessions of an account, for  *)
(* any persons, stores, accounts and concurrent requests.                  *)
(***************************************************************************)
EXTENDS Sessions, Accounts, Permissions, Access, FiniteSetTheorems, WellFoundedInduction, TLAPS

-----------------------------------------------------------------------------
(* The routes and the grants *)

\* What is asked of whoever changes the rows of a store or decides a return.
StaffRights ==
    {"store:update", "store:delete", "catalog:create", "catalog:update",
     "attribute:create", "attribute:update", "attribute:assign",
     "price:list:create", "price:list:update", "price:create", "price:update",
     "promotion:create", "promotion:activate", "promotion:archive", "promotion:update",
     "coupon:create", "coupon:update", "inventory:update",
     "return:approve", "return:inspect", "return:receive", "return:reject",
     "refund:process"}

StaffScopes == {"owner", "member", "verdict"}

\* A route that changes rows of a store or decides a return asks for a right
\* of the staff.
AsksForStaff(r) == r.does = "writes" /\ r.scope \in StaffScopes => r.needs \in StaffRights

LEMMA ReadsAskForStaff ==
    ASSUME NEW scope, NEW needs, NEW ops, NEW r \in Reads(scope, needs, ops)
    PROVE  r.scope = scope /\ AsksForStaff(r)
BY DEF Reads, AsksForStaff

LEMMA WritesAskForStaff ==
    ASSUME NEW scope, NEW needs, NEW ops, NEW r \in Writes(scope, needs, ops),
           scope \in StaffScopes => needs \in StaffRights
    PROVE  r.scope = scope /\ AsksForStaff(r)
BY DEF Writes, AsksForStaff

\* No route of the API changes rows of a store, or decides a return, on a
\* right outside StaffRights.
LEMMA RoutesAskForStaff == \A r \in AllRoutes : AsksForStaff(r)
<1>1. \A r \in AuthRoutes : AsksForStaff(r)
    BY ReadsAskForStaff, WritesAskForStaff DEF AuthRoutes, StaffScopes, StaffRights
<1>2. \A r \in AccountRoutes : AsksForStaff(r)
    BY ReadsAskForStaff, WritesAskForStaff DEF AccountRoutes, StaffScopes, StaffRights
<1>3. \A r \in SessionRoutes : AsksForStaff(r)
    BY ReadsAskForStaff, WritesAskForStaff DEF SessionRoutes, StaffScopes, StaffRights
<1>4. \A r \in NotificationRoutes : AsksForStaff(r)
    BY ReadsAskForStaff, WritesAskForStaff DEF NotificationRoutes, StaffScopes, StaffRights
<1>5. \A r \in CartRoutes : AsksForStaff(r)
    BY ReadsAskForStaff, WritesAskForStaff DEF CartRoutes, StaffScopes, StaffRights
<1>6. \A r \in CartItemRoutes : AsksForStaff(r)
    BY ReadsAskForStaff, WritesAskForStaff DEF CartItemRoutes, StaffScopes, StaffRights
<1>7. \A r \in CartEndRoutes : AsksForStaff(r)
    BY ReadsAskForStaff, WritesAskForStaff DEF CartEndRoutes, StaffScopes, StaffRights
<1>8. \A r \in CheckoutRoutes : AsksForStaff(r)
    BY ReadsAskForStaff, WritesAskForStaff DEF CheckoutRoutes, StaffScopes, StaffRights
<1>9. \A r \in OrderRoutes : AsksForStaff(r)
    BY ReadsAskForStaff, WritesAskForStaff DEF OrderRoutes, StaffScopes, StaffRights
<1>10. \A r \in PaymentRoutes : AsksForStaff(r)
    BY ReadsAskForStaff, WritesAskForStaff DEF PaymentRoutes, StaffScopes, StaffRights
<1>11. \A r \in PaymentStepRoutes : AsksForStaff(r)
    BY ReadsAskForStaff, WritesAskForStaff DEF PaymentStepRoutes, StaffScopes, StaffRights
<1>12. \A r \in ReservationRoutes : AsksForStaff(r)
    BY ReadsAskForStaff, WritesAskForStaff DEF ReservationRoutes, StaffScopes, StaffRights
<1>13. \A r \in ShipmentRoutes : AsksForStaff(r)
    BY ReadsAskForStaff, WritesAskForStaff DEF ShipmentRoutes, StaffScopes, StaffRights
<1>14. \A r \in ShipmentStepRoutes : AsksForStaff(r)
    BY ReadsAskForStaff, WritesAskForStaff DEF ShipmentStepRoutes, StaffScopes, StaffRights
<1>15. \A r \in ReturnRoutes : AsksForStaff(r)
    BY ReadsAskForStaff, WritesAskForStaff DEF ReturnRoutes, StaffScopes, StaffRights
<1>16. \A r \in ReturnStepRoutes : AsksForStaff(r)
    BY ReadsAskForStaff, WritesAskForStaff DEF ReturnStepRoutes, StaffScopes, StaffRights
<1>17. \A r \in RefundRoutes : AsksForStaff(r)
    BY ReadsAskForStaff, WritesAskForStaff DEF RefundRoutes, StaffScopes, StaffRights
<1>18. \A r \in CouponUseRoutes : AsksForStaff(r)
    BY ReadsAskForStaff, WritesAskForStaff DEF CouponUseRoutes, StaffScopes, StaffRights
<1>19. \A r \in StoreRoutes : AsksForStaff(r)
    BY ReadsAskForStaff, WritesAskForStaff DEF StoreRoutes, StaffScopes, StaffRights
<1>20. \A r \in VerificationRoutes : AsksForStaff(r)
    BY ReadsAskForStaff, WritesAskForStaff DEF VerificationRoutes, StaffScopes, StaffRights
<1>21. \A r \in StoreMediaRoutes : AsksForStaff(r)
    BY ReadsAskForStaff, WritesAskForStaff DEF StoreMediaRoutes, StaffScopes, StaffRights
<1>22. \A r \in StoreMediaItemRoutes : AsksForStaff(r)
    BY ReadsAskForStaff, WritesAskForStaff DEF StoreMediaItemRoutes, StaffScopes, StaffRights
<1>23. \A r \in HoursRoutes : AsksForStaff(r)
    BY ReadsAskForStaff, WritesAskForStaff DEF HoursRoutes, StaffScopes, StaffRights
<1>24. \A r \in AnalyticsRoutes : AsksForStaff(r)
    BY ReadsAskForStaff, WritesAskForStaff DEF AnalyticsRoutes, StaffScopes, StaffRights
<1>25. \A r \in MembershipRoutes : AsksForStaff(r)
    BY ReadsAskForStaff, WritesAskForStaff DEF MembershipRoutes, StaffScopes, StaffRights
<1>26. \A r \in InvitationRoutes : AsksForStaff(r)
    BY ReadsAskForStaff, WritesAskForStaff DEF InvitationRoutes, StaffScopes, StaffRights
<1>27. \A r \in CatalogRoutes : AsksForStaff(r)
    BY ReadsAskForStaff, WritesAskForStaff DEF CatalogRoutes, StaffScopes, StaffRights
<1>28. \A r \in AttributeRoutes : AsksForStaff(r)
    BY ReadsAskForStaff, WritesAskForStaff DEF AttributeRoutes, StaffScopes, StaffRights
<1>29. \A r \in AttributeValueRoutes : AsksForStaff(r)
    BY ReadsAskForStaff, WritesAskForStaff DEF AttributeValueRoutes, StaffScopes, StaffRights
<1>30. \A r \in VariantAttributeRoutes : AsksForStaff(r)
    BY ReadsAskForStaff, WritesAskForStaff DEF VariantAttributeRoutes, StaffScopes, StaffRights
<1>31. \A r \in PriceListRoutes : AsksForStaff(r)
    BY ReadsAskForStaff, WritesAskForStaff DEF PriceListRoutes, StaffScopes, StaffRights
<1>32. \A r \in PriceListPriceRoutes : AsksForStaff(r)
    BY ReadsAskForStaff, WritesAskForStaff DEF PriceListPriceRoutes, StaffScopes, StaffRights
<1>33. \A r \in PromotionRoutes : AsksForStaff(r)
    BY ReadsAskForStaff, WritesAskForStaff DEF PromotionRoutes, StaffScopes, StaffRights
<1>34. \A r \in PromotionStepRoutes : AsksForStaff(r)
    BY ReadsAskForStaff, WritesAskForStaff DEF PromotionStepRoutes, StaffScopes, StaffRights
<1>35. \A r \in CouponRoutes : AsksForStaff(r)
    BY ReadsAskForStaff, WritesAskForStaff DEF CouponRoutes, StaffScopes, StaffRights
<1>36. \A r \in CategoryRoutes : AsksForStaff(r)
    BY ReadsAskForStaff, WritesAskForStaff DEF CategoryRoutes, StaffScopes, StaffRights
<1>37. \A r \in CollectionRoutes : AsksForStaff(r)
    BY ReadsAskForStaff, WritesAskForStaff DEF CollectionRoutes, StaffScopes, StaffRights
<1>38. \A r \in ProductRoutes : AsksForStaff(r)
    BY ReadsAskForStaff, WritesAskForStaff DEF ProductRoutes, StaffScopes, StaffRights
<1>39. \A r \in VariantRoutes : AsksForStaff(r)
    BY ReadsAskForStaff, WritesAskForStaff DEF VariantRoutes, StaffScopes, StaffRights
<1>40. \A r \in ProductMediaRoutes : AsksForStaff(r)
    BY ReadsAskForStaff, WritesAskForStaff DEF ProductMediaRoutes, StaffScopes, StaffRights
<1>41. \A r \in PriceRoutes : AsksForStaff(r)
    BY ReadsAskForStaff, WritesAskForStaff DEF PriceRoutes, StaffScopes, StaffRights
<1>42. \A r \in ImportRoutes : AsksForStaff(r)
    BY ReadsAskForStaff, WritesAskForStaff DEF ImportRoutes, StaffScopes, StaffRights
<1>43. \A r \in ImportReadRoutes : AsksForStaff(r)
    BY ReadsAskForStaff, WritesAskForStaff DEF ImportReadRoutes, StaffScopes, StaffRights
<1>44. \A r \in InventoryRoutes : AsksForStaff(r)
    BY ReadsAskForStaff, WritesAskForStaff DEF InventoryRoutes, StaffScopes, StaffRights
<1>45. \A r \in StockRoutes : AsksForStaff(r)
    BY ReadsAskForStaff, WritesAskForStaff DEF StockRoutes, StaffScopes, StaffRights
<1>46. \A r \in InventoryItemRoutes : AsksForStaff(r)
    BY ReadsAskForStaff, WritesAskForStaff DEF InventoryItemRoutes, StaffScopes, StaffRights
<1>47. \A r \in OperationsRoutes : AsksForStaff(r)
    BY ReadsAskForStaff, WritesAskForStaff DEF OperationsRoutes, StaffScopes, StaffRights
<1>48. \A r \in SearchRoutes : AsksForStaff(r)
    BY ReadsAskForStaff, WritesAskForStaff DEF SearchRoutes, StaffScopes, StaffRights
<1> QED
    BY <1>1, <1>2, <1>3, <1>4, <1>5, <1>6, <1>7, <1>8, <1>9, <1>10, <1>11, <1>12, <1>13, <1>14, <1>15, <1>16, <1>17, <1>18, <1>19, <1>20, <1>21, <1>22, <1>23, <1>24, <1>25, <1>26, <1>27, <1>28, <1>29, <1>30, <1>31, <1>32, <1>33, <1>34, <1>35, <1>36, <1>37, <1>38, <1>39, <1>40, <1>41, <1>42, <1>43, <1>44, <1>45, <1>46, <1>47, <1>48 DEF AllRoutes

\* Customers and guests hold no right of the staff: no migration grants one.
LEMMA ShoppersLackStaffRights ==
    ASSUME NEW roles, roles \subseteq Shoppers, NEW right \in StaffRights
    PROVE  right \notin PermissionsOf(roles)
<1> SUFFICES ASSUME NEW g \in Migrations, NEW o \in Shoppers
             PROVE  right \notin g[o]
    BY DEF PermissionsOf
<1> USE DEF Shoppers, StaffRights, GrantTo, RoleNames, AccountRoles
<1>1. right \notin SeedGrants[o]
    BY DEF SeedGrants
<1>2. right \notin PriceGrants[o] /\ right \notin PriceListGrants[o]
    BY DEF PriceGrants, PriceListGrants
<1>3. right \notin AttributeGrants[o] /\ right \notin CartGrants[o]
    BY DEF AttributeGrants, CartGrants
<1>4. right \notin CheckoutGrants[o] /\ right \notin OrderGrants[o]
    BY DEF CheckoutGrants, OrderGrants
<1>5. right \notin PaymentGrants[o] /\ right \notin ReservationGrants[o]
    BY DEF PaymentGrants, ReservationGrants
<1>6. right \notin CreateReservationGrants[o] /\ right \notin ShipmentGrants[o]
    BY DEF CreateReservationGrants, ShipmentGrants
<1>7. right \notin ReturnGrants[o]
    BY DEF ReturnGrants, ReturnRights, CustomerPermissions
<1>8. right \notin PromotionGrants[o] /\ right \notin NotificationGrants[o]
    BY DEF PromotionGrants, NotificationGrants
<1> QED
    BY <1>1, <1>2, <1>3, <1>4, <1>5, <1>6, <1>7, <1>8 DEF Migrations

-----------------------------------------------------------------------------
(* Access *)

AccessTypes ==
    /\ held \in [Persons -> SUBSET RoleNames]
    /\ holder \in [Shops -> Persons \cup {Nothing}]
    /\ seat \in [Shops -> [Persons -> SeatStatuses]]

\* The request in progress, with its fields.
RequestTypes ==
    asking # Nothing =>
        /\ DOMAIN asking = {"by", "of", "shop", "scope", "does", "at", "inside", "staff"}
        /\ asking.by \in Persons /\ asking.shop \in Shops
        /\ asking.at \in {"service", "found"}
        /\ asking.inside \in BOOLEAN /\ asking.staff \in BOOLEAN

\* The history of a request is up to date: what its caller is now, it notes.
WitnessUpToDate ==
    asking # Nothing =>
        /\ holder[asking.shop] = asking.by \/ seat[asking.shop][asking.by] = "active"
           => asking.inside
        /\ held[asking.by] \ Shoppers # {} => asking.staff

\* What has been checked stays known when it is no longer true.
CheckedSoFar ==
    asking # Nothing =>
        /\ asking.at = "found" /\ asking.scope \in {"owner", "member"} => asking.inside
        /\ asking.at = "found" /\ asking.scope = "verdict" => asking.of = asking.by
        /\ asking.does = "writes" /\ asking.scope \in StaffScopes => asking.staff

AccessInv ==
    AccessTypes /\ RequestTypes /\ WitnessUpToDate /\ CheckedSoFar
    /\ TenantIsolation /\ StaffDecides

USE AccessAssumption

LEMMA AccessInit == InitAccess => AccessInv
BY DEF InitAccess, AccessInv, AccessTypes, RequestTypes, WitnessUpToDate, CheckedSoFar,
       TenantIsolation, StaffDecides, SeatStatuses

\* The route: whoever may write for the staff has a role of the staff.
LEMMA AskPreserves ==
    ASSUME AccessInv, NEW p \in Persons, NEW q \in Persons, NEW r \in AllRoutes,
           NEW s \in Shops, Ask(p, r, s, q)
    PROVE  AccessInv'
<1>1. AsksForStaff(r)
    BY RoutesAskForStaff
<1>2. ASSUME r.does = "writes", r.scope \in StaffScopes
      PROVE  held[p] \ Shoppers # {}
    <2>1. r.needs \in StaffRights /\ r.needs # "none"
        BY <1>1, <1>2 DEF AsksForStaff, StaffRights
    <2>2. r.needs \in PermissionsOf(held[p])
        BY <2>1 DEF Ask
    <2> QED
        BY <2>1, <2>2, ShoppersLackStaffRights
<1>3. AccessTypes'
    BY DEF AccessInv, AccessTypes, Ask
<1>4. RequestTypes' /\ WitnessUpToDate'
    BY DEF AccessInv, AccessTypes, RequestTypes, WitnessUpToDate, Ask
<1>5. CheckedSoFar'
    BY <1>2 DEF AccessInv, AccessTypes, CheckedSoFar, Ask
<1>6. TenantIsolation' /\ StaffDecides'
    BY DEF TenantIsolation, StaffDecides, Ask
<1> QED
    BY <1>3, <1>4, <1>5, <1>6 DEF AccessInv

\* The service: the row was in the scope of the caller when it was found.
LEMMA FindPreserves ==
    ASSUME AccessInv, Find
    PROVE  AccessInv'
<1>1. CASE ~InScope(asking.scope, asking.by, asking.shop, asking.of)
    BY <1>1 DEF AccessInv, AccessTypes, RequestTypes, WitnessUpToDate, CheckedSoFar,
                TenantIsolation, StaffDecides, Find
<1>2. CASE InScope(asking.scope, asking.by, asking.shop, asking.of)
    <2> USE <1>2 DEF Find
    <2>1. asking # Nothing /\ asking' = [asking EXCEPT !.at = "found"]
        OBVIOUS
    <2>2. RequestTypes'
        BY <2>1 DEF AccessInv, RequestTypes
    <2>3. AccessTypes' /\ TenantIsolation' /\ StaffDecides'
        BY DEF AccessInv, AccessTypes, TenantIsolation, StaffDecides
    <2>4. WitnessUpToDate'
        BY <2>1 DEF AccessInv, RequestTypes, WitnessUpToDate
    <2>5. asking.scope \in {"owner", "member"} => asking.inside
        BY DEF AccessInv, WitnessUpToDate, InScope, StoreOwnedBy, StoreAccessibleBy
    <2>6. asking.scope = "verdict" => asking.of = asking.by
        BY DEF InScope
    <2>7. CheckedSoFar'
        BY <2>1, <2>5, <2>6 DEF AccessInv, RequestTypes, CheckedSoFar
    <2> QED
        BY <2>2, <2>3, <2>4, <2>7 DEF AccessInv
<1> QED
    BY <1>1, <1>2

LEMMA FinishPreserves ==
    ASSUME AccessInv, Finish
    PROVE  AccessInv'
<1>1. asking # Nothing /\ asking.at = "found" /\ asking' = Nothing
    BY DEF Finish
<1>2. AccessTypes'
    <2>1. held' \in [Persons -> SUBSET RoleNames] /\ holder' \in [Shops -> Persons \cup {Nothing}]
        BY <1>1 DEF AccessInv, AccessTypes, RequestTypes, Finish
    <2>2. seat' \in [Shops -> [Persons -> SeatStatuses]]
        <3>1. ASSUME NEW status \in {"active", "removed"},
                     seat' = [seat EXCEPT ![asking.shop][asking.by] = status]
              PROVE  seat' \in [Shops -> [Persons -> SeatStatuses]]
            <4>1. status \in SeatStatuses
                BY DEF SeatStatuses
            <4> QED
                BY <1>1, <3>1, <4>1 DEF AccessInv, AccessTypes, RequestTypes
        <3> QED
            BY <3>1 DEF AccessInv, AccessTypes, Finish
    <2> QED
        BY <2>1, <2>2 DEF AccessTypes
<1>3. RequestTypes' /\ WitnessUpToDate' /\ CheckedSoFar'
    BY <1>1 DEF RequestTypes, WitnessUpToDate, CheckedSoFar
<1>4. TenantIsolation'
    BY <1>1 DEF AccessInv, CheckedSoFar, TenantIsolation, Finish
<1>5. StaffDecides'
    BY <1>1 DEF AccessInv, CheckedSoFar, StaffDecides, StaffScopes, Finish
<1> QED
    BY <1>2, <1>3, <1>4, <1>5 DEF AccessInv

\* Whatever changes meanwhile, the history of the request notes it.
LEMMA WitnessPreserves ==
    ASSUME AccessInv, AccessTypes', Witness, UNCHANGED answered
    PROVE  AccessInv'
<1>1. TenantIsolation' /\ StaffDecides'
    BY DEF AccessInv, TenantIsolation, StaffDecides
<1>2. CASE asking = Nothing
    BY <1>1, <1>2 DEF AccessInv, RequestTypes, WitnessUpToDate, CheckedSoFar, Witness
<1>3. CASE asking # Nothing
    <2>1. /\ asking'.by = asking.by /\ asking'.shop = asking.shop
          /\ asking'.of = asking.of /\ asking'.scope = asking.scope
          /\ asking'.does = asking.does /\ asking'.at = asking.at
          /\ DOMAIN asking' = DOMAIN asking
          /\ asking'.inside = (asking.inside \/ holder'[asking.shop] = asking.by
                                             \/ seat'[asking.shop][asking.by] = "active")
          /\ asking'.staff = (asking.staff \/ held'[asking.by] \ Shoppers # {})
        BY <1>3 DEF AccessInv, RequestTypes, Witness
    <2>2. RequestTypes'
        BY <1>3, <2>1 DEF AccessInv, RequestTypes
    <2>3. WitnessUpToDate'
        BY <2>1 DEF WitnessUpToDate
    <2>4. CheckedSoFar'
        BY <1>3, <2>1 DEF AccessInv, CheckedSoFar
    <2> QED
        BY <1>1, <2>2, <2>3, <2>4 DEF AccessInv
<1> QED
    BY <1>2, <1>3

LEMMA SeatPreserves ==
    ASSUME AccessInv, NEW p \in Persons, NEW s \in Shops, NEW from, NEW to \in SeatStatuses,
           Seat(p, s, from, to)
    PROVE  AccessInv'
<1>1. AccessTypes'
    BY DEF AccessInv, AccessTypes, Seat
<1> QED
    BY <1>1, WitnessPreserves DEF Seat

LEMMA AccessStep == AccessInv /\ [NextAccess]_accessVars => AccessInv'
<1> SUFFICES ASSUME AccessInv, [NextAccess]_accessVars
             PROVE  AccessInv'
    OBVIOUS
<1>1. ASSUME NEW p \in Persons, NEW q \in Persons, NEW r \in AllRoutes, NEW s \in Shops,
             Ask(p, r, s, q)
      PROVE  AccessInv'
    BY <1>1, AskPreserves
<1>2. CASE Find
    BY <1>2, FindPreserves
<1>3. CASE Finish
    BY <1>3, FinishPreserves
<1>4. ASSUME NEW p \in Persons, NEW o \in Assignable, GiveRole(p, o) \/ TakeRole(p, o)
      PROVE  AccessInv'
    <2>1. AccessTypes'
        BY <1>4 DEF AccessInv, AccessTypes, GiveRole, TakeRole
    <2> QED
        BY <1>4, <2>1, WitnessPreserves DEF GiveRole, TakeRole
<1>5. ASSUME NEW p \in Persons, NEW s \in Shops,
             \/ InviteMember(p, s) \/ SuspendMember(p, s)
             \/ ReactivateMember(p, s) \/ RemoveMember(p, s)
      PROVE  AccessInv'
    BY <1>5, SeatPreserves
       DEF InviteMember, SuspendMember, ReactivateMember, RemoveMember, SeatStatuses
<1>6. CASE UNCHANGED accessVars
    BY <1>6 DEF AccessInv, AccessTypes, RequestTypes, WitnessUpToDate, CheckedSoFar,
                TenantIsolation, StaffDecides, accessVars
<1> QED
    BY <1>1, <1>2, <1>3, <1>4, <1>5, <1>6 DEF NextAccess

\* Whoever read or changed rows of a store on a route that is not open to
\* administrators or to the public was its owner or an active member of it at
\* some time during the request, for any roles, stores and memberships.
THEOREM IsolationHolds == AccessSpec => []TenantIsolation
<1>1. AccessInv => TenantIsolation
    BY DEF AccessInv
<1> QED
    BY AccessInit, AccessStep, <1>1, PTL DEF AccessSpec

\* Nothing of a store is changed and no return or refund is decided by an
\* account that was only a customer or a guest all the while: no route and no
\* migration lets one through.
THEOREM StaffDecidesHolds == AccessSpec => []StaffDecides
<1>1. AccessInv => StaffDecides
    BY DEF AccessInv
<1> QED
    BY AccessInit, AccessStep, <1>1, PTL DEF AccessSpec

-----------------------------------------------------------------------------
(* Refresh sessions *)

Works == [op : Bulks \cup {"refresh"}, sid : Sids \cup {None},
          read : {"active", "revoked", "none"}, asked : SUBSET Sids,
          todo : SUBSET Sids, held : SUBSET Sids]

SessionTypes ==
    /\ sessions \in [Sids -> Row]
    /\ eligible \in [Users -> BOOLEAN]
    /\ clock \in Nat
    /\ request \in [Requests -> Works \cup {None}]

Born(s) == sessions[s].state # "unborn"

\* A row is locked by one request at a time.
HeldApart == \A r, q \in Requests : r # q => Held(r) \cap Held(q) = {}

\* What a request has read is still so: the token a refresh looked at is as it
\* was read, and of what a revocation asked for nothing active is left out.
WorkOK(w) ==
    /\ \A s \in w.held : Born(s)
    /\ w.op \in {"refresh", "reuse", "ineligible"} =>
         w.sid \in Sids /\ w.sid \in w.held /\ Born(w.sid)
    /\ w.op = "refresh" => w.held = {w.sid} /\ sessions[w.sid].state = w.read
    /\ w.op \in Bulks =>
         \A s \in w.asked : Born(s) /\ (s \in w.todo \cup w.held \/ ~Active(s))

WorksOK == \A r \in Requests : Busy(r) => WorkOK(request[r])

\* A family is named by a session that has been opened.
FamiliesBorn == \A s \in Sids : Born(s) => Born(sessions[s].family)

SessionsInv ==
    SessionTypes /\ HeldApart /\ WorksOK /\ FamiliesBorn /\ OneLivePerFamily

USE SessionsAssumption

LEMMA SessionsInit == Init => SessionsInv
<1> SUFFICES ASSUME Init PROVE SessionsInv
    OBVIOUS
<1>1. SessionTypes
    BY DEF Init, SessionTypes, Row
<1>2. HeldApart /\ WorksOK
    BY DEF Init, HeldApart, WorksOK, Held, Busy
<1>3. FamiliesBorn /\ OneLivePerFamily
    BY DEF Init, FamiliesBorn, OneLivePerFamily, Born, Active
<1> QED
    BY <1>1, <1>2, <1>3 DEF SessionsInv

\* A step of one request that changes no session.
LEMMA RequestMoves ==
    ASSUME SessionsInv, NEW r \in Requests, NEW w \in Works \cup {None},
           request' = [request EXCEPT ![r] = w],
           UNCHANGED <<sessions, eligible, clock>>,
           w # None => WorkOK(w) /\ \A q \in Requests \ {r} : w.held \cap Held(q) = {}
    PROVE  SessionsInv'
<1>1. SessionTypes'
    BY DEF SessionsInv, SessionTypes
<1>2. FamiliesBorn' /\ OneLivePerFamily'
    BY DEF SessionsInv, FamiliesBorn, OneLivePerFamily, Born, Active
<1>3. ASSUME NEW q \in Requests
      PROVE  request'[q] = IF q = r THEN w ELSE request[q]
    BY DEF SessionsInv, SessionTypes
<1>4. HeldApart'
    BY <1>3 DEF SessionsInv, HeldApart, Held, Busy
<1>5. WorksOK'
    BY <1>3 DEF SessionsInv, WorksOK, WorkOK, Busy, Born, Active
<1> QED
    BY <1>1, <1>2, <1>4, <1>5 DEF SessionsInv

\* A step that changes sessions and at most ends the request r: no row held by
\* a request that goes on changes, and only a new session becomes active.
LEMMA SessionsMove ==
    ASSUME SessionsInv, SessionTypes', NEW r \in Requests,
           request' = request \/ request' = [request EXCEPT ![r] = None],
           \A s \in Sids : Born(s) => Born(s)',
           \A s \in Sids : Active(s)' => Active(s) \/ ~Born(s),
           \A s \in Sids, q \in Requests :
               s \in Held(q) /\ Born(s) /\ sessions'[s] # sessions[s] => request'[q] = None
    PROVE  HeldApart' /\ WorksOK'
<1>1. ASSUME NEW q \in Requests, request'[q] # None
      PROVE  request'[q] = request[q] /\ request[q] # None /\ request[q] \in Works
    BY <1>1 DEF SessionsInv, SessionTypes
<1>2. HeldApart'
    BY <1>1 DEF SessionsInv, HeldApart, Held, Busy
<1>3. ASSUME NEW q \in Requests, request'[q] # None
      PROVE  WorkOK(request[q])'
    <2>1. /\ request[q] \in Works /\ WorkOK(request[q])
          /\ request'[q] = request[q] /\ Held(q) = request[q].held
        BY <1>1, <1>3 DEF SessionsInv, WorksOK, Busy, Held
    <2>2. request[q].held \subseteq Sids /\ request[q].asked \subseteq Sids
        BY <2>1 DEF Works
    <2>3. ASSUME NEW s \in request[q].held
          PROVE  s \in Sids /\ Born(s) /\ sessions'[s] = sessions[s]
        BY <1>3, <2>1, <2>2, <2>3 DEF WorkOK
    <2>4. \A s \in request[q].asked : Born(s) /\ ~Active(s) => ~Active(s)'
        BY <2>2
    <2> QED
        BY <2>1, <2>2, <2>3, <2>4 DEF WorkOK, Born, Active
<1>4. WorksOK'
    BY <1>3 DEF WorksOK, Busy
<1> QED
    BY <1>2, <1>4

\* The statement of a revocation starts over sessions that are active.
LEMMA BulkStarts ==
    ASSUME SessionsInv, NEW r \in Requests, NEW op \in Bulks, NEW sid \in Sids \cup {None},
           NEW scope \in SUBSET Sids, NEW rows \in SUBSET Sids,
           \A s \in scope : Active(s),
           op \in {"reuse", "ineligible"} => sid \in rows /\ Born(sid) /\ sid \in Sids,
           rows \subseteq Held(r), \A s \in rows : Born(s),
           Bulk(r, op, sid, scope, rows), UNCHANGED <<sessions, eligible, clock>>
    PROVE  SessionsInv'
<1> DEFINE w == [op |-> op, sid |-> sid, read |-> "none",
                 asked |-> scope, todo |-> scope, held |-> rows]
<1>1. w \in Works
    BY DEF Works
<1>2. WorkOK(w)
    BY DEF WorkOK, Born, Active, Bulks, Logouts
<1>3. \A q \in Requests \ {r} : w.held \cap Held(q) = {}
    BY DEF SessionsInv, HeldApart
<1>4. request' = [request EXCEPT ![r] = w]
    BY DEF Bulk
<1> HIDE DEF w
<1> QED
    BY <1>1, <1>2, <1>3, <1>4, RequestMoves

\* The same of a request that begins with it, which holds no row yet.
LEMMA RevocationStarts ==
    ASSUME SessionsInv, NEW r \in Requests, NEW op \in Bulks \ {"reuse", "ineligible"},
           NEW scope \in SUBSET Sids, \A s \in scope : Active(s),
           Bulk(r, op, None, scope, {}), UNCHANGED <<sessions, eligible, clock>>
    PROVE  SessionsInv'
<1> DEFINE rows == {}
<1>1. /\ rows \in SUBSET Sids /\ rows \subseteq Held(r) /\ \A s \in rows : Born(s)
      /\ op \in Bulks /\ ~(op \in {"reuse", "ineligible"}) /\ None \in Sids \cup {None}
      /\ Bulk(r, op, None, scope, rows)
    OBVIOUS
<1> HIDE DEF rows
<1> QED
    BY <1>1, BulkStarts

\* What a request knows of the token it refreshes.
LEMMA RefreshKnows ==
    ASSUME SessionsInv, NEW r \in Requests, Refreshing(r)
    PROVE  /\ request[r] \in Works /\ request[r].sid \in Sids
           /\ Held(r) = {request[r].sid}
           /\ Born(request[r].sid)
           /\ request[r].read = "active" => Active(request[r].sid)
BY DEF SessionsInv, SessionTypes, WorksOK, WorkOK, Refreshing, Busy, Held, Active, Works

LEMMA ActiveOfUser ==
    \A u : OfUser(u) \in SUBSET Sids /\ \A s \in OfUser(u) : Active(s)
BY DEF OfUser

\* Requests that begin.
LEMMA StartPreserves ==
    ASSUME SessionsInv, NEW r \in Requests, Start(r)
    PROVE  SessionsInv'
<1>1. ASSUME NEW t \in Sids, BeginRefresh(r, t)
      PROVE  SessionsInv'
    <2> DEFINE w == [op |-> "refresh", sid |-> t, read |-> sessions[t].state,
                     asked |-> {}, todo |-> {}, held |-> {t}]
    <2>1. w \in Works
        BY <1>1 DEF BeginRefresh, Exists, Works
    <2>2. WorkOK(w)
        BY <1>1 DEF BeginRefresh, Exists, WorkOK, Born, Bulks, Logouts
    <2>3. \A q \in Requests \ {r} : w.held \cap Held(q) = {}
        BY <1>1 DEF BeginRefresh, LockedRow
    <2>4. request' = [request EXCEPT ![r] = w] /\ UNCHANGED <<sessions, eligible, clock>>
        BY <1>1 DEF BeginRefresh
    <2> HIDE DEF w
    <2> QED
        BY <2>1, <2>2, <2>3, <2>4, RequestMoves
<1>2. ASSUME NEW cur \in Sids, RevokeOthers(r, cur)
      PROVE  SessionsInv'
    <2> DEFINE scope == {s \in OfUser(sessions[cur].user) \ {cur} : sessions[s].expires > clock}
    <2>1. scope \in SUBSET Sids /\ \A s \in scope : Active(s)
        BY DEF OfUser
    <2>2. /\ Bulk(r, "others", None, scope, {}) /\ UNCHANGED <<sessions, eligible, clock>>
          /\ "others" \in Bulks \ {"reuse", "ineligible"}
        BY <1>2 DEF RevokeOthers, Bulks
    <2> HIDE DEF scope
    <2> QED
        BY <2>1, <2>2, RevocationStarts
<1>3. ASSUME NEW cur \in Sids, NEW s \in Sids, RevokeOne(r, cur, s)
      PROVE  SessionsInv'
    <2>1. {s} \in SUBSET Sids /\ \A t \in {s} : Active(t)
        BY <1>3 DEF RevokeOne
    <2>2. /\ Bulk(r, "one", None, {s}, {}) /\ UNCHANGED <<sessions, eligible, clock>>
          /\ "one" \in Bulks \ {"reuse", "ineligible"}
        BY <1>3 DEF RevokeOne, Bulks
    <2> QED
        BY <2>1, <2>2, RevocationStarts
<1>5. ASSUME NEW u \in Users, ResetPassword(r, u)
      PROVE  SessionsInv'
    <2>1. /\ Bulk(r, "reset", None, OfUser(u), {}) /\ UNCHANGED <<sessions, eligible, clock>>
          /\ "reset" \in Bulks \ {"reuse", "ineligible"}
        BY <1>5 DEF ResetPassword, Bulks
    <2> QED
        BY <2>1, RevocationStarts, ActiveOfUser
<1>6. ASSUME NEW cur \in Sids, Logout(r, cur)
      PROVE  SessionsInv'
    <2>1. {cur} \in SUBSET Sids /\ \A t \in {cur} : Active(t)
        BY <1>6 DEF Logout, Live
    <2>2. /\ Bulk(r, "logout", None, {cur}, {}) /\ UNCHANGED <<sessions, eligible, clock>>
          /\ "logout" \in Bulks \ {"reuse", "ineligible"}
        BY <1>6 DEF Logout, Bulks, Logouts
    <2> QED
        BY <2>1, <2>2, RevocationStarts
<1>7. ASSUME NEW cur \in Sids, LogoutAll(r, cur)
      PROVE  SessionsInv'
    <2>1. /\ Bulk(r, "logout_all", None, OfUser(sessions[cur].user), {})
          /\ UNCHANGED <<sessions, eligible, clock>>
          /\ "logout_all" \in Bulks \ {"reuse", "ineligible"}
        BY <1>7 DEF LogoutAll, Bulks, Logouts
    <2> QED
        BY <2>1, RevocationStarts, ActiveOfUser
<1> QED
    BY <1>1, <1>2, <1>3, <1>5, <1>6, <1>7 DEF Start

\* A step that ends the request r and changes rows it holds and new ones.
LEMMA RequestEnds ==
    ASSUME SessionsInv, NEW r \in Requests, sessions' \in [Sids -> Row],
           request' = [request EXCEPT ![r] = None], UNCHANGED <<eligible, clock>>,
           \A s \in Sids : Born(s) => Born(s)',
           \A s \in Sids : Active(s)' => Active(s) \/ ~Born(s),
           \A s \in Sids : s \in Held(r) \/ ~Born(s) \/ sessions'[s] = sessions[s]
    PROVE  SessionTypes' /\ HeldApart' /\ WorksOK'
<1>1. SessionTypes'
    BY DEF SessionsInv, SessionTypes
<1>2. ASSUME NEW s \in Sids, NEW q \in Requests,
             s \in Held(q), Born(s), sessions'[s] # sessions[s]
      PROVE  request'[q] = None
    <2>1. q = r
        BY <1>2 DEF SessionsInv, HeldApart
    <2> QED
        BY <2>1 DEF SessionsInv, SessionTypes
<1> QED
    BY <1>1, <1>2, SessionsMove

\* The rotation: the token it replaces was the one active session of the
\* family, and the new child takes its place.
LEMMA RotatePreserves ==
    ASSUME SessionsInv, NEW r \in Requests, Rotate(r)
    PROVE  SessionsInv'
<1> DEFINE t == request[r].sid
<1>1. PICK c \in Sids : /\ Fresh(c)
                        /\ sessions' = [Revoked({t}) EXCEPT ![c] = Child(r, "active")]
    BY DEF Rotate
<1>2. t \in Sids /\ Held(r) = {t} /\ Born(t) /\ Active(t) /\ request[r] \in Works
    BY RefreshKnows DEF Rotate
<1>3. c # t /\ ~Born(c)
    BY <1>1, <1>2 DEF Fresh, Born
<1>4. sessions \in [Sids -> Row] /\ sessions[t] \in Row
    BY <1>2 DEF SessionsInv, SessionTypes
<1>5. Child(r, "active") \in Row
    BY <1>2, <1>4 DEF Child, Token, Row
<1>6. /\ sessions' \in [Sids -> Row]
      /\ sessions'[c] = Child(r, "active")
      /\ sessions'[t] = [sessions[t] EXCEPT !.state = "revoked"]
      /\ \A s \in Sids \ {c, t} : sessions'[s] = sessions[s]
    BY <1>1, <1>2, <1>3, <1>4, <1>5 DEF Revoked, Row
<1>7. /\ sessions'[c].family = sessions[t].family /\ sessions'[c].state = "active"
      /\ sessions'[t].family = sessions[t].family /\ sessions'[t].state = "revoked"
    BY <1>4, <1>6 DEF Child, Token, Row
<1>8. request' = [request EXCEPT ![r] = None] /\ UNCHANGED <<eligible, clock>>
    BY DEF Rotate, Release
<1> HIDE DEF t
<1>9. \A s \in Sids : (Born(s) => Born(s)') /\ (Active(s)' => Active(s) \/ ~Born(s))
    BY <1>3, <1>6, <1>7 DEF Born, Active
<1>10. SessionTypes' /\ HeldApart' /\ WorksOK'
    BY <1>2, <1>3, <1>6, <1>8, <1>9, RequestEnds
<1>11. FamiliesBorn'
    BY <1>2, <1>3, <1>4, <1>6, <1>7, <1>9 DEF SessionsInv, FamiliesBorn, Born, Row
<1>12. ASSUME NEW s \in Sids \ {c}, Active(s)'
       PROVE  Active(s) /\ sessions'[s] = sessions[s] /\ s # t
    BY <1>6, <1>7, <1>12 DEF Active
<1>13. \A s \in Sids \ {c} : Active(s)' => sessions'[s].family # sessions'[c].family
    BY <1>2, <1>7, <1>12 DEF SessionsInv, OneLivePerFamily
<1>14. OneLivePerFamily'
    BY <1>12, <1>13 DEF SessionsInv, OneLivePerFamily
<1> QED
    BY <1>10, <1>11, <1>14 DEF SessionsInv

\* Whatever revokes and opens nothing keeps one live session to a family.
LEMMA NothingOpens ==
    ASSUME SessionsInv,
           \A s \in Sids : Active(s)' => Active(s) /\ sessions'[s].family = sessions[s].family
    PROVE  OneLivePerFamily'
BY DEF SessionsInv, OneLivePerFamily

\* The end of a request that revokes the rows it holds.
LEMMA RevokePreserves ==
    ASSUME SessionsInv, NEW r \in Requests, sessions' = Revoked(Held(r)), Release(r),
           UNCHANGED <<eligible, clock>>
    PROVE  SessionsInv'
<1>1. sessions \in [Sids -> Row] /\ request' = [request EXCEPT ![r] = None]
    BY DEF SessionsInv, SessionTypes, Release
<1>2. ASSUME NEW s \in Sids
      PROVE  /\ sessions'[s] = IF s \in Held(r) THEN [sessions[s] EXCEPT !.state = "revoked"]
                               ELSE sessions[s]
             /\ sessions[s] \in Row
    BY <1>1 DEF Revoked
<1>3. ASSUME NEW s \in Sids
      PROVE  /\ sessions'[s] \in Row /\ sessions'[s].family = sessions[s].family
             /\ (Active(s)' => Active(s)) /\ (Born(s) => Born(s)')
             /\ s \notin Held(r) => sessions'[s] = sessions[s]
    BY <1>2 DEF Row, Active, Born
<1>4. sessions' \in [Sids -> Row]
    BY <1>3 DEF Revoked
<1>5. SessionTypes' /\ HeldApart' /\ WorksOK'
    BY <1>1, <1>3, <1>4, RequestEnds
<1>6. \A s \in Held(r) : Born(s)
    BY DEF SessionsInv, WorksOK, WorkOK, Held, Busy
<1>7. ASSUME NEW s \in Sids
      PROVE  sessions[s].family \in Sids /\ (Born(s)' => Born(s))
    BY <1>2, <1>6 DEF Row, Born
<1>8. FamiliesBorn'
    BY <1>3, <1>7 DEF SessionsInv, FamiliesBorn
<1>9. OneLivePerFamily'
    BY <1>3, NothingOpens
<1> QED
    BY <1>5, <1>8, <1>9 DEF SessionsInv

\* The refresh of an account without the right ends with all revoked, its own
\* child included.
LEMMA IneligiblePreserves ==
    ASSUME SessionsInv, NEW r \in Requests, CommitIneligible(r)
    PROVE  SessionsInv'
<1> DEFINE t == request[r].sid
<1>1. PICK c \in Sids :
        /\ Fresh(c)
        /\ sessions' = [Revoked(request[r].held) EXCEPT ![c] = Child(r, "revoked")]
    BY DEF CommitIneligible
<1>2. /\ Busy(r) /\ request[r] \in Works /\ WorkOK(request[r])
      /\ request[r].op = "ineligible" /\ Held(r) = request[r].held
    BY DEF SessionsInv, SessionTypes, WorksOK, CommitIneligible, Done, Revoking, Busy, Held
<1>3. /\ t \in Sids /\ Born(t) /\ ~Born(c) /\ \A s \in Held(r) : Born(s)
      /\ t \in Held(r) /\ Held(r) \subseteq Sids
    BY <1>1, <1>2 DEF WorkOK, Fresh, Born, Works
<1>4. sessions \in [Sids -> Row] /\ sessions[t] \in Row
    BY <1>3 DEF SessionsInv, SessionTypes
<1>5. Child(r, "revoked") \in Row /\ Child(r, "revoked").family = sessions[t].family
      /\ Child(r, "revoked").state = "revoked"
    BY <1>3, <1>4 DEF Child, Token, Row
<1>6. ASSUME NEW s \in Sids
      PROVE  /\ sessions'[s] = IF s = c THEN Child(r, "revoked")
                               ELSE IF s \in Held(r) THEN [sessions[s] EXCEPT !.state = "revoked"]
                               ELSE sessions[s]
             /\ sessions[s] \in Row
    BY <1>1, <1>2, <1>4 DEF Revoked
<1> HIDE DEF t
<1>7. ASSUME NEW s \in Sids
      PROVE  /\ sessions'[s] \in Row
             /\ s # c => sessions'[s].family = sessions[s].family /\ (Born(s)' => Born(s))
             /\ (Active(s)' => Active(s) /\ s # c) /\ (Born(s) => Born(s)')
             /\ s \in Held(r) \/ ~Born(s) \/ sessions'[s] = sessions[s]
             /\ sessions[s].family \in Sids
    BY <1>3, <1>5, <1>6 DEF Row, Active, Born
<1>8. sessions' \in [Sids -> Row]
    BY <1>1, <1>7 DEF Revoked
<1>9. SessionTypes' /\ HeldApart' /\ WorksOK'
    BY <1>7, <1>8, RequestEnds DEF CommitIneligible, Release
<1>10. sessions'[c].family = sessions[t].family
    BY <1>5, <1>6
<1>11. FamiliesBorn'
    BY <1>3, <1>7, <1>10 DEF SessionsInv, FamiliesBorn
<1>12. OneLivePerFamily'
    BY <1>7, NothingOpens
<1> QED
    BY <1>9, <1>11, <1>12 DEF SessionsInv

\* Requests on their way.
LEMMA StepPreserves ==
    ASSUME SessionsInv, NEW r \in Requests, Step(r)
    PROVE  SessionsInv'
<1>1. CASE Rotate(r)
    BY <1>1, RotatePreserves
<1>2. CASE RefreshExpired(r)
    BY <1>2, RefreshKnows, RevokePreserves DEF RefreshExpired
<1>3. CASE RefreshReused(r)
    <2> DEFINE scope == OfFamily(Token(r).family)
               rows == {request[r].sid}
    <2>1. scope \in SUBSET Sids /\ \A s \in scope : Active(s)
        BY DEF OfFamily
    <2>2. /\ rows \in SUBSET Sids /\ rows \subseteq Held(r) /\ \A s \in rows : Born(s)
          /\ request[r].sid \in rows /\ Born(request[r].sid) /\ request[r].sid \in Sids
        BY <1>3, RefreshKnows DEF RefreshReused
    <2>3. /\ Bulk(r, "reuse", request[r].sid, scope, rows)
          /\ UNCHANGED <<sessions, eligible, clock>> /\ "reuse" \in Bulks
        BY <1>3 DEF RefreshReused, Bulks
    <2> HIDE DEF scope, rows
    <2> QED
        BY <2>1, <2>2, <2>3, BulkStarts
<1>4. CASE RefreshIneligible(r)
    <2> DEFINE scope == OfUser(Token(r).user) \ {request[r].sid}
               rows == {request[r].sid}
    <2>1. scope \in SUBSET Sids /\ \A s \in scope : Active(s)
        BY ActiveOfUser
    <2>2. /\ rows \in SUBSET Sids /\ rows \subseteq Held(r) /\ \A s \in rows : Born(s)
          /\ request[r].sid \in rows /\ Born(request[r].sid) /\ request[r].sid \in Sids
        BY <1>4, RefreshKnows DEF RefreshIneligible
    <2>3. /\ Bulk(r, "ineligible", request[r].sid, scope, rows)
          /\ UNCHANGED <<sessions, eligible, clock>> /\ "ineligible" \in Bulks
        BY <1>4 DEF RefreshIneligible, Bulks
    <2> HIDE DEF scope, rows
    <2> QED
        BY <2>1, <2>2, <2>3, BulkStarts
<1>5. CASE LockNext(r)
    <2>1. PICK s \in request[r].todo :
            /\ ~LockedByOther(r, s)
            /\ request' = [request EXCEPT
                 ![r].todo = @ \ {s}, ![r].held = IF Active(s) THEN @ \cup {s} ELSE @]
        BY <1>5 DEF LockNext
    <2>2. request[r] \in Works /\ WorkOK(request[r]) /\ Held(r) = request[r].held
          /\ request[r] # None /\ request[r].op \in Bulks
        BY <1>5 DEF SessionsInv, SessionTypes, WorksOK, LockNext, Revoking, Busy, Held
    <2> DEFINE rows == IF Active(s) THEN request[r].held \cup {s} ELSE request[r].held
               w == [request[r] EXCEPT !.todo = @ \ {s}, !.held = rows]
    <2>3. s \in Sids /\ rows \subseteq Sids
        BY <2>1, <2>2 DEF Works
    <2>4. w \in Works /\ w.op = request[r].op /\ w.sid = request[r].sid
          /\ w.asked = request[r].asked /\ w.todo = request[r].todo \ {s} /\ w.held = rows
        BY <2>2, <2>3 DEF Works
    <2>5. WorkOK(w)
        BY <2>2, <2>4 DEF WorkOK, Active, Born, Bulks, Logouts
    <2>6. \A q \in Requests \ {r} : w.held \cap Held(q) = {}
        BY <2>1, <2>2, <2>4 DEF SessionsInv, HeldApart, LockedByOther
    <2>7. request' = [request EXCEPT ![r] = w] /\ UNCHANGED <<sessions, eligible, clock>>
        BY <1>5, <2>1 DEF LockNext
    <2> HIDE DEF w
    <2> QED
        BY <2>4, <2>5, <2>6, <2>7, RequestMoves
<1>6. CASE Commit(r)
    BY <1>6, RevokePreserves DEF Commit, Done, Revoking, Held
<1>7. CASE CommitIneligible(r)
    BY <1>7, IneligiblePreserves
<1>8. CASE AnswerLogout(r) \/ AbortDeadlock(r)
    BY <1>8, RequestMoves DEF AnswerLogout, AbortDeadlock, Release
<1> QED
    BY <1>1, <1>2, <1>3, <1>4, <1>5, <1>6, <1>7, <1>8 DEF Step

LEMMA LoginPreserves ==
    ASSUME SessionsInv, NEW u \in Users, Login(u)
    PROVE  SessionsInv'
<1>1. PICK c \in Sids :
        /\ Fresh(c)
        /\ sessions' = [sessions EXCEPT ![c] = [user |-> u, family |-> c, parent |-> None,
                          expires |-> clock + Lifetime, state |-> "active"]]
    BY DEF Login
<1>2. SessionTypes'
    BY <1>1 DEF Login, SessionsInv, SessionTypes, Row
<1>3. /\ ~Born(c) /\ sessions'[c].family = c /\ sessions'[c].state = "active"
      /\ \A s \in Sids \ {c} : sessions'[s] = sessions[s]
    BY <1>1 DEF Fresh, Born, SessionsInv, SessionTypes
<1>4. \A s \in Sids : sessions[s].family \in Sids
    BY DEF SessionsInv, SessionTypes, Row
<1>5. FamiliesBorn'
    BY <1>3, <1>4 DEF SessionsInv, FamiliesBorn, Born
<1>6. \A s \in Sids : Active(s) => sessions[s].family # c
    BY <1>3 DEF SessionsInv, FamiliesBorn, Born, Active
<1>7. OneLivePerFamily'
    BY <1>3, <1>6 DEF SessionsInv, OneLivePerFamily, Active
<1>8. HeldApart' /\ WorksOK'
    <2>1. request' = request
        BY DEF Login
    <2>2. \A q \in Requests : \A s \in Held(q) : Born(s)
        BY DEF SessionsInv, WorksOK, WorkOK, Held, Busy
    <2>3. ASSUME NEW s \in Sids
          PROVE  /\ Born(s) => Born(s)' /\ sessions'[s] = sessions[s]
                 /\ Active(s)' => Active(s) \/ ~Born(s)
        BY <1>3 DEF Born, Active
    <2>4. CASE Requests = {}
        BY <2>4 DEF HeldApart, WorksOK
    <2>5. ASSUME NEW r \in Requests
          PROVE  HeldApart' /\ WorksOK'
        BY <1>2, <2>1, <2>3, SessionsMove
    <2> QED
        BY <2>4, <2>5
<1> QED
    BY <1>2, <1>5, <1>7, <1>8 DEF SessionsInv

\* The clean-up skips the rows a request holds, and opens nothing.
LEMMA CleanupPreserves ==
    ASSUME SessionsInv, Cleanup
    PROVE  SessionsInv'
<1>1. PICK R \in SUBSET {s \in Sids : Active(s) /\ ~LockedRow(s) /\ sessions[s].expires <= clock} :
        \E D \in SUBSET {s \in Sids : /\ sessions[s].state = "revoked" \/ s \in R
                                      /\ ~LockedRow(s)
                                      /\ sessions[s].expires <= clock - Retention
                                      /\ ~HasChild(s)} :
            sessions' = [s \in Sids |->
                IF s \in D THEN [sessions[s] EXCEPT !.state = "deleted"] ELSE Revoked(R)[s]]
    BY DEF Cleanup, Oldest
<1> PICK D \in SUBSET {s \in Sids : /\ sessions[s].state = "revoked" \/ s \in R
                                    /\ ~LockedRow(s)
                                    /\ sessions[s].expires <= clock - Retention
                                    /\ ~HasChild(s)} :
        sessions' = [s \in Sids |->
            IF s \in D THEN [sessions[s] EXCEPT !.state = "deleted"] ELSE Revoked(R)[s]]
    BY <1>1
<1>2. request' = request /\ eligible' = eligible /\ clock' = clock
    BY DEF Cleanup
<1>3. ASSUME NEW s \in Sids
      PROVE  /\ sessions[s] \in Row
             /\ sessions'[s] = IF s \in D THEN [sessions[s] EXCEPT !.state = "deleted"]
                               ELSE IF s \in R THEN [sessions[s] EXCEPT !.state = "revoked"]
                               ELSE sessions[s]
             /\ s \in D \cup R => ~LockedRow(s) /\ Born(s)
    BY DEF SessionsInv, SessionTypes, Revoked, Active, Born
<1>4. ASSUME NEW s \in Sids
      PROVE  /\ sessions'[s] \in Row /\ sessions'[s].family = sessions[s].family
             /\ (Active(s)' => Active(s)) /\ (Born(s) <=> Born(s)')
             /\ LockedRow(s) => sessions'[s] = sessions[s]
             /\ sessions[s].family \in Sids
    <2>1. sessions[s].family \in Sids
        BY <1>3 DEF Row
    <2>2. ASSUME NEW state \in {"revoked", "deleted"},
                 s \in D \cup R, sessions'[s] = [sessions[s] EXCEPT !.state = state]
          PROVE  /\ sessions'[s] \in Row /\ sessions'[s].family = sessions[s].family
                 /\ sessions'[s].state = state /\ ~Active(s)' /\ Born(s) /\ Born(s)'
                 /\ ~LockedRow(s)
        <3>1. /\ [sessions[s] EXCEPT !.state = state] \in Row
              /\ [sessions[s] EXCEPT !.state = state].family = sessions[s].family
              /\ [sessions[s] EXCEPT !.state = state].state = state
            <4>1. sessions[s] \in Row
                BY <1>3
            <4> QED
                BY ONLY <4>1, <2>2 DEF Row
        <3>2. Born(s) /\ ~LockedRow(s)
            BY <1>3, <2>2
        <3> QED
            BY <2>2, <3>1, <3>2 DEF Active, Born
    <2>3. CASE s \in D \cup R
        BY <1>3, <2>1, <2>2, <2>3
    <2>4. CASE s \notin D /\ s \notin R
        BY <1>3, <2>1, <2>4 DEF Active, Born
    <2> QED
        BY <2>2, <2>3, <2>4
<1>5. SessionTypes'
    BY <1>1, <1>2, <1>4 DEF SessionsInv, SessionTypes
<1>6. FamiliesBorn'
    BY <1>4 DEF SessionsInv, FamiliesBorn
<1>7. OneLivePerFamily'
    BY <1>4, NothingOpens
<1>8. HeldApart' /\ WorksOK'
    <2>1. CASE Requests = {}
        BY <2>1 DEF HeldApart, WorksOK
    <2>2. ASSUME NEW r \in Requests
          PROVE  HeldApart' /\ WorksOK'
        BY <1>2, <1>4, <1>5, SessionsMove DEF LockedRow
    <2> QED
        BY <2>1, <2>2
<1> QED
    BY <1>5, <1>6, <1>7, <1>8 DEF SessionsInv

LEMMA OthersPreserve ==
    ASSUME SessionsInv, UNCHANGED <<sessions, request>>, eligible' \in [Users -> BOOLEAN],
           clock' \in Nat
    PROVE  SessionsInv'
<1>1. SessionTypes' /\ FamiliesBorn' /\ OneLivePerFamily'
    BY DEF SessionsInv, SessionTypes, FamiliesBorn, OneLivePerFamily, Born, Active
<1>2. HeldApart' /\ WorksOK'
    BY DEF SessionsInv, HeldApart, WorksOK, WorkOK, Held, Busy, Born, Active
<1> QED
    BY <1>1, <1>2 DEF SessionsInv

LEMMA SessionsStep == SessionsInv /\ [Next]_vars => SessionsInv'
<1> SUFFICES ASSUME SessionsInv, [Next]_vars
             PROVE  SessionsInv'
    OBVIOUS
<1>1. ASSUME NEW r \in Requests, Start(r) \/ Step(r)
      PROVE  SessionsInv'
    BY <1>1, StartPreserves, StepPreserves
<1>2. ASSUME NEW u \in Users, ChangeEligibility(u)
      PROVE  SessionsInv'
    <2>1. eligible' \in [Users -> BOOLEAN] /\ clock' \in Nat
        BY <1>2 DEF ChangeEligibility, SessionsInv, SessionTypes
    <2> QED
        BY <1>2, <2>1, OthersPreserve DEF ChangeEligibility
<1>3. ASSUME NEW u \in Users, Login(u)
      PROVE  SessionsInv'
    BY <1>3, LoginPreserves
<1>4. CASE Cleanup
    BY <1>4, CleanupPreserves
<1>5. CASE Tick
    BY <1>5, OthersPreserve DEF Tick, SessionsInv, SessionTypes
<1>6. CASE UNCHANGED vars
    BY <1>6, OthersPreserve DEF vars, SessionsInv, SessionTypes
<1> QED
    BY <1>1, <1>2, <1>3, <1>4, <1>5, <1>6 DEF Next

\* The rows of the sessions and the requests have their types in every state.
THEOREM SessionsTyped == SessionsSpec => []TypeOK
<1>1. SessionsInv => TypeOK
    BY DEF SessionsInv, SessionTypes, TypeOK, Works, Busy
<1> QED
    BY SessionsInit, SessionsStep, <1>1, PTL DEF SessionsSpec

\* Of the sessions of one family at most one is usable, whatever requests
\* refresh, replay, revoke and clean up at the same time.
THEOREM OneLiveHolds == SessionsSpec => []OneLivePerFamily
<1>1. SessionsInv => OneLivePerFamily
    BY DEF SessionsInv
<1> QED
    BY SessionsInit, SessionsStep, <1>1, PTL DEF SessionsSpec

\* The end of a revocation leaves none of the sessions it asked for active.
LEMMA CoversStep ==
    ASSUME SessionsInv, [Next]_vars, NEW r \in Requests,
           Done(r), request[r].op \notin Logouts, request'[r] = None,
           NEW a \in request[r].asked
    PROVE  ~Active(a)'
<1>1. /\ request[r] # None /\ request[r] \in Works /\ WorkOK(request[r])
      /\ request[r].todo = {} /\ request[r].op \in Bulks /\ Held(r) = request[r].held
    BY DEF Done, Revoking, Busy, Held, SessionsInv, SessionTypes, WorksOK
<1>2. a \in Sids /\ Born(a) /\ (a \in Held(r) \/ ~Active(a))
    BY <1>1 DEF WorkOK, Works
<1>3. request' # request
    BY <1>1
<1>4. ASSUME NEW q \in Requests, q # r, Start(q) \/ Step(q)
      PROVE  FALSE
    <2>1. request'[r] = request[r]
        BY <1>4 DEF Start, Step, BeginRefresh, RevokeOthers, RevokeOne, ResetPassword, Logout,
                    LogoutAll, Rotate, RefreshExpired, RefreshReused, RefreshIneligible,
                    LockNext, Commit, CommitIneligible, AnswerLogout, AbortDeadlock, Bulk,
                    Release, SessionsInv, SessionTypes
    <2> QED
        BY <1>1, <2>1
<1>5. ASSUME Start(r)
      PROVE  FALSE
    BY <1>1, <1>5 DEF Start, BeginRefresh, RevokeOthers, RevokeOne, ResetPassword, Logout,
                      LogoutAll, Busy
<1>6. CASE Commit(r)
    BY <1>1, <1>2, <1>6 DEF Commit, Revoked, Active, SessionsInv, SessionTypes, Row
<1>7. CASE CommitIneligible(r)
    <2>1. PICK c \in Sids :
            /\ Fresh(c)
            /\ sessions' = [Revoked(request[r].held) EXCEPT ![c] = Child(r, "revoked")]
        BY <1>7 DEF CommitIneligible
    <2>2. a # c
        BY <1>2, <2>1 DEF Fresh, Born
    <2> QED
        BY <1>1, <1>2, <2>1, <2>2 DEF Revoked, Active, SessionsInv, SessionTypes, Row
<1>8. ~(Rotate(r) \/ RefreshExpired(r) \/ RefreshReused(r) \/ RefreshIneligible(r))
    BY <1>1 DEF Rotate, RefreshExpired, RefreshReused, RefreshIneligible, Refreshing, Bulks,
                Logouts
<1>9. ~LockNext(r) /\ ~AnswerLogout(r) /\ ~AbortDeadlock(r)
    BY <1>1 DEF LockNext, AnswerLogout, AbortDeadlock, Deadlocked
<1> QED
    BY <1>3, <1>4, <1>5, <1>6, <1>7, <1>8, <1>9
       DEF Next, Step, vars, ChangeEligibility, Login, Cleanup, Tick

\* Every session a revocation found when its statement started is over when the
\* revocation commits.
THEOREM RevocationHolds == SessionsSpec => RevocationCovers
<1>1. SessionsInv /\ [Next]_vars =>
        [\A r \in Requests :
            Done(r) /\ request[r].op \notin Logouts /\ request'[r] = None
                => \A s \in request[r].asked : ~Active(s)']_vars
    BY CoversStep
<1> QED
    BY SessionsInit, SessionsStep, <1>1, PTL DEF SessionsSpec, RevocationCovers

-----------------------------------------------------------------------------
(* Logins, passwords and one-time tokens *)

LoginWork == [step : {"login", "attempted"}, owner : Owners, password : Passwords,
              seen : AccountRow, at : Nat, lock : Nat, users : SUBSET Owners, tokens : {{}}]
TokenWork == [step : {"request", "reset", "verify", "locked"}, owner : Owners, kind : Kinds,
              using : Tokens \cup {Nobody}, users : SUBSET Owners, tokens : SUBSET Tokens]

LoggingIn(r) == Doing(r, "login") \/ Doing(r, "attempted")

AccountsTypes ==
    /\ account \in [Owners -> AccountRow]
    /\ attempts \in SUBSET AttemptRow /\ IsFiniteSet(attempts)
    /\ token \in [Tokens -> TokenRow]
    /\ now \in 0..Horizon
    /\ caller \in [Callers -> LoginWork \cup TokenWork \cup {Nobody}]
    /\ \A r \in Callers : Working(r) /\ ~LoggingIn(r) /\ caller[r].step # "request"
                            => caller[r].using \in Tokens
    /\ uses \in [Tokens -> 0..1]
    /\ lockedAt \in [Owners -> Nat]

\* A token that took effect is used, or was deleted after.
UsedAreUsed == \A t \in Tokens : uses[t] = 1 => token[t].state \in {"used", "deleted"}

\* Every login has an instant of its own.
Instants ==
    /\ \A a \in attempts : a.at \in 1..now
    /\ \A a, b \in attempts : a.at = b.at => a = b
    /\ \A r \in Callers : LoggingIn(r) =>
          /\ caller[r].at \in 1..now
          /\ \A a \in attempts : a.at # caller[r].at
          /\ \A q \in Callers \ {r} : LoggingIn(q) => caller[q].at # caller[r].at

\* What is known of the failures before an instant: those committed, and the
\* logins under way that may commit one.
EarlierFailures(u, x) ==
    {a \in attempts : a.owner = u /\ ~a.success /\ Boundary(u, now) < a.at /\ a.at < x}
EarlierLogins(u, x) == {q \in Callers : LoggingIn(q) /\ caller[q].owner = u /\ caller[q].at < x}
FewBefore(u, x) ==
    Cardinality(EarlierFailures(u, x)) + Cardinality(EarlierLogins(u, x))
        <= DelayThreshold + Cardinality(Callers) - 3

\* A failure after the last success, or a login about to commit one, that set
\* no lock had few failures before it; those that end after it change nothing.
FailuresLag ==
    \A a \in attempts : ~a.success =>
        \/ a.at <= Boundary(a.owner, now)
        \/ a.at <= lockedAt[a.owner]
        \/ FewBefore(a.owner, a.at)
LoginsLag ==
    \A r \in Callers : Doing(r, "attempted") /\ caller[r].lock = 0 /\ ~Succeeds(r) =>
        \/ caller[r].at <= Boundary(caller[r].owner, now)
        \/ FewBefore(caller[r].owner, caller[r].at)

AccountsInv == AccountsTypes /\ UsedAreUsed /\ Instants /\ FailuresLag /\ LoginsLag

\* No lock means few failures.
LEMMA LockIsPositive ==
    ASSUME NEW n \in 0..(Horizon + 1)
    PROVE  LockDuration(n) \in Nat /\ (LockDuration(n) = 0 => n < DelayThreshold)
<1> USE AccountsAssumption
<1>1. CASE n < ShortThreshold
    BY <1>1 DEF LockDuration
<1>2. CASE ~(n < ShortThreshold)
    <2> DEFINE step == (n - ShortThreshold) \div ShortThreshold
               power == 2 ^ step
    <2>1. step \in 0..Horizon
        <3>1. /\ n - ShortThreshold \in Nat /\ ShortThreshold \in Nat /\ ShortThreshold > 0
              /\ n - ShortThreshold <= Horizon
            BY <1>2
        <3> QED
            BY <3>1
    <2>2. power \in Int /\ power > 0
        BY <2>1
    <2> HIDE DEF power
    <2>3. ShortLock * power \in Nat /\ ShortLock * power > 0
        BY <2>2
    <2>4. LockDuration(n) = IF ShortLock * power < MaximumLock THEN ShortLock * power ELSE MaximumLock
        BY <1>2 DEF LockDuration, power
    <2> QED
        BY <2>3, <2>4
<1> QED
    BY <1>1, <1>2

\* A set of integers with a bound has a greatest member.
LEMMA GreatestIsMember ==
    ASSUME NEW S \in SUBSET Int, S # {}, NEW b \in Int, \A x \in S : x <= b
    PROVE  Max(S) \in S /\ \A x \in S : x <= Max(S)
<1> DEFINE T == {b - x : x \in S}
<1>1. T \in SUBSET Nat /\ T # {}
    <2>1. \A x \in S : x \in Int /\ b - x \in Nat
        OBVIOUS
    <2>2. PICK x \in S : TRUE
        OBVIOUS
    <2>3. b - x \in T
        BY <2>2
    <2> QED
        BY <2>1, <2>3
<1>2. PICK m \in T : \A y \in T : ~ (<<y, m>> \in OpToRel(<, Nat))
    <2>1. IsWellFoundedOn(OpToRel(<, Nat), Nat)
        BY NatLessThanWellFounded
    <2> HIDE DEF T
    <2> QED
        BY <1>1, <2>1, WFMin
<1>3. \A y \in T : m <= y
    <2> SUFFICES ASSUME NEW y \in T, y < m PROVE FALSE
        BY <1>1
    <2>1. <<y, m>> \in OpToRel(<, Nat)
        BY <1>1 DEF OpToRel
    <2> QED
        BY <1>2, <2>1
<1>4. PICK x \in S : m = b - x
    BY <1>2
<1>5. \A y \in S : x >= y
    <2> SUFFICES ASSUME NEW y \in S PROVE x >= y
        OBVIOUS
    <2>1. b - y \in T /\ x \in Int /\ y \in Int
        OBVIOUS
    <2>2. b - x <= b - y
        BY <1>3, <1>4, <2>1
    <2> QED
        BY <2>1, <2>2
<1> QED
    BY <1>5 DEF Max

\* Boundary is the start of the window or the last success in it.
LEMMA BoundaryIs ==
    ASSUME AccountsTypes, Instants, NEW u \in Owners, NEW x \in Nat
    PROVE  /\ Boundary(u, x) \in Int /\ Boundary(u, x) >= x - Window
           /\ \A s \in attempts : s.owner = u /\ s.success /\ s.at >= x - Window
                                    => s.at <= Boundary(u, x)
           /\ \/ Boundary(u, x) = x - Window
              \/ \E s \in attempts : /\ s.owner = u /\ s.success /\ s.at >= x - Window
                                     /\ Boundary(u, x) = s.at
<1> DEFINE S == {x - Window} \cup {a.at : a \in {b \in Recent(u, x) : b.success}}
<1>1. /\ S \in SUBSET Int /\ S # {} /\ x - Window \in S
      /\ \A s \in attempts : s.owner = u /\ s.success /\ s.at >= x - Window => s.at \in S
      /\ \A y \in S : y <= x + now
      /\ x + now \in Int
      /\ \A y \in S : \/ y = x - Window
                      \/ \E s \in attempts : /\ s.owner = u /\ s.success /\ s.at >= x - Window
                                             /\ y = s.at
    BY AccountsAssumption DEF AccountsTypes, Instants, AttemptRow, Recent
<1>2. Boundary(u, x) = Max(S)
    BY DEF Boundary
<1> HIDE DEF S
<1>3. Max(S) \in S /\ \A y \in S : y <= Max(S)
    BY <1>1, GreatestIsMember
<1> QED
    BY <1>1, <1>2, <1>3

\* It never moves back, for a later instant and more attempts.
LEMMA BoundaryOfLater ==
    ASSUME AccountsTypes, Instants, NEW u \in Owners, NEW x \in Nat, NEW y \in Nat, x <= y
    PROVE  Boundary(u, x) <= Boundary(u, y)
BY BoundaryIs, AccountsAssumption DEF AccountsTypes, AttemptRow

BoundaryCovers(u) ==
    /\ Boundary(u, now) \in Int /\ Boundary(u, now) >= now - Window
    /\ \A s \in attempts : s.owner = u /\ s.success /\ s.at >= now - Window
                             => s.at <= Boundary(u, now)

LEMMA BoundaryNow ==
    ASSUME AccountsTypes, Instants, NEW u \in Owners
    PROVE  BoundaryCovers(u)
BY BoundaryIs DEF AccountsTypes, BoundaryCovers

LEMMA BoundaryOnlyGrows ==
    ASSUME AccountsTypes, Instants, AccountsTypes', Instants',
           attempts \subseteq attempts', now <= now', NEW u \in Owners
    PROVE  /\ Boundary(u, now) <= Boundary(u, now)'
           /\ Boundary(u, now) \in Int /\ Boundary(u, now)' \in Int
<1>1. now \in Nat /\ now' \in Nat /\ Window \in Nat
      /\ \A s \in attempts : s.at \in Int
    BY AccountsAssumption DEF AccountsTypes, AttemptRow
<1>2. /\ Boundary(u, now) \in Int /\ Boundary(u, now) >= now - Window
      /\ \/ Boundary(u, now) = now - Window
         \/ \E s \in attempts : /\ s.owner = u /\ s.success /\ s.at >= now - Window
                                /\ Boundary(u, now) = s.at
    BY <1>1, BoundaryIs
<1>3. /\ Boundary(u, now)' \in Int /\ Boundary(u, now)' >= now' - Window
      /\ \A s \in attempts' : s.owner = u /\ s.success /\ s.at >= now' - Window
                                    => s.at <= Boundary(u, now)'
    <2>1. BoundaryCovers(u)'
        BY BoundaryNow, PTL
    <2> QED
        BY <2>1 DEF BoundaryCovers
<1> QED
    BY <1>1, <1>2, <1>3

LEMMA EarlierFinite ==
    ASSUME AccountsTypes, NEW u \in Owners, NEW x \in Nat
    PROVE  /\ IsFiniteSet(EarlierFailures(u, x)) /\ Cardinality(EarlierFailures(u, x)) \in Nat
           /\ IsFiniteSet(EarlierLogins(u, x)) /\ Cardinality(EarlierLogins(u, x)) \in Nat
<1>1. EarlierFailures(u, x) \in SUBSET attempts /\ EarlierLogins(u, x) \in SUBSET Callers
    BY DEF EarlierFailures, EarlierLogins
<1>2. IsFiniteSet(attempts) /\ IsFiniteSet(Callers)
    BY AccountsAssumption DEF AccountsTypes
<1>3. IsFiniteSet(EarlierFailures(u, x)) /\ IsFiniteSet(EarlierLogins(u, x))
    BY <1>1, <1>2, FS_Subset
<1> QED
    BY <1>3, FS_CardinalityType

\* A step that commits no attempt adds nothing before an instant that is past.
LEMMA FewStays ==
    ASSUME AccountsTypes, Instants, AccountsTypes', Instants',
           attempts' = attempts, now <= now',
           NEW u \in Owners, NEW x \in Nat, x <= now, FewBefore(u, x),
           \A q \in Callers : LoggingIn(q)' /\ caller'[q].at <= now =>
               /\ LoggingIn(q) /\ caller'[q].owner = caller[q].owner
               /\ caller'[q].at = caller[q].at
    PROVE  FewBefore(u, x)'
<1>1. Boundary(u, now) <= Boundary(u, now)' /\ Boundary(u, now) \in Int /\ Boundary(u, now)' \in Int
    BY BoundaryOnlyGrows
<1>2. EarlierFailures(u, x)' \in SUBSET EarlierFailures(u, x)
    BY <1>1 DEF EarlierFailures, AccountsTypes, AttemptRow
<1>3. EarlierLogins(u, x)' \in SUBSET EarlierLogins(u, x)
    <2> SUFFICES ASSUME NEW q \in EarlierLogins(u, x)' PROVE q \in EarlierLogins(u, x)
        OBVIOUS
    <2>1. q \in Callers /\ LoggingIn(q)' /\ caller'[q].owner = u /\ caller'[q].at < x
        BY DEF EarlierLogins
    <2>2. caller'[q].at \in Nat /\ now \in Nat
        BY <2>1 DEF Instants, AccountsTypes
    <2> QED
        BY <2>1, <2>2 DEF EarlierLogins
<1>4. /\ IsFiniteSet(EarlierFailures(u, x)) /\ Cardinality(EarlierFailures(u, x)) \in Nat
      /\ IsFiniteSet(EarlierLogins(u, x)) /\ Cardinality(EarlierLogins(u, x)) \in Nat
    BY EarlierFinite
<1>5. /\ Cardinality(EarlierFailures(u, x)') <= Cardinality(EarlierFailures(u, x))
      /\ IsFiniteSet(EarlierFailures(u, x)')
    BY <1>2, <1>4, FS_Subset
<1>6. /\ Cardinality(EarlierLogins(u, x)') <= Cardinality(EarlierLogins(u, x))
      /\ IsFiniteSet(EarlierLogins(u, x)')
    BY <1>3, <1>4, FS_Subset
<1>7. Cardinality(EarlierFailures(u, x)') \in Nat /\ Cardinality(EarlierLogins(u, x)') \in Nat
    BY <1>5, <1>6, FS_CardinalityType
<1>8. DelayThreshold \in Nat /\ Cardinality(Callers) \in Nat
    BY AccountsAssumption, FS_CardinalityType
<1> QED
    BY <1>4, <1>5, <1>6, <1>7, <1>8 DEF FewBefore

\* What lags still lags after such a step, except for a login that counts now.
LEMMA LagStays ==
    ASSUME AccountsInv, AccountsTypes', Instants',
           attempts' = attempts, now <= now', lockedAt' = lockedAt,
           \A q \in Callers : LoggingIn(q)' /\ caller'[q].at <= now =>
               /\ LoggingIn(q) /\ caller'[q].owner = caller[q].owner
               /\ caller'[q].at = caller[q].at
    PROVE  /\ FailuresLag'
           /\ \A r \in Callers : caller'[r] = caller[r] =>
                (Doing(r, "attempted") /\ caller[r].lock = 0 /\ ~Succeeds(r) =>
                    \/ caller[r].at <= Boundary(caller[r].owner, now)
                    \/ FewBefore(caller[r].owner, caller[r].at))'
<1>1. \A u \in Owners : /\ Boundary(u, now) <= Boundary(u, now)'
                        /\ Boundary(u, now) \in Int /\ Boundary(u, now)' \in Int
    BY BoundaryOnlyGrows DEF AccountsInv
<1>2. \A u \in Owners, x \in Nat : x <= now /\ FewBefore(u, x) => FewBefore(u, x)'
    BY FewStays DEF AccountsInv
<1>3. FailuresLag'
    <2> SUFFICES ASSUME NEW a \in attempts, ~a.success
                 PROVE  \/ a.at <= Boundary(a.owner, now)'
                        \/ a.at <= lockedAt[a.owner]
                        \/ FewBefore(a.owner, a.at)'
        BY DEF FailuresLag
    <2>1. a.owner \in Owners /\ a.at \in Nat /\ a.at <= now
        BY DEF AccountsInv, AccountsTypes, AttemptRow, Instants
    <2>2. \/ a.at <= Boundary(a.owner, now)
          \/ a.at <= lockedAt[a.owner]
          \/ FewBefore(a.owner, a.at)
        BY DEF AccountsInv, FailuresLag
    <2> QED
        BY <1>1, <1>2, <2>1, <2>2
<1>4. ASSUME NEW r \in Callers, caller'[r] = caller[r],
             (Doing(r, "attempted") /\ caller[r].lock = 0 /\ ~Succeeds(r))'
      PROVE  (\/ caller[r].at <= Boundary(caller[r].owner, now)
              \/ FewBefore(caller[r].owner, caller[r].at))'
    <2>1. Doing(r, "attempted") /\ caller[r].lock = 0 /\ ~Succeeds(r)
        BY <1>4 DEF Doing, Working, Succeeds, LockActive
    <2>2. caller[r].owner \in Owners /\ caller[r].at \in Nat /\ caller[r].at <= now
        <3>1. caller[r] \in LoginWork /\ LoggingIn(r)
            BY <2>1 DEF AccountsInv, AccountsTypes, TokenWork, LoggingIn, Doing, Working
        <3> QED
            BY <3>1 DEF AccountsInv, LoginWork, Instants
    <2>3. PICK u \in Owners : u = caller[r].owner
        BY <2>2
    <2>4. PICK x \in Nat : x = caller[r].at
        BY <2>2
    <2>5. x <= now /\ (x <= Boundary(u, now) \/ FewBefore(u, x))
        BY <2>1, <2>2, <2>3, <2>4 DEF AccountsInv, LoginsLag
    <2>6. x <= Boundary(u, now)' \/ FewBefore(u, x)'
        BY <1>1, <1>2, <2>5
    <2>7. caller'[r].owner = u /\ caller'[r].at = x
        BY <1>4, <2>3, <2>4
    <2> QED
        BY <2>6, <2>7
<1> QED
    BY <1>3, <1>4

\* A step besides the logins leaves what they know alone.
LEMMA AsideKeeps ==
    ASSUME AccountsInv, AccountsTypes', UsedAreUsed',
           attempts' = attempts, now <= now', lockedAt' = lockedAt,
           \A q \in Callers : LoggingIn(q)' => caller'[q] = caller[q]
    PROVE  AccountsInv'
<1>1. \A q \in Callers : LoggingIn(q)' => LoggingIn(q) /\ caller'[q] = caller[q]
    BY DEF LoggingIn, Doing, Working
<1>2. now \in Nat /\ now' \in Nat /\ \A a \in attempts : a.at \in Nat
    BY DEF AccountsInv, AccountsTypes, AttemptRow
<1>3. Instants'
    BY <1>1, <1>2 DEF AccountsInv, Instants
<1>4. /\ FailuresLag'
      /\ \A r \in Callers : caller'[r] = caller[r] =>
           (Doing(r, "attempted") /\ caller[r].lock = 0 /\ ~Succeeds(r) =>
               \/ caller[r].at <= Boundary(caller[r].owner, now)
               \/ FewBefore(caller[r].owner, caller[r].at))'
    BY <1>1, <1>3, LagStays
<1>5. LoginsLag'
    BY <1>1, <1>4 DEF LoginsLag, LoggingIn
<1> QED
    BY <1>3, <1>4, <1>5 DEF AccountsInv

LEMMA BeginLoginKeeps ==
    ASSUME AccountsInv, NEW r \in Callers, NEW u \in Owners, NEW p \in Passwords,
           BeginLogin(r, u, p)
    PROVE  AccountsInv'
<1> DEFINE row == [step |-> "login", owner |-> u, password |-> p, seen |-> account[u],
                   at |-> now + 1, lock |-> 0, users |-> {}, tokens |-> {}]
<1>1. /\ ~Working(r) /\ now < Horizon /\ now' = now + 1
      /\ caller' = [caller EXCEPT ![r] = row]
      /\ UNCHANGED <<account, history, attempts, token, uses, lockedAt>>
    BY DEF BeginLogin
<1>2. row \in LoginWork /\ row.step = "login" /\ row.at = now + 1 /\ now \in Nat /\ Horizon \in Nat
    BY AccountsAssumption DEF LoginWork, AccountsInv, AccountsTypes
<1> HIDE DEF row
<1>3. /\ caller' \in [Callers -> LoginWork \cup TokenWork \cup {Nobody}]
      /\ caller'[r] = row /\ \A q \in Callers \ {r} : caller'[q] = caller[q]
    BY <1>1, <1>2 DEF AccountsInv, AccountsTypes
<1>4. AccountsTypes'
    <2>1. \A q \in Callers : (Working(q) /\ ~LoggingIn(q) /\ caller[q].step # "request"
                                => caller[q].using \in Tokens)'
        BY <1>2, <1>3 DEF AccountsInv, AccountsTypes, LoggingIn, Doing, Working
    <2> QED
        BY <1>1, <1>2, <1>3, <2>1 DEF AccountsInv, AccountsTypes
<1>5. \A q \in Callers \ {r} : /\ LoggingIn(q)' <=> LoggingIn(q)
                               /\ Doing(q, "attempted")' <=> Doing(q, "attempted")
    BY <1>3 DEF LoggingIn, Doing, Working
<1>6. \A a \in attempts : a.at \in Nat
    BY DEF AccountsInv, AccountsTypes, AttemptRow
<1>7. Instants'
    BY <1>1, <1>2, <1>3, <1>5, <1>6 DEF AccountsInv, Instants
<1>8. /\ FailuresLag'
      /\ \A q \in Callers : caller'[q] = caller[q] =>
           (Doing(q, "attempted") /\ caller[q].lock = 0 /\ ~Succeeds(q) =>
               \/ caller[q].at <= Boundary(caller[q].owner, now)
               \/ FewBefore(caller[q].owner, caller[q].at))'
    BY <1>1, <1>2, <1>3, <1>4, <1>5, <1>7, LagStays
<1>9. ~Doing(r, "attempted")'
    BY <1>2, <1>3 DEF Doing
<1>10. LoginsLag'
    BY <1>3, <1>8, <1>9 DEF LoginsLag
<1>11. UsedAreUsed'
    BY <1>1 DEF AccountsInv, UsedAreUsed
<1> QED
    BY <1>4, <1>7, <1>8, <1>10, <1>11 DEF AccountsInv

\* The number of failures a login counts stays below the horizon.
LEMMA FailuresBounded ==
    ASSUME AccountsTypes, Instants, NEW u \in Owners, NEW x \in Nat
    PROVE  IsFiniteSet(Failures(u, x)) /\ Cardinality(Failures(u, x)) \in 0..Horizon
<1> DEFINE F == Failures(u, x)
           f == [a \in F |-> a.at]
<1>1. F \in SUBSET attempts
    BY DEF Failures, Recent
<1>2. Horizon \in Nat /\ now \in 0..Horizon
    BY AccountsAssumption DEF AccountsTypes
<1>3. f \in [F -> 1..Horizon]
    BY <1>1, <1>2 DEF Instants
<1>4. \A a, b \in F : f[a] = f[b] => a = b
    BY <1>1 DEF Instants
<1>5. f \in Injection(F, 1..Horizon)
    BY <1>3, <1>4 DEF Injection, IsInjective
<1>6. IsFiniteSet(1..Horizon) /\ Cardinality(1..Horizon) = Horizon
    BY <1>2, FS_Interval
<1>7. IsFiniteSet(F)
    BY <1>1, FS_Subset DEF AccountsTypes
<1> HIDE DEF F, f
<1>8. Cardinality(F) <= Cardinality(1..Horizon)
    BY <1>5, <1>6, FS_Injection DEF ExistsInjection
<1>9. Cardinality(F) \in Nat
    BY <1>7, FS_CardinalityType
<1> QED
    BY <1>2, <1>6, <1>7, <1>8, <1>9 DEF F

\* The failures counted without setting a lock are few, and so are those of
\* the logins under way that were not counted.
LEMMA CountedFew ==
    ASSUME AccountsTypes, Instants, NEW r \in Callers, NEW u \in Owners, NEW x \in Nat,
           LoggingIn(r), caller[r].owner = u, caller[r].at = x, x <= now, x > Boundary(u, now),
           LockDuration(Cardinality(Failures(u, x)) + IF x > Boundary(u, x) THEN 1 ELSE 0) = 0
    PROVE  FewBefore(u, x)
<1>1. now \in Nat /\ Boundary(u, x) \in Int /\ Boundary(u, now) \in Int
      /\ Boundary(u, x) <= Boundary(u, now) /\ Boundary(u, x) >= x - Window /\ Window \in Nat
    <2>1. now \in Nat
        BY AccountsAssumption DEF AccountsTypes
    <2> QED
        BY <2>1, BoundaryIs, BoundaryOfLater, AccountsAssumption
<1>2. EarlierFailures(u, x) \in SUBSET Failures(u, x)
    BY <1>1 DEF EarlierFailures, Failures, Recent, AccountsTypes, AttemptRow
<1>3. IsFiniteSet(Failures(u, x)) /\ Cardinality(Failures(u, x)) \in 0..Horizon
    BY FailuresBounded
<1>4. Cardinality(Failures(u, x)) + 1 < DelayThreshold
    <2>1. Cardinality(Failures(u, x)) + 1 \in 0..(Horizon + 1)
        BY <1>3, AccountsAssumption
    <2>2. LockDuration(Cardinality(Failures(u, x)) + 1) = 0
        BY <1>1
    <2> QED
        BY <2>1, <2>2, LockIsPositive
<1>5. EarlierLogins(u, x) \in SUBSET (Callers \ {r})
    BY <1>1 DEF EarlierLogins
<1>6. IsFiniteSet(Callers) /\ Cardinality(Callers) \in Nat
    BY AccountsAssumption, FS_CardinalityType
<1>7. IsFiniteSet(Callers \ {r}) /\ Cardinality(Callers \ {r}) = Cardinality(Callers) - 1
    BY <1>6, FS_RemoveElement
<1>8. Cardinality(EarlierLogins(u, x)) <= Cardinality(Callers) - 1
    BY <1>5, <1>7, FS_Subset
<1>9. Cardinality(EarlierFailures(u, x)) <= Cardinality(Failures(u, x))
    BY <1>2, <1>3, FS_Subset
<1>10. Cardinality(EarlierFailures(u, x)) \in Nat /\ Cardinality(EarlierLogins(u, x)) \in Nat
    BY EarlierFinite
<1>11. DelayThreshold \in Nat /\ Cardinality(Failures(u, x)) \in Nat
    BY <1>3, AccountsAssumption
<1> QED
    BY <1>4, <1>6, <1>8, <1>9, <1>10, <1>11 DEF FewBefore

LEMMA CountFailuresKeeps ==
    ASSUME AccountsInv, NEW r \in Callers, CountFailures(r)
    PROVE  AccountsInv'
<1> DEFINE u == caller[r].owner
           x == caller[r].at
           row == caller'[r]
           counted == Cardinality(Failures(u, x)) + IF x > Boundary(u, x) THEN 1 ELSE 0
           lock == IF Succeeds(r) THEN 0 ELSE LockDuration(counted)
           users == IF LockOver(caller[r].seen, x) /\ account[u].locked THEN {u} ELSE {}
<1>1. /\ Doing(r, "login")
      /\ caller' = [caller EXCEPT ![r].step = "attempted", ![r].users = users, ![r].lock = lock]
      /\ UNCHANGED <<account, history, attempts, token, now, uses, lockedAt>>
    BY DEF CountFailures
<1>2. /\ caller[r] \in LoginWork /\ LoggingIn(r) /\ u \in Owners /\ x \in Nat /\ x <= now
      /\ now \in Nat
    <2>1. caller[r] \in LoginWork /\ LoggingIn(r)
        BY <1>1 DEF AccountsInv, AccountsTypes, TokenWork, LoggingIn, Doing, Working
    <2> QED
        BY <2>1 DEF AccountsInv, LoginWork, Instants, AccountsTypes
<1>3. counted \in 0..(Horizon + 1)
    <2>1. Cardinality(Failures(u, x)) \in 0..Horizon
        BY <1>2, FailuresBounded DEF AccountsInv
    <2> QED
        BY <2>1, AccountsAssumption
<1>4. lock \in Nat /\ users \in SUBSET Owners
    BY <1>2, <1>3, LockIsPositive
<1> HIDE DEF lock, users, counted
<1>5. /\ row \in LoginWork /\ row.step = "attempted" /\ row.at = x /\ row.owner = u
      /\ row.lock = lock /\ row.seen = caller[r].seen /\ row.password = caller[r].password
      /\ caller' \in [Callers -> LoginWork \cup TokenWork \cup {Nobody}]
      /\ \A q \in Callers \ {r} : caller'[q] = caller[q]
    <2>1. row = [caller[r] EXCEPT !.step = "attempted", !.users = users, !.lock = lock]
        BY <1>1 DEF AccountsInv, AccountsTypes
    <2>2. /\ row \in LoginWork /\ row.step = "attempted" /\ row.at = x /\ row.owner = u
          /\ row.lock = lock /\ row.seen = caller[r].seen /\ row.password = caller[r].password
        BY <1>2, <1>4, <2>1 DEF LoginWork
    <2> HIDE DEF row
    <2>3. caller' = [caller EXCEPT ![r] = row]
        BY <1>1, <2>1 DEF AccountsInv, AccountsTypes
    <2> QED
        BY <2>2, <2>3 DEF AccountsInv, AccountsTypes
<1>6. caller'[r] # Nobody => LoggingIn(r)'
    BY <1>5 DEF LoggingIn, Doing, Working
<1>7. \A q \in Callers : LoggingIn(q)' =>
          /\ LoggingIn(q) /\ caller'[q].owner = caller[q].owner /\ caller'[q].at = caller[q].at
    BY <1>2, <1>5 DEF LoggingIn, Doing, Working
<1>8. AccountsTypes'
    <2>1. \A q \in Callers : (Working(q) /\ ~LoggingIn(q) /\ caller[q].step # "request"
                                => caller[q].using \in Tokens)'
        BY <1>5, <1>6 DEF AccountsInv, AccountsTypes, LoggingIn, Doing, Working
    <2> QED
        BY <1>1, <1>5, <2>1 DEF AccountsInv, AccountsTypes
<1>9. Instants'
    BY <1>1, <1>7 DEF AccountsInv, Instants
<1>10. /\ FailuresLag'
       /\ \A q \in Callers : caller'[q] = caller[q] =>
           (Doing(q, "attempted") /\ caller[q].lock = 0 /\ ~Succeeds(q) =>
               \/ caller[q].at <= Boundary(caller[q].owner, now)
               \/ FewBefore(caller[q].owner, caller[q].at))'
    <2>1. attempts' = attempts /\ now <= now' /\ lockedAt' = lockedAt
        BY <1>1, <1>2
    <2> QED
        BY <1>7, <1>8, <1>9, <2>1, LagStays
<1>11. ASSUME caller'[r].lock = 0, ~Succeeds(r)'
       PROVE  (\/ caller[r].at <= Boundary(caller[r].owner, now)
               \/ FewBefore(caller[r].owner, caller[r].at))'
    <2>1. ~Succeeds(r)
        BY <1>5, <1>11 DEF Succeeds, LockActive
    <2>2. LockDuration(counted) = 0
        BY <1>5, <1>11, <2>1 DEF lock
    <2>3. PICK v \in Owners : v = u
        BY <1>2
    <2>4. PICK y \in Nat : y = x
        BY <1>2
    <2>5. y <= Boundary(v, now) \/ FewBefore(v, y)
        <3>1. Boundary(v, now) \in Int
            BY <1>2, BoundaryIs DEF AccountsInv
        <3>2. LockDuration(Cardinality(Failures(v, y)) + IF y > Boundary(v, y) THEN 1 ELSE 0) = 0
            BY <2>2, <2>3, <2>4 DEF counted
        <3>3. CASE y > Boundary(v, now)
            BY <1>2, <2>3, <2>4, <3>2, <3>3, CountedFew DEF AccountsInv
        <3> QED
            BY <3>1, <3>3
    <2>6. y <= Boundary(v, now)' \/ FewBefore(v, y)'
        <3>1. CASE FewBefore(v, y)
            <4>1. attempts' = attempts /\ now <= now' /\ y <= now
                BY <1>1, <1>2, <2>4
            <4> QED
                BY <1>7, <1>8, <1>9, <3>1, <4>1, FewStays DEF AccountsInv
        <3>2. CASE y <= Boundary(v, now)
            BY <1>1, <1>2, <1>8, <1>9, <3>2, BoundaryOnlyGrows DEF AccountsInv
        <3> QED
            BY <2>5, <3>1, <3>2
    <2>7. caller'[r].owner = v /\ caller'[r].at = y
        BY <1>5, <2>3, <2>4
    <2> QED
        BY <2>6, <2>7
<1>12. LoginsLag'
    BY <1>5, <1>10, <1>11 DEF LoginsLag
<1>13. UsedAreUsed'
    BY <1>1 DEF AccountsInv, UsedAreUsed
<1> QED
    BY <1>8, <1>9, <1>10, <1>12, <1>13 DEF AccountsInv

\* A login that ends moves from those under way to those committed, at most.
LEMMA FewAfterLogin ==
    ASSUME AccountsTypes, Instants, AccountsTypes', Instants',
           NEW r \in Callers, LoggingIn(r),
           NEW a \in AttemptRow, attempts' = attempts \cup {a},
           a.owner = caller[r].owner, a.at = caller[r].at,
           now' = now, ~LoggingIn(r)',
           \A q \in Callers \ {r} : caller'[q] = caller[q],
           NEW u \in Owners, NEW x \in Nat, x <= now, FewBefore(u, x)
    PROVE  FewBefore(u, x)'
<1>1. Boundary(u, now) <= Boundary(u, now)' /\ Boundary(u, now) \in Int /\ Boundary(u, now)' \in Int
    <2>1. attempts \subseteq attempts' /\ now <= now'
        BY DEF AccountsTypes
    <2> QED
        BY <2>1, BoundaryOnlyGrows
<1>2. \A q \in Callers : LoggingIn(q)' => q # r /\ LoggingIn(q) /\ caller'[q] = caller[q]
    BY DEF LoggingIn, Doing, Working
<1>3. EarlierLogins(u, x)' \in SUBSET (EarlierLogins(u, x) \ {r})
    BY <1>2 DEF EarlierLogins
<1>4. /\ IsFiniteSet(EarlierFailures(u, x)) /\ Cardinality(EarlierFailures(u, x)) \in Nat
      /\ IsFiniteSet(EarlierLogins(u, x)) /\ Cardinality(EarlierLogins(u, x)) \in Nat
    BY EarlierFinite
<1>5. DelayThreshold \in Nat /\ Cardinality(Callers) \in Nat
    BY AccountsAssumption, FS_CardinalityType
<1>6. ASSUME NEW F, NEW L, IsFiniteSet(F), IsFiniteSet(L),
             EarlierFailures(u, x)' \in SUBSET F, EarlierLogins(u, x)' \in SUBSET L,
             Cardinality(F) + Cardinality(L)
                 <= Cardinality(EarlierFailures(u, x)) + Cardinality(EarlierLogins(u, x))
      PROVE  FewBefore(u, x)'
    <2>1. /\ IsFiniteSet(EarlierFailures(u, x)')
          /\ Cardinality(EarlierFailures(u, x)') <= Cardinality(F)
        BY <1>6, FS_Subset
    <2>2. /\ IsFiniteSet(EarlierLogins(u, x)')
          /\ Cardinality(EarlierLogins(u, x)') <= Cardinality(L)
        BY <1>6, FS_Subset
    <2>3. /\ Cardinality(EarlierFailures(u, x)') \in Nat /\ Cardinality(EarlierLogins(u, x)') \in Nat
          /\ Cardinality(F) \in Nat /\ Cardinality(L) \in Nat
        BY <1>6, <2>1, <2>2, FS_CardinalityType
    <2> QED
        BY <1>4, <1>5, <1>6, <2>1, <2>2, <2>3 DEF FewBefore
<1>7. \A b \in attempts : b.at \in Nat
    BY DEF AccountsTypes, AttemptRow
<1>8. CASE a.owner = u /\ a.at < x
    <2> DEFINE F == EarlierFailures(u, x) \cup {a}
               L == EarlierLogins(u, x) \ {r}
    <2>1. EarlierFailures(u, x)' \in SUBSET F
        BY <1>1, <1>7 DEF EarlierFailures
    <2>2. r \in EarlierLogins(u, x)
        BY <1>8 DEF EarlierLogins
    <2>3. IsFiniteSet(L) /\ Cardinality(L) = Cardinality(EarlierLogins(u, x)) - 1
        BY <1>4, <2>2, FS_RemoveElement
    <2>4. /\ IsFiniteSet(F)
          /\ Cardinality(F) = IF a \in EarlierFailures(u, x) THEN Cardinality(EarlierFailures(u, x))
                              ELSE Cardinality(EarlierFailures(u, x)) + 1
        BY <1>4, FS_AddElement
    <2>5. Cardinality(F) + Cardinality(L)
              <= Cardinality(EarlierFailures(u, x)) + Cardinality(EarlierLogins(u, x))
        BY <1>4, <2>3, <2>4
    <2> HIDE DEF F, L
    <2>6. EarlierLogins(u, x)' \in SUBSET L
        BY <1>3 DEF L
    <2> QED
        BY <1>6, <2>1, <2>3, <2>4, <2>5, <2>6
<1>9. CASE ~(a.owner = u /\ a.at < x)
    <2>1. EarlierFailures(u, x)' \in SUBSET EarlierFailures(u, x)
        BY <1>1, <1>7, <1>9 DEF EarlierFailures
    <2>2. EarlierLogins(u, x)' \in SUBSET EarlierLogins(u, x)
        BY <1>3
    <2>3. Cardinality(EarlierFailures(u, x)) + Cardinality(EarlierLogins(u, x))
              <= Cardinality(EarlierFailures(u, x)) + Cardinality(EarlierLogins(u, x))
        BY <1>4
    <2> QED
        BY <1>4, <1>6, <2>1, <2>2, <2>3
<1> QED
    BY <1>8, <1>9

LEMMA FinishLoginKeeps ==
    ASSUME AccountsInv, NEW r \in Callers, FinishLogin(r)
    PROVE  AccountsInv'
<1> DEFINE u == caller[r].owner
           x == caller[r].at
           a == [owner |-> u, at |-> x, success |-> Succeeds(r)]
           lifted == IF u \in caller[r].users
                     THEN [account[u] EXCEPT !.locked = FALSE, !.until = Nobody]
                     ELSE account[u]
           row == IF caller[r].lock > 0
                  THEN [lifted EXCEPT !.locked = TRUE, !.until = x + caller[r].lock]
                  ELSE lifted
           since == IF caller[r].lock > 0 /\ x > lockedAt[u] THEN x ELSE lockedAt[u]
<1>1. /\ Doing(r, "attempted")
      /\ attempts' = attempts \cup {a}
      /\ account' = [account EXCEPT ![u] = row]
      /\ lockedAt' = [lockedAt EXCEPT ![u] = since]
      /\ caller' = [caller EXCEPT ![r] = Nobody]
      /\ UNCHANGED <<history, token, now, uses>>
    BY DEF FinishLogin, Answer
<1>2. /\ caller[r] \in LoginWork /\ LoggingIn(r)
      /\ x \in 1..now /\ now \in Nat
    <2>1. caller[r] \in LoginWork /\ LoggingIn(r)
        BY <1>1 DEF AccountsInv, AccountsTypes, TokenWork, LoggingIn, Doing, Working
    <2> QED
        BY <2>1 DEF AccountsInv, Instants, AccountsTypes
<1>3. u \in Owners /\ x \in Nat /\ caller[r].lock \in Nat /\ lockedAt[u] \in Nat /\ account[u] \in AccountRow
    BY <1>2 DEF LoginWork, AccountsInv, AccountsTypes
<1>4. row \in AccountRow
    <2>1. lifted \in AccountRow
        BY <1>3 DEF AccountRow
    <2> HIDE DEF lifted
    <2>2. x + caller[r].lock \in Nat
        BY <1>3
    <2>3. [lifted EXCEPT !.locked = TRUE, !.until = x + caller[r].lock] \in AccountRow
        BY <2>1, <2>2 DEF AccountRow
    <2> QED
        BY <2>1, <2>3
<1>5. /\ a \in AttemptRow /\ a.owner = u /\ a.at = x /\ a.success = Succeeds(r)
    <2>1. Succeeds(r) \in BOOLEAN
        BY DEF Succeeds
    <2> QED
        BY <1>3, <2>1 DEF AttemptRow
<1>6. /\ since \in Nat /\ since >= lockedAt[u] /\ (caller[r].lock > 0 => since >= x)
    BY <1>3
<1> HIDE DEF row, a, since, lifted
<1>7. /\ \A q \in Callers \ {r} : caller'[q] = caller[q]
      /\ caller'[r] = Nobody
      /\ caller' \in [Callers -> LoginWork \cup TokenWork \cup {Nobody}]
    BY <1>1 DEF AccountsInv, AccountsTypes
<1>8. \A q \in Callers : LoggingIn(q)' => q # r /\ LoggingIn(q) /\ caller'[q] = caller[q]
    BY <1>7 DEF LoggingIn, Doing, Working
<1>9. /\ lockedAt' \in [Owners -> Nat] /\ lockedAt'[u] = since
      /\ \A o \in Owners : lockedAt[o] <= lockedAt'[o]
    BY <1>1, <1>3, <1>6 DEF AccountsInv, AccountsTypes
<1>10. AccountsTypes'
    <2>1. attempts' \in SUBSET AttemptRow /\ IsFiniteSet(attempts')
        BY <1>1, <1>5, FS_AddElement DEF AccountsInv, AccountsTypes
    <2>2. account' \in [Owners -> AccountRow]
        BY <1>1, <1>3, <1>4 DEF AccountsInv, AccountsTypes
    <2>3. \A q \in Callers : (Working(q) /\ ~LoggingIn(q) /\ caller[q].step # "request"
                                => caller[q].using \in Tokens)'
        BY <1>7 DEF AccountsInv, AccountsTypes, LoggingIn, Doing, Working
    <2> QED
        BY <1>1, <1>7, <1>9, <2>1, <2>2, <2>3 DEF AccountsInv, AccountsTypes
<1>11. Instants'
    <2>1. \A b \in attempts : b.at # x
        BY <1>2 DEF AccountsInv, Instants
    <2>2. \A q \in Callers \ {r} : LoggingIn(q) => caller[q].at # x
        BY <1>2 DEF AccountsInv, Instants
    <2>3. \A b \in attempts' : b.at \in 1..now
        BY <1>1, <1>2, <1>5 DEF AccountsInv, Instants
    <2>4. \A b, c \in attempts' : b.at = c.at => b = c
        BY <1>1, <1>5, <2>1 DEF AccountsInv, Instants
    <2>5. \A q \in Callers : LoggingIn(q)' =>
              /\ caller'[q].at \in 1..now
              /\ \A b \in attempts' : b.at # caller'[q].at
              /\ \A p \in Callers \ {q} : LoggingIn(p)' => caller'[p].at # caller'[q].at
        BY <1>1, <1>5, <1>8, <2>2 DEF AccountsInv, Instants
    <2> QED
        BY <1>1, <2>3, <2>4, <2>5 DEF Instants
<1>12. \A o \in Owners : /\ Boundary(o, now) <= Boundary(o, now)'
                         /\ Boundary(o, now) \in Int /\ Boundary(o, now)' \in Int
    <2>1. attempts \subseteq attempts' /\ now <= now'
        BY <1>1, <1>2
    <2> QED
        BY <1>10, <1>11, <2>1, BoundaryOnlyGrows DEF AccountsInv
<1>13. \A o \in Owners, y \in Nat : y <= now /\ FewBefore(o, y) => FewBefore(o, y)'
    <2>1. ~LoggingIn(r)'
        BY <1>7 DEF LoggingIn, Doing, Working
    <2> QED
        BY <1>1, <1>2, <1>5, <1>7, <1>10, <1>11, <2>1, FewAfterLogin DEF AccountsInv
<1>14. FailuresLag'
    <2> SUFFICES ASSUME NEW b \in attempts', ~b.success
                 PROVE  \/ b.at <= Boundary(b.owner, now)'
                        \/ b.at <= lockedAt'[b.owner]
                        \/ FewBefore(b.owner, b.at)'
        BY DEF FailuresLag
    <2>1. CASE b \in attempts
        <3>1. b.owner \in Owners /\ b.at \in Nat /\ b.at <= now
            BY <2>1 DEF AccountsInv, AccountsTypes, AttemptRow, Instants
        <3>2. \/ b.at <= Boundary(b.owner, now)
              \/ b.at <= lockedAt[b.owner]
              \/ FewBefore(b.owner, b.at)
            BY <2>1 DEF AccountsInv, FailuresLag
        <3>3. lockedAt[b.owner] \in Nat /\ lockedAt'[b.owner] \in Nat
            BY <1>9, <3>1 DEF AccountsInv, AccountsTypes
        <3> QED
            BY <1>9, <1>12, <1>13, <3>1, <3>2, <3>3
    <2>2. CASE b = a
        <3>1. PICK v \in Owners : v = u
            BY <1>3
        <3>2. PICK y \in Nat : y = x
            BY <1>3
        <3>3. b.owner = v /\ b.at = y /\ ~Succeeds(r)
            BY <1>5, <2>2, <3>1, <3>2
        <3>4. CASE caller[r].lock > 0
            BY <1>3, <1>6, <1>9, <3>1, <3>2, <3>3, <3>4
        <3>5. CASE ~(caller[r].lock > 0)
            <4>1. y <= Boundary(v, now) \/ FewBefore(v, y)
                <5>1. caller[r].lock = 0
                    BY <1>3, <3>5
                <5> QED
                    BY <1>1, <3>1, <3>2, <3>3, <5>1 DEF AccountsInv, LoginsLag
            <4>2. y <= now
                BY <1>2, <3>2
            <4> QED
                BY <1>12, <1>13, <3>3, <4>1, <4>2
        <3> QED
            BY <3>4, <3>5
    <2> QED
        BY <1>1, <2>1, <2>2
<1>15. LoginsLag'
    <2> SUFFICES ASSUME NEW q \in Callers,
                        (Doing(q, "attempted") /\ caller[q].lock = 0 /\ ~Succeeds(q))'
                 PROVE  (\/ caller[q].at <= Boundary(caller[q].owner, now)
                         \/ FewBefore(caller[q].owner, caller[q].at))'
        BY DEF LoginsLag
    <2>1. q # r /\ caller'[q] = caller[q] /\ LoggingIn(q)
        BY <1>8 DEF LoggingIn
    <2>2. Doing(q, "attempted") /\ caller[q].lock = 0 /\ ~Succeeds(q)
        BY <2>1 DEF Doing, Working, Succeeds, LockActive
    <2>3. /\ caller[q].owner \in Owners /\ caller[q].at \in Nat /\ caller[q].at <= now
        <3>1. caller[q] \in LoginWork
            BY <2>2 DEF AccountsInv, AccountsTypes, TokenWork, Doing, Working
        <3> QED
            BY <2>1, <3>1 DEF LoginWork, AccountsInv, Instants
    <2>4. PICK v \in Owners : v = caller[q].owner
        BY <2>3
    <2>5. PICK y \in Nat : y = caller[q].at
        BY <2>3
    <2>6. y <= now /\ (y <= Boundary(v, now) \/ FewBefore(v, y))
        BY <2>2, <2>3, <2>4, <2>5 DEF AccountsInv, LoginsLag
    <2>7. y <= Boundary(v, now)' \/ FewBefore(v, y)'
        BY <1>12, <1>13, <2>6
    <2>8. caller'[q].owner = v /\ caller'[q].at = y
        BY <2>1, <2>4, <2>5
    <2> QED
        BY <2>7, <2>8
<1>16. UsedAreUsed'
    BY <1>1 DEF AccountsInv, UsedAreUsed
<1> QED
    BY <1>10, <1>11, <1>14, <1>15, <1>16 DEF AccountsInv

\* The steps of a request that is no login.
LEMMA RequestKeeps ==
    ASSUME AccountsInv, NEW r \in Callers, NEW row \in TokenWork \cup {Nobody},
           row # Nobody /\ row.step # "request" => row.using \in Tokens,
           caller' = [caller EXCEPT ![r] = row],
           account' \in [Owners -> AccountRow], token' \in [Tokens -> TokenRow],
           uses' \in [Tokens -> 0..1], UsedAreUsed',
           UNCHANGED <<attempts, now, lockedAt>>
    PROVE  AccountsInv'
<1>1. /\ caller'[r] = row /\ \A q \in Callers \ {r} : caller'[q] = caller[q]
      /\ caller' \in [Callers -> LoginWork \cup TokenWork \cup {Nobody}]
    BY DEF AccountsInv, AccountsTypes
<1>2. ~LoggingIn(r)'
    BY <1>1 DEF LoggingIn, Doing, Working, TokenWork
<1>3. \A q \in Callers : LoggingIn(q)' => caller'[q] = caller[q]
    BY <1>1, <1>2
<1>4. AccountsTypes'
    <2>1. \A q \in Callers : (Working(q) /\ ~LoggingIn(q) /\ caller[q].step # "request"
                                => caller[q].using \in Tokens)'
        BY <1>1 DEF AccountsInv, AccountsTypes, LoggingIn, Doing, Working
    <2> QED
        BY <1>1, <2>1 DEF AccountsInv, AccountsTypes
<1>5. now <= now'
    BY AccountsAssumption DEF AccountsInv, AccountsTypes
<1> QED
    BY <1>3, <1>4, <1>5, AsideKeeps

\* What is spent was there; nothing else moves.
LEMMA SpentIsTyped ==
    ASSUME AccountsInv, NEW S
    PROVE  /\ Spent(S) \in [Tokens -> TokenRow]
           /\ \A t \in Tokens : Spent(S)[t].state = IF t \in S THEN "used" ELSE token[t].state
BY DEF AccountsInv, AccountsTypes, Spent, TokenRow

LEMMA TokenTaken ==
    ASSUME AccountsInv, NEW r \in Callers, NEW S,
           caller[r].using \in Tokens, Consumed(r), Taken(r),
           token' = Spent(S \cup {caller[r].using})
    PROVE  /\ token' \in [Tokens -> TokenRow] /\ uses' \in [Tokens -> 0..1] /\ UsedAreUsed'
<1> DEFINE t == caller[r].using
<1>1. uses[t] = 0 /\ uses' = [uses EXCEPT ![t] = uses[t] + 1]
    BY DEF AccountsInv, AccountsTypes, UsedAreUsed, Consumed, Usable, Taken
<1>2. uses' \in [Tokens -> 0..1] /\ \A s \in Tokens \ {t} : uses'[s] = uses[s]
    BY <1>1 DEF AccountsInv, AccountsTypes
<1>3. /\ token' \in [Tokens -> TokenRow]
      /\ \A s \in Tokens : token'[s].state = IF s \in S \cup {t} THEN "used" ELSE token[s].state
    BY SpentIsTyped
<1> QED
    BY <1>2, <1>3 DEF AccountsInv, UsedAreUsed

LEMMA RequestStepsKeep ==
    ASSUME AccountsInv, NEW r \in Callers,
           \/ \E u \in Owners, k \in Kinds : BeginRequest(r, k, u)
           \/ \E t \in Tokens : ReadToken(r, t)
           \/ FinishRequest(r) \/ LockAccount(r) \/ FinishVerify(r) \/ Refuse(r)
           \/ AbortTokenDeadlock(r)
           \/ \E p \in Passwords : FinishReset(r, p)
    PROVE  AccountsInv'
<1> USE DEF AccountsInv, AccountsTypes
<1>1. ASSUME NEW u \in Owners, NEW k \in Kinds, BeginRequest(r, k, u)
      PROVE  AccountsInv'
    <2> DEFINE row == [step |-> "request", owner |-> u, kind |-> k, using |-> Nobody,
                       users |-> {}, tokens |-> Unused(k, u)]
    <2>1. row \in TokenWork /\ row.step = "request"
        BY DEF TokenWork, Unused
    <2>2. caller' = [caller EXCEPT ![r] = row]
          /\ UNCHANGED <<account, history, attempts, token, now, uses, lockedAt>>
        BY <1>1 DEF BeginRequest, Request
    <2> HIDE DEF row
    <2>3. UsedAreUsed'
        BY <2>2 DEF UsedAreUsed
    <2> QED
        BY <2>1, <2>2, <2>3, RequestKeeps
<1>2. ASSUME NEW t \in Tokens, ReadToken(r, t)
      PROVE  AccountsInv'
    <2> DEFINE row == [step |-> token[t].kind, owner |-> token[t].owner,
                       kind |-> token[t].kind, using |-> t, users |-> {}, tokens |-> {}]
    <2>1. row \in TokenWork /\ row.using \in Tokens
        BY DEF TokenWork, TokenRow, Kinds
    <2>2. caller' = [caller EXCEPT ![r] = row]
          /\ UNCHANGED <<account, history, attempts, token, now, uses, lockedAt>>
        BY <1>2 DEF ReadToken
    <2> HIDE DEF row
    <2>3. UsedAreUsed'
        BY <2>2 DEF UsedAreUsed
    <2> QED
        BY <2>1, <2>2, <2>3, RequestKeeps
<1>3. CASE FinishRequest(r)
    <2>1. PICK t \in Tokens :
            /\ FreshToken(t)
            /\ token' = [Spent(caller[r].tokens) EXCEPT ![t] =
                 [kind |-> caller[r].kind, owner |-> caller[r].owner,
                  expires |-> now + TokenLifetime, state |-> "unused"]]
        BY <1>3 DEF FinishRequest
    <2>2. caller' = [caller EXCEPT ![r] = Nobody]
          /\ UNCHANGED <<account, history, attempts, now, uses, lockedAt>>
        BY <1>3 DEF FinishRequest, Answer
    <2>3. caller[r] \in TokenWork
        BY <1>3 DEF FinishRequest, Doing, Working, LoginWork
    <2>4. [kind |-> caller[r].kind, owner |-> caller[r].owner,
           expires |-> now + TokenLifetime, state |-> "unused"] \in TokenRow
        BY <2>3, AccountsAssumption DEF TokenWork, TokenRow
    <2>5. /\ Spent(caller[r].tokens) \in [Tokens -> TokenRow]
          /\ \A s \in Tokens : Spent(caller[r].tokens)[s].state =
                 IF s \in caller[r].tokens THEN "used" ELSE token[s].state
        BY SpentIsTyped
    <2>6. token' \in [Tokens -> TokenRow]
        BY <2>1, <2>4, <2>5
    <2>7. uses[t] # 1
        BY <2>1 DEF FreshToken, UsedAreUsed
    <2>8. UsedAreUsed'
        <3>1. \A s \in Tokens \ {t} : token'[s] = Spent(caller[r].tokens)[s]
            BY <2>1, <2>5
        <3> QED
            BY <2>2, <2>5, <2>7, <3>1 DEF UsedAreUsed
    <2> QED
        BY <2>2, <2>6, <2>8, RequestKeeps
<1>4. CASE LockAccount(r)
    <2> DEFINE row == [caller[r] EXCEPT !.step = "locked", !.users = {caller[r].owner}]
    <2>1. caller[r] \in TokenWork /\ caller[r].using \in Tokens
        BY <1>4 DEF LockAccount, Doing, Working, LoginWork, LoggingIn
    <2>2. row \in TokenWork /\ row.using \in Tokens
        BY <2>1 DEF TokenWork
    <2>3. UNCHANGED <<account, history, attempts, token, now, uses, lockedAt>>
        BY <1>4 DEF LockAccount
    <2>4. caller' = [caller EXCEPT ![r] = row]
        BY <1>4 DEF LockAccount
    <2> HIDE DEF row
    <2>5. UsedAreUsed'
        BY <2>3 DEF UsedAreUsed
    <2> QED
        BY <2>2, <2>3, <2>4, <2>5, RequestKeeps
<1>5. CASE Refuse(r) \/ AbortTokenDeadlock(r)
    <2>1. caller' = [caller EXCEPT ![r] = Nobody]
          /\ UNCHANGED <<account, history, attempts, token, now, uses, lockedAt>>
        BY <1>5 DEF Refuse, AbortTokenDeadlock, Answer
    <2>2. UsedAreUsed'
        BY <2>1 DEF UsedAreUsed
    <2> QED
        BY <2>1, <2>2, RequestKeeps
<1>6. CASE FinishVerify(r)
    <2>1. caller[r] \in TokenWork /\ caller[r].using \in Tokens
        BY <1>6 DEF FinishVerify, Doing, Working, LoginWork, LoggingIn
    <2>2. /\ Consumed(r) /\ Taken(r)
          /\ token' = Spent(Unused("verify", caller[r].owner) \cup {caller[r].using})
          /\ caller' = [caller EXCEPT ![r] = Nobody]
          /\ account' = [account EXCEPT ![caller[r].owner].verified = TRUE]
          /\ UNCHANGED <<attempts, now, lockedAt>>
        BY <1>6 DEF FinishVerify, Answer
    <2>3. token' \in [Tokens -> TokenRow] /\ uses' \in [Tokens -> 0..1] /\ UsedAreUsed'
        BY <2>1, <2>2, TokenTaken
    <2>4. account' \in [Owners -> AccountRow]
        BY <2>2 DEF AccountRow
    <2> QED
        BY <2>2, <2>3, <2>4, RequestKeeps
<1>7. ASSUME NEW p \in Passwords, FinishReset(r, p)
      PROVE  AccountsInv'
    <2>1. caller[r] \in TokenWork /\ caller[r].using \in Tokens
        BY <1>7 DEF FinishReset, Doing, Working, LoginWork, LoggingIn
    <2>2. /\ Consumed(r) /\ Taken(r)
          /\ token' = Spent(Unused("reset", caller[r].owner) \cup {caller[r].using})
          /\ caller' = [caller EXCEPT ![r] = Nobody]
          /\ account' = [account EXCEPT ![caller[r].owner].password = p]
          /\ UNCHANGED <<attempts, now, lockedAt>>
        BY <1>7 DEF FinishReset, Answer, Replace
    <2>3. token' \in [Tokens -> TokenRow] /\ uses' \in [Tokens -> 0..1] /\ UsedAreUsed'
        BY <2>1, <2>2, TokenTaken
    <2>4. account' \in [Owners -> AccountRow]
        BY <2>2 DEF AccountRow
    <2> QED
        BY <2>2, <2>3, <2>4, RequestKeeps
<1> QED
    BY <1>1, <1>2, <1>3, <1>4, <1>5, <1>6, <1>7

\* A changed password, the clean-up and the clock.
LEMMA AccountStepsKeep ==
    ASSUME AccountsInv,
           \/ \E u \in Owners : \/ CleanupLock(u)
                                \/ \E p, q \in Passwords : ChangePassword(u, p, q)
           \/ \E t \in Tokens : CleanupToken(t)
           \/ Pass
    PROVE  AccountsInv'
<1>1. /\ UNCHANGED <<attempts, caller, uses, lockedAt>>
      /\ now <= now' /\ now' \in 0..Horizon
      /\ account' \in [Owners -> AccountRow]
      /\ token' \in [Tokens -> TokenRow]
      /\ \A t \in Tokens : token'[t].state \in {token[t].state, "deleted"}
    <2>1. ASSUME NEW u \in Owners, CleanupLock(u)
          PROVE  <1>1!:
        <3>1. [account[u] EXCEPT !.locked = FALSE, !.until = Nobody] \in AccountRow
            BY DEF AccountsInv, AccountsTypes, AccountRow
        <3>2. account' \in [Owners -> AccountRow]
            BY <2>1, <3>1 DEF CleanupLock, AccountsInv, AccountsTypes
        <3> QED
            BY <2>1, <3>2, AccountsAssumption DEF CleanupLock, AccountsInv, AccountsTypes
    <2>2. ASSUME NEW u \in Owners, NEW p \in Passwords, NEW q \in Passwords, ChangePassword(u, p, q)
          PROVE  <1>1!:
        <3>1. [account[u] EXCEPT !.password = q] \in AccountRow
            BY DEF AccountsInv, AccountsTypes, AccountRow
        <3>2. account' \in [Owners -> AccountRow]
            BY <2>2, <3>1 DEF ChangePassword, Replace, AccountsInv, AccountsTypes
        <3> QED
            BY <2>2, <3>2, AccountsAssumption DEF ChangePassword, Replace, AccountsInv, AccountsTypes
    <2>3. ASSUME NEW t \in Tokens, CleanupToken(t)
          PROVE  <1>1!:
        BY <2>3, AccountsAssumption DEF CleanupToken, AccountsInv, AccountsTypes, TokenRow
    <2>4. CASE Pass
        BY <2>4, AccountsAssumption DEF Pass, AccountsInv, AccountsTypes
    <2> QED
        BY <2>1, <2>2, <2>3, <2>4
<1>2. AccountsTypes'
    <2>1. \A q \in Callers : (Working(q) /\ ~LoggingIn(q) /\ caller[q].step # "request"
                                => caller[q].using \in Tokens)'
        BY <1>1 DEF AccountsInv, AccountsTypes, LoggingIn, Doing, Working
    <2> QED
        BY <1>1, <2>1 DEF AccountsInv, AccountsTypes
<1>3. UsedAreUsed'
    BY <1>1 DEF AccountsInv, UsedAreUsed
<1> QED
    BY <1>1, <1>2, <1>3, AsideKeeps

LEMMA AccountsInit ==
    ASSUME InitAccounts
    PROVE  AccountsInv
<1>1. /\ attempts = {} /\ now = 0 /\ caller = [r \in Callers |-> Nobody]
      /\ uses = [t \in Tokens |-> 0] /\ lockedAt = [u \in Owners |-> 0]
      /\ account \in [Owners -> AccountRow] /\ token \in [Tokens -> TokenRow]
    <2>1. account \in [Owners -> AccountRow]
        BY DEF InitAccounts, AccountsFrom, AccountRow
    <2>2. token \in [Tokens -> TokenRow]
        BY DEF InitAccounts, AccountsFrom, TokenRow, Kinds
    <2> QED
        BY <2>1, <2>2 DEF InitAccounts, AccountsFrom
<1>2. AccountsTypes
    BY <1>1, FS_EmptySet, AccountsAssumption DEF AccountsTypes, Working
<1>3. UsedAreUsed /\ Instants /\ FailuresLag /\ LoginsLag
    BY <1>1 DEF UsedAreUsed, Instants, FailuresLag, LoginsLag, LoggingIn, Doing, Working
<1> QED
    BY <1>2, <1>3 DEF AccountsInv

LEMMA AccountsStep ==
    ASSUME AccountsInv, [NextAccounts]_accountVars
    PROVE  AccountsInv'
<1>1. ASSUME NEW r \in Callers, CallerStart(r) \/ CallerStep(r)
      PROVE  AccountsInv'
    BY <1>1, BeginLoginKeeps, CountFailuresKeeps, FinishLoginKeeps, RequestStepsKeep
       DEF CallerStart, CallerStep
<1>2. CASE UNCHANGED accountVars
    <2>1. now <= now'
        BY <1>2, AccountsAssumption DEF accountVars, AccountsInv, AccountsTypes
    <2>2. AccountsTypes'
        <3>1. \A q \in Callers : (Working(q) /\ ~LoggingIn(q) /\ caller[q].step # "request"
                                => caller[q].using \in Tokens)'
            BY <1>2 DEF accountVars, AccountsInv, AccountsTypes, LoggingIn, Doing, Working
        <3> QED
            BY <1>2, <3>1 DEF accountVars, AccountsInv, AccountsTypes
    <2>3. UsedAreUsed'
        BY <1>2 DEF accountVars, AccountsInv, UsedAreUsed
    <2> QED
        BY <1>2, <2>1, <2>2, <2>3, AsideKeeps DEF accountVars
<1> QED
    BY <1>1, <1>2, AccountStepsKeep DEF NextAccounts

\* A password is reset, or an address verified, at most once with a token,
\* whichever requests read it unused.
THEOREM TokenOnceHolds == AccountsSpec => []TokenWorksOnce
<1>1. AccountsInv => TokenWorksOnce
    BY DEF AccountsInv, AccountsTypes, TokenWorksOnce
<1> QED
    BY <1>1, AccountsInit, AccountsStep, PTL DEF AccountsSpec

\* The failures after the last success are at most those that were few before
\* the latest of them, and that one.
LEMMA LockoutLags ==
    ASSUME AccountsInv
    PROVE  LockoutLagsAtMost
<1> SUFFICES ASSUME NEW u \in Owners,
                    \A r \in Callers : ~LoggingIn(r),
                    Cardinality(Failures(u, now)) >= DelayThreshold + Cardinality(Callers) - 1
             PROVE  lockedAt[u] > Boundary(u, now)
    BY DEF LockoutLagsAtMost, LoggingIn
<1> DEFINE F == Failures(u, now)
<1>1. /\ now \in Nat /\ DelayThreshold \in Nat /\ DelayThreshold > 1
      /\ Cardinality(Callers) \in Nat /\ IsFiniteSet(Callers)
      /\ lockedAt[u] \in Nat /\ Boundary(u, now) \in Int
    <2>1. now \in Nat /\ DelayThreshold \in Nat /\ DelayThreshold > 1 /\ IsFiniteSet(Callers)
          /\ lockedAt[u] \in Nat
        BY AccountsAssumption DEF AccountsInv, AccountsTypes
    <2>2. Cardinality(Callers) \in Nat
        BY <2>1, FS_CardinalityType
    <2>3. Boundary(u, now) \in Int
        BY <2>1, BoundaryIs DEF AccountsInv
    <2> QED
        BY <2>1, <2>2, <2>3
<1>2. /\ F \in SUBSET attempts /\ IsFiniteSet(F) /\ Cardinality(F) \in Nat
      /\ \A a \in F : a.owner = u /\ ~a.success /\ a.at > Boundary(u, now) /\ a.at \in 1..now
    <2>1. F \in SUBSET attempts
        BY DEF Failures, Recent
    <2>2. IsFiniteSet(F) /\ Cardinality(F) \in Nat
        BY <1>1, FailuresBounded DEF AccountsInv
    <2> QED
        BY <2>1, <2>2 DEF Failures, Recent, AccountsInv, Instants
<1>3. F # {}
    BY <1>1, <1>2, FS_EmptySet
<1> HIDE DEF F
<1>4. PICK f \in F : \A a \in F : a.at <= f.at
    <2> DEFINE S == {a.at : a \in F}
    <2>1. S \in SUBSET Int /\ S # {} /\ \A y \in S : y <= now
        BY <1>1, <1>2, <1>3
    <2> HIDE DEF S
    <2>2. Max(S) \in S /\ \A y \in S : y <= Max(S)
        <3>1. now \in Int
            BY <1>1
        <3> QED
            BY <2>1, <3>1, GreatestIsMember
    <2> QED
        BY <2>2 DEF S
<1>5. CASE f.at <= lockedAt[u]
    BY <1>1, <1>2, <1>5
<1>6. CASE FewBefore(u, f.at)
    <2>1. PICK x \in Nat : x = f.at
        BY <1>1, <1>2
    <2>2. EarlierLogins(u, x) = {}
        BY DEF EarlierLogins
    <2>3. /\ IsFiniteSet(EarlierFailures(u, x)) /\ Cardinality(EarlierFailures(u, x)) \in Nat
          /\ Cardinality(EarlierLogins(u, x)) = 0
        BY <2>2, EarlierFinite, FS_EmptySet DEF AccountsInv
    <2>4. F \in SUBSET (EarlierFailures(u, x) \cup {f})
        <3> SUFFICES ASSUME NEW a \in F, a # f
                     PROVE  a \in EarlierFailures(u, x)
            OBVIOUS
        <3>1. a.at # f.at
            BY <1>2 DEF AccountsInv, Instants
        <3>2. a.at < x
            BY <1>1, <1>2, <1>4, <2>1, <3>1
        <3> QED
            BY <1>1, <1>2, <3>2 DEF EarlierFailures
    <2>5. /\ IsFiniteSet(EarlierFailures(u, x) \cup {f})
          /\ Cardinality(EarlierFailures(u, x) \cup {f}) <= Cardinality(EarlierFailures(u, x)) + 1
          /\ Cardinality(EarlierFailures(u, x) \cup {f}) \in Nat
        <3> DEFINE E == EarlierFailures(u, x)
        <3>1. IsFiniteSet(E \cup {f})
              /\ Cardinality(E \cup {f}) = IF f \in E THEN Cardinality(E) ELSE Cardinality(E) + 1
            BY <2>3, FS_AddElement
        <3> HIDE DEF E
        <3>2. Cardinality(E \cup {f}) \in Nat
            BY <3>1, FS_CardinalityType
        <3>3. Cardinality(E) \in Nat
            BY <2>3 DEF E
        <3>4. Cardinality(E \cup {f}) <= Cardinality(E) + 1
            BY <3>1, <3>3
        <3> QED
            BY <3>1, <3>2, <3>4 DEF E
    <2>6. Cardinality(F) <= Cardinality(EarlierFailures(u, x) \cup {f})
        BY <2>4, <2>5, FS_Subset
    <2>7. Cardinality(EarlierFailures(u, x)) <= DelayThreshold + Cardinality(Callers) - 3
        BY <1>1, <1>6, <2>1, <2>3 DEF FewBefore
    <2>8. Cardinality(F) >= DelayThreshold + Cardinality(Callers) - 1
        BY DEF F
    <2> QED
        BY <1>1, <1>2, <2>3, <2>5, <2>6, <2>7, <2>8
<1> QED
    BY <1>1, <1>2, <1>5, <1>6 DEF AccountsInv, FailuresLag

\* Failures counted side by side cannot outrun the lockout by more than the
\* number of requests served at the same time.
THEOREM LockoutLagsHolds == AccountsSpec => []LockoutLagsAtMost
<1> QED
    BY LockoutLags, AccountsInit, AccountsStep, PTL DEF AccountsSpec

-----------------------------------------------------------------------------
(* The cache of permissions *)

CheckRow == [principal : Principals, rights : SUBSET Rights, overtaken : BOOLEAN]
EntryRow == [rights : SUBSET Rights, overtaken : BOOLEAN]
ChangeRow == [number : Nat, scope : SUBSET Principals]

RbacTypes ==
    /\ userRoles \in [Principals -> SUBSET Roles]
    /\ roleRights \in [Roles -> SUBSET Rights]
    /\ generation \in Nat /\ version \in [Principals -> Nat]
    /\ cache \in [Keys -> EntryRow \cup {NoEntry}]
    /\ check \in [Checks -> CheckRow \cup {NoEntry}]
    /\ pending \in SUBSET ChangeRow /\ IsFiniteSet(pending)
    /\ changes \in 0..MaxChanges
    /\ lost \subseteq Principals

\* Every invalidation answers a change, so the keys stay below the bound.
KeysBounded ==
    /\ generation + Cardinality(pending) <= changes
    /\ \A p \in Principals : version[p] + Cardinality(pending) <= changes

\* Nothing is kept under a key that is still to come.
NothingAhead ==
    \A k \in Keys : k[1] > generation \/ k[3] > version[k[2]] => cache[k] = NoEntry

\* A check knows the grants of its principal, or a change has overtaken it.
ChecksKnow ==
    \A c \in Checks : check[c] # NoEntry =>
        check[c].rights = Effective(check[c].principal) \/ check[c].overtaken

RbacInv == RbacTypes /\ KeysBounded /\ NothingAhead /\ ChecksKnow /\ StaleHasCause

LEMMA EffectiveIsRights ==
    ASSUME RbacTypes, NEW p \in Principals
    PROVE  Effective(p) \in SUBSET Rights
BY DEF RbacTypes, Effective

LEMMA KeyIsKey ==
    ASSUME RbacTypes, KeysBounded, NEW p \in Principals
    PROVE  Key(p) \in Keys
<1>1. Cardinality(pending) \in Nat
    BY FS_CardinalityType DEF RbacTypes
<1>2. generation \in 0..MaxChanges /\ version[p] \in 0..MaxChanges
    BY <1>1, RbacAssumption DEF RbacTypes, KeysBounded
<1> QED
    BY <1>2 DEF Key, Keys, Versions

LEMMA RbacInit ==
    ASSUME InitRbac
    PROVE  RbacInv
<1>1. IsFiniteSet(pending) /\ Cardinality(pending) = 0
    BY FS_EmptySet DEF InitRbac
<1>2. RbacTypes
    BY <1>1, RbacAssumption DEF InitRbac, RbacTypes
<1>3. KeysBounded
    BY <1>1 DEF InitRbac, KeysBounded
<1>4. \A k \in Keys : cache[k] = NoEntry
    BY DEF InitRbac
<1>5. NothingAhead /\ ChecksKnow /\ StaleHasCause
    BY <1>2, <1>3, <1>4, KeyIsKey DEF InitRbac, NothingAhead, ChecksKnow, StaleHasCause
<1> QED
    BY <1>2, <1>3, <1>5 DEF RbacInv

\* A step of a check: the grants, the keys and the changes stay.
LEMMA CheckKeeps ==
    ASSUME RbacInv, NEW c \in Checks,
           \/ StoreEntry(c) \/ StoreFails(c)
           \/ \E p \in Principals : CacheMiss(c, p)
    PROVE  RbacInv'
<1>1. /\ UNCHANGED <<userRoles, roleRights, generation, version, pending, changes, lost>>
      /\ \A p \in Principals : Effective(p)' = Effective(p) /\ Key(p)' = Key(p)
    BY DEF StoreEntry, StoreFails, CacheMiss, Effective, Key
<1>2. CASE StoreEntry(c)
    <2> DEFINE p == check[c].principal
               entry == [rights |-> check[c].rights, overtaken |-> check[c].overtaken]
    <2>1. /\ p \in Principals /\ entry \in EntryRow /\ Key(p) \in Keys
          /\ entry.rights = Effective(p) \/ entry.overtaken
        BY <1>2, KeyIsKey DEF RbacInv, RbacTypes, ChecksKnow, CheckRow, EntryRow, StoreEntry
    <2>2. /\ cache' = [cache EXCEPT ![Key(p)] = entry]
          /\ check' = [check EXCEPT ![c] = NoEntry]
        BY <1>2 DEF StoreEntry
    <2> HIDE DEF p, entry
    <2>3. RbacTypes' /\ KeysBounded' /\ ChecksKnow'
        <3>1. cache' \in [Keys -> EntryRow \cup {NoEntry}]
            BY <2>1, <2>2 DEF RbacInv, RbacTypes
        <3>2. /\ check' \in [Checks -> CheckRow \cup {NoEntry}]
              /\ \A a \in Checks : check'[a] # NoEntry => check'[a] = check[a]
            BY <2>2 DEF RbacInv, RbacTypes
        <3>3. RbacTypes'
            BY <1>1, <3>1, <3>2 DEF RbacInv, RbacTypes
        <3>4. KeysBounded'
            BY <1>1 DEF RbacInv, KeysBounded
        <3>5. ChecksKnow'
            BY <1>1, <3>2 DEF RbacInv, ChecksKnow, Effective
        <3> QED
            BY <3>3, <3>4, <3>5
    <2>4. NothingAhead'
        <3>1. ~(Key(p)[1] > generation \/ Key(p)[3] > version[Key(p)[2]])
            BY <2>1 DEF Key, RbacInv, RbacTypes
        <3> QED
            BY <1>1, <2>1, <2>2, <3>1 DEF RbacInv, RbacTypes, NothingAhead
    <2>5. StaleHasCause'
        <3> SUFFICES ASSUME NEW q \in Principals, (cache[Key(q)])' # NoEntry
                     PROVE  \/ (cache[Key(q)])'.rights = Effective(q)
                            \/ (cache[Key(q)])'.overtaken
                            \/ q \in lost
                            \/ \E d \in pending : q \in d.scope
            BY <1>1 DEF StaleHasCause
        <3>1. Key(q) \in Keys /\ (Key(q) = Key(p) => q = p)
            BY <2>1, KeyIsKey DEF RbacInv, Key
        <3>2. CASE q = p
            BY <1>1, <2>1, <2>2, <3>2 DEF RbacInv, RbacTypes
        <3>3. CASE q # p
            <4>1. (cache[Key(q)])' = cache[Key(q)]
                BY <1>1, <2>1, <2>2, <3>1, <3>3 DEF RbacInv, RbacTypes
            <4> QED
                BY <4>1 DEF RbacInv, StaleHasCause
        <3> QED
            BY <3>2, <3>3
    <2> QED
        BY <2>3, <2>4, <2>5 DEF RbacInv
<1>3. CASE StoreFails(c) \/ \E p \in Principals : CacheMiss(c, p)
    <2>1. cache' = cache
        BY <1>3 DEF StoreFails, CacheMiss
    <2>2. ASSUME check' \in [Checks -> CheckRow \cup {NoEntry}],
                 \/ check'[c] = NoEntry
                 \/ check'[c].rights = Effective(check'[c].principal),
                 \A a \in Checks \ {c} : check'[a] = check[a]
          PROVE  RbacTypes' /\ ChecksKnow'
        <3>2. RbacTypes'
            BY <1>1, <2>1, <2>2 DEF RbacInv, RbacTypes
        <3>3. ASSUME NEW a \in Checks, check'[a] # NoEntry
              PROVE  check'[a].rights = Effective(check'[a].principal) \/ check'[a].overtaken
            BY <2>2, <3>3 DEF RbacInv, RbacTypes, ChecksKnow
        <3>4. ChecksKnow'
            BY <1>1, <3>3 DEF ChecksKnow, Effective
        <3> QED
            BY <3>2, <3>4
    <2>4. ASSUME StoreFails(c)
          PROVE  RbacTypes' /\ ChecksKnow'
        <3>1. /\ check'[c] = NoEntry /\ \A a \in Checks \ {c} : check'[a] = check[a]
              /\ check' \in [Checks -> CheckRow \cup {NoEntry}]
            BY <2>4 DEF RbacInv, RbacTypes, StoreFails
        <3> QED
            BY <2>2, <3>1
    <2>5. ASSUME NEW p \in Principals, CacheMiss(c, p)
          PROVE  RbacTypes' /\ ChecksKnow'
        <3> DEFINE row == [principal |-> p, rights |-> Effective(p), overtaken |-> FALSE]
        <3>1. row \in CheckRow /\ row.rights = Effective(row.principal)
            BY EffectiveIsRights DEF RbacInv, CheckRow
        <3>2. check' = [check EXCEPT ![c] = row]
            BY <2>5 DEF CacheMiss
        <3> HIDE DEF row
        <3>3. /\ check'[c] = row /\ \A a \in Checks \ {c} : check'[a] = check[a]
              /\ check' \in [Checks -> CheckRow \cup {NoEntry}]
            BY <3>1, <3>2 DEF RbacInv, RbacTypes
        <3> QED
            BY <2>2, <3>1, <3>3
    <2>3. KeysBounded' /\ NothingAhead' /\ StaleHasCause'
        BY <1>1, <2>1 DEF RbacInv, KeysBounded, NothingAhead, StaleHasCause
    <2> QED
        BY <1>3, <2>3, <2>4, <2>5 DEF RbacInv
<1> QED
    BY <1>2, <1>3

\* An entry that expires is gone; no other is touched.
LEMMA ExpiryKeeps ==
    ASSUME RbacInv, NEW k \in Keys, ExpireEntry(k)
    PROVE  RbacInv'
<1>1. /\ UNCHANGED <<userRoles, roleRights, generation, version, pending, changes, lost, check>>
      /\ \A p \in Principals : Effective(p)' = Effective(p) /\ Key(p)' = Key(p) /\ Key(p) \in Keys
    BY KeyIsKey DEF ExpireEntry, Effective, Key, RbacInv
<1>2. /\ cache' \in [Keys -> EntryRow \cup {NoEntry}]
      /\ \A j \in Keys : cache'[j] # NoEntry => cache'[j] = cache[j]
    BY DEF RbacInv, RbacTypes, ExpireEntry
<1>3. RbacTypes' /\ KeysBounded' /\ ChecksKnow'
    <2>1. RbacTypes'
        BY <1>1, <1>2 DEF RbacInv, RbacTypes
    <2>2. KeysBounded'
        BY <1>1 DEF RbacInv, KeysBounded
    <2>3. ChecksKnow'
        BY <1>1 DEF RbacInv, ChecksKnow, Effective
    <2> QED
        BY <2>1, <2>2, <2>3
<1>4. NothingAhead'
    BY <1>1, <1>2 DEF RbacInv, NothingAhead
<1>5. StaleHasCause'
    BY <1>1, <1>2 DEF RbacInv, StaleHasCause
<1> QED
    BY <1>3, <1>4, <1>5 DEF RbacInv

\* A change of the grants within a scope leaves those outside it alone; inside
\* it, it is outstanding.
LEMMA ChangeKeeps ==
    ASSUME RbacInv, NEW S \in SUBSET Principals, Change(S),
           userRoles' \in [Principals -> SUBSET Roles],
           roleRights' \in [Roles -> SUBSET Rights],
           \A p \in Principals \ S : Effective(p)' = Effective(p)
    PROVE  RbacInv'
<1> DEFINE d == [number |-> changes, scope |-> S]
<1>1. /\ changes < MaxChanges /\ changes' = changes + 1
      /\ pending' = pending \cup {d}
      /\ check' = [c \in Checks |->
           IF check[c] # NoEntry /\ check[c].principal \in S
           THEN [check[c] EXCEPT !.overtaken = TRUE] ELSE check[c]]
      /\ UNCHANGED <<generation, version, cache, lost>>
    BY DEF Change
<1>2. d \in ChangeRow /\ d.scope = S
    BY DEF RbacInv, RbacTypes, ChangeRow
<1> HIDE DEF d
<1>3. /\ IsFiniteSet(pending')
      /\ Cardinality(pending') \in Nat /\ Cardinality(pending) \in Nat
      /\ Cardinality(pending') <= Cardinality(pending) + 1
    <2>1. IsFiniteSet(pending) /\ Cardinality(pending) \in Nat
        BY FS_CardinalityType DEF RbacInv, RbacTypes
    <2>2. /\ IsFiniteSet(pending \cup {d})
          /\ Cardinality(pending \cup {d}) =
               IF d \in pending THEN Cardinality(pending) ELSE Cardinality(pending) + 1
        BY <2>1, FS_AddElement
    <2> QED
        BY <1>1, <2>1, <2>2
<1>4. ASSUME NEW c \in Checks
      PROVE  /\ check'[c] \in CheckRow \cup {NoEntry}
             /\ (check[c] # NoEntry =>
                   check[c].rights = Effective(check[c].principal) \/ check[c].overtaken)'
    <2>1. CASE check[c] # NoEntry /\ check[c].principal \in S
        BY <1>1, <2>1 DEF RbacInv, RbacTypes, CheckRow
    <2>2. CASE check[c] # NoEntry /\ check[c].principal \notin S
        <3>1. check'[c] = check[c] /\ check[c] \in CheckRow
            BY <1>1, <2>2 DEF RbacInv, RbacTypes
        <3>2. /\ check[c].principal \in Principals \ S
              /\ check[c].rights = Effective(check[c].principal) \/ check[c].overtaken
            BY <2>2, <3>1 DEF RbacInv, ChecksKnow, CheckRow
        <3> QED
            BY <3>1, <3>2
    <2>3. CASE check[c] = NoEntry
        BY <1>1, <2>3
    <2> QED
        BY <2>1, <2>2, <2>3
<1>5. RbacTypes'
    BY <1>1, <1>2, <1>3, <1>4, RbacAssumption DEF RbacInv, RbacTypes
<1>6. KeysBounded'
    <2>1. generation \in Nat /\ changes \in Nat /\ \A p \in Principals : version[p] \in Nat
        BY DEF RbacInv, RbacTypes
    <2> QED
        <3>1. /\ generation + Cardinality(pending) <= changes
              /\ \A p \in Principals : version[p] + Cardinality(pending) <= changes
            BY DEF RbacInv, KeysBounded
        <3>2. /\ generation' = generation /\ version' = version /\ changes' = changes + 1
              /\ Cardinality(pending') <= Cardinality(pending) + 1
              /\ Cardinality(pending') \in Nat /\ Cardinality(pending) \in Nat
            BY <1>1, <1>3
        <3>3. generation' + Cardinality(pending') <= changes'
            BY <2>1, <3>1, <3>2
        <3>4. \A p \in Principals : version'[p] + Cardinality(pending') <= changes'
            BY <2>1, <3>1, <3>2
        <3> QED
            BY <3>3, <3>4 DEF KeysBounded
<1>7. NothingAhead' /\ ChecksKnow'
    <2>1. NothingAhead'
        BY <1>1 DEF RbacInv, NothingAhead
    <2>2. ChecksKnow'
        BY <1>4 DEF ChecksKnow
    <2> QED
        BY <2>1, <2>2
<1>8. StaleHasCause'
    <2>1. \A p \in Principals : Key(p)' = Key(p)
        BY <1>1 DEF Key
    <2>2. \A p \in S : \E e \in pending' : p \in e.scope
        BY <1>1, <1>2
    <2> QED
        BY <1>1, <2>1, <2>2 DEF RbacInv, StaleHasCause
<1> QED
    BY <1>5, <1>6, <1>7, <1>8 DEF RbacInv

LEMMA GrantsKeep ==
    ASSUME RbacInv, NEW o \in Roles,
           \/ \E p \in Principals : AssignRole(p, o) \/ RevokeRole(p, o)
           \/ \E x \in Rights : AssignPermission(o, x) \/ RevokePermission(o, x)
    PROVE  RbacInv'
<1>1. ASSUME NEW p \in Principals, AssignRole(p, o) \/ RevokeRole(p, o)
      PROVE  RbacInv'
    <2>1. /\ Change({p}) /\ roleRights' = roleRights
          /\ userRoles' \in [Principals -> SUBSET Roles]
          /\ \A q \in Principals \ {p} : userRoles'[q] = userRoles[q]
        BY <1>1 DEF RbacInv, RbacTypes, AssignRole, RevokeRole
    <2>2. \A q \in Principals \ {p} : Effective(q)' = Effective(q)
        BY <2>1 DEF Effective
    <2>3. {p} \in SUBSET Principals
        OBVIOUS
    <2> QED
        BY <2>1, <2>2, <2>3, ChangeKeeps DEF RbacInv, RbacTypes
<1>2. ASSUME NEW x \in Rights, AssignPermission(o, x) \/ RevokePermission(o, x)
      PROVE  RbacInv'
    <2>1. /\ Change(Principals) /\ userRoles' = userRoles
          /\ roleRights' \in [Roles -> SUBSET Rights]
        BY <1>2 DEF RbacInv, RbacTypes, AssignPermission, RevokePermission
    <2>2. Principals \in SUBSET Principals /\ Principals \ Principals = {}
        OBVIOUS
    <2> QED
        BY <2>1, <2>2, ChangeKeeps DEF RbacInv, RbacTypes
<1> QED
    BY <1>1, <1>2

\* An invalidation moves keys to where nothing is kept yet, or is lost.
LEMMA InvalidationKeeps ==
    ASSUME RbacInv, NEW d \in pending,
           \/ InvalidateAll(d) \/ InvalidationFails(d)
           \/ \E p \in Principals : InvalidateUser(d, p)
    PROVE  RbacInv'
<1>1. /\ pending' = pending \ {d} /\ d \in ChangeRow
      /\ UNCHANGED <<userRoles, roleRights, cache, check, changes>>
      /\ \A p \in Principals : Effective(p)' = Effective(p)
    BY DEF RbacInv, RbacTypes, InvalidateAll, InvalidationFails, InvalidateUser, Effective
<1>2. /\ IsFiniteSet(pending')
      /\ Cardinality(pending') \in Nat /\ Cardinality(pending) \in Nat
      /\ Cardinality(pending') + 1 = Cardinality(pending)
    <2>1. IsFiniteSet(pending) /\ Cardinality(pending) \in Nat
        BY FS_CardinalityType DEF RbacInv, RbacTypes
    <2>2. /\ IsFiniteSet(pending \ {d})
          /\ Cardinality(pending \ {d}) = Cardinality(pending) - 1
        BY <2>1, FS_RemoveElement
    <2>3. Cardinality(pending \ {d}) \in Nat
        BY <2>2, FS_CardinalityType
    <2> QED
        BY <1>1, <2>1, <2>2, <2>3
<1> DEFINE pendings == Cardinality(pending)
<1>7. /\ generation \in Nat /\ changes \in Nat /\ \A p \in Principals : version[p] \in Nat
      /\ generation + pendings <= changes
      /\ \A p \in Principals : version[p] + pendings <= changes
    BY DEF RbacInv, RbacTypes, KeysBounded
<1>8. ChecksKnow'
    BY <1>1 DEF RbacInv, ChecksKnow, Effective
<1>9. \A k \in Keys : k[1] \in Nat /\ k[2] \in Principals /\ k[3] \in Nat
    BY RbacAssumption DEF Keys, Versions
<1>3. CASE InvalidateAll(d)
    <2>1. RbacTypes' /\ KeysBounded'
        <3>1. generation' = generation + 1 /\ version' = version /\ lost' = {}
            BY <1>3 DEF InvalidateAll
        <3>2. RbacTypes'
            BY <1>1, <1>2, <1>7, <3>1 DEF RbacInv, RbacTypes
        <3>3. KeysBounded'
            BY <1>1, <1>2, <1>7, <3>1 DEF KeysBounded
        <3> QED
            BY <3>2, <3>3
    <2>2. NothingAhead'
        BY <1>1, <1>3, <1>7, <1>9 DEF RbacInv, NothingAhead, InvalidateAll
    <2>3. ASSUME NEW p \in Principals
          PROVE  (cache[Key(p)])' = NoEntry
        <3>1. Key(p)' \in Keys
            <4>1. (Key(p) \in Keys)'
                BY <2>1, KeyIsKey, PTL
            <4> QED
                BY <4>1 DEF Keys, Versions
        <3>2. Key(p)'[1] > generation
            BY <1>3, <1>7 DEF InvalidateAll, Key
        <3> QED
            BY <1>1, <3>1, <3>2 DEF RbacInv, NothingAhead
    <2>4. StaleHasCause'
        BY <2>3 DEF StaleHasCause
    <2> QED
        BY <1>8, <2>1, <2>2, <2>4 DEF RbacInv
<1>4. CASE InvalidationFails(d)
    <2>1. RbacTypes' /\ KeysBounded'
        <3>1. generation' = generation /\ version' = version /\ lost' = lost \cup d.scope
            BY <1>4 DEF InvalidationFails
        <3>2. lost' \subseteq Principals
            BY <1>1, <3>1 DEF RbacInv, RbacTypes, ChangeRow
        <3>3. RbacTypes'
            BY <1>1, <1>2, <3>1, <3>2 DEF RbacInv, RbacTypes
        <3>4. KeysBounded'
            BY <1>1, <1>2, <1>7, <3>1 DEF KeysBounded
        <3> QED
            BY <3>3, <3>4
    <2>2. NothingAhead'
        BY <1>1, <1>4 DEF RbacInv, NothingAhead, InvalidationFails
    <2>3. StaleHasCause'
        <3>1. \A p \in Principals : Key(p)' = Key(p)
            BY <1>4 DEF InvalidationFails, Key
        <3> QED
            BY <1>1, <1>4, <3>1 DEF RbacInv, StaleHasCause, InvalidationFails
    <2> QED
        BY <1>8, <2>1, <2>2, <2>3 DEF RbacInv
<1>5. ASSUME NEW p \in Principals, InvalidateUser(d, p)
      PROVE  RbacInv'
    <2>1. RbacTypes' /\ KeysBounded'
        <3>1. /\ version' = [version EXCEPT ![p] = @ + 1]
              /\ generation' = generation /\ lost' = lost \ {p}
            BY <1>5 DEF InvalidateUser
        <3>2. /\ version' \in [Principals -> Nat]
              /\ \A q \in Principals : version'[q] <= version[q] + 1
            BY <1>7, <3>1 DEF RbacInv, RbacTypes
        <3>3. RbacTypes'
            BY <1>1, <1>2, <3>1, <3>2 DEF RbacInv, RbacTypes
        <3>4. KeysBounded'
            BY <1>1, <1>2, <1>7, <3>1, <3>2 DEF KeysBounded
        <3> QED
            BY <3>3, <3>4
    <2>2. NothingAhead'
        <3>1. \A q \in Principals : version'[q] >= version[q]
            BY <1>5, <1>7 DEF RbacInv, RbacTypes, InvalidateUser
        <3>2. \A q \in Principals : version'[q] \in Nat
            BY <2>1 DEF RbacTypes
        <3> QED
            BY <1>1, <1>5, <1>7, <1>9, <3>1, <3>2 DEF RbacInv, NothingAhead, InvalidateUser
    <2>3. (cache[Key(p)])' = NoEntry
        <3>1. Key(p)' \in Keys
            <4>1. (Key(p) \in Keys)'
                BY <2>1, KeyIsKey, PTL
            <4> QED
                BY <4>1 DEF Keys, Versions
        <3>2. Key(p)'[3] > version[p] /\ Key(p)'[2] = p
            BY <1>5, <1>7 DEF RbacInv, RbacTypes, InvalidateUser, Key
        <3> QED
            BY <1>1, <3>1, <3>2 DEF RbacInv, NothingAhead
    <2>4. StaleHasCause'
        <3>1. \A q \in Principals \ {p} : Key(q)' = Key(q) /\ q \notin d.scope
            BY <1>5 DEF RbacInv, RbacTypes, InvalidateUser, Key
        <3> QED
            BY <1>1, <1>5, <2>3, <3>1 DEF RbacInv, StaleHasCause, InvalidateUser
    <2> QED
        BY <1>8, <2>1, <2>2, <2>4 DEF RbacInv
<1> QED
    BY <1>3, <1>4, <1>5

LEMMA RbacStep ==
    ASSUME RbacInv, [NextRbac]_rbacVars
    PROVE  RbacInv'
<1>1. CASE NextRbac
    BY <1>1, CheckKeeps, ExpiryKeeps, GrantsKeep, InvalidationKeeps DEF NextRbac
<1>2. CASE UNCHANGED rbacVars
    BY <1>2 DEF rbacVars, RbacInv, RbacTypes, KeysBounded, NothingAhead, ChecksKnow,
                StaleHasCause, Key, Effective
<1> QED
    BY <1>1, <1>2

\* Whatever the checks, the changes and the failures of Redis, a stale entry
\* answers a check only while an invalidation is outstanding or lost, or when
\* a change overtook the read it was made from.
THEOREM StaleCauseHolds == RbacSpec => []StaleHasCause
<1>1. RbacInv => StaleHasCause
    BY DEF RbacInv
<1> QED
    BY <1>1, RbacInit, RbacStep, PTL DEF RbacSpec
=============================================================================

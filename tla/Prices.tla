------------------------------- MODULE Prices -------------------------------
(***************************************************************************)
(* The prices of a product and the price lists of its store.  A price is   *)
(* of the product or of one variant; a list groups prices for a customer   *)
(* group.  Rows change under their version; a request reads, validates and *)
(* then writes.  Resolve says which price a customer gets.                 *)
(***************************************************************************)
EXTENDS Integers, FiniteSets

CONSTANTS PriceIds,        \* natural numbers: rows in order of their ids
          ListIds,         \* natural numbers
          VariantOf,       \* the variant of each price, or NoPrice: a price of the product
          PeriodOf,        \* <<effective_from, effective_until>> of each price
          PriorityOf,      \* the priority of each list
          ListPeriodOf,    \* <<effective_from, effective_until>> of each list
          GroupOf,         \* the customer group of each list: "public" or another
          Clerks,          \* requests between their statements
          MaxPriceVersion, \* bound on the version a change starts from
          NoPrice, NoBound

VARIABLES price,         \* committed product_prices rows
          list,          \* committed price_lists rows
          assignments,   \* committed price_list_assignments rows
          pricing        \* what each request is about to write

priceVars == <<price, list, assignments, pricing>>

PriceStatuses == {"draft", "active", "archived"}
\* Amounts are left out.  What decides the resolution is given by the constants.
PriceRow == [status : PriceStatuses, deleted : BOOLEAN, version : Nat]
ListRow == [status : PriceStatuses, isDefault : BOOLEAN, deleted : BOOLEAN, version : Nat]

ASSUME PricesAssumption == NoPrice \notin PriceRow /\ PriorityOf \in [ListIds -> Int]

NotPricing == [row |-> 0]

PricesInit ==
    /\ price = [p \in PriceIds |-> NoPrice]
    /\ list = [l \in ListIds |-> NoPrice]
    /\ assignments = {}
    /\ pricing = [k \in Clerks |-> NotPricing]

HasPrice(p) == price[p] # NoPrice /\ ~price[p].deleted
HasList(l) == list[l] # NoPrice /\ ~list[l].deleted

Take(k, what) == pricing[k] = NotPricing /\ pricing' = [pricing EXCEPT ![k] = what]
Priced(k) == pricing' = [pricing EXCEPT ![k] = NotPricing]

AbandonPricing(k) ==
    /\ pricing[k] # NotPricing /\ Priced(k)
    /\ UNCHANGED <<price, list, assignments>>

-----------------------------------------------------------------------------
(* PricingService                                                            *)

CreatePrice(p) ==
    /\ price[p] = NoPrice
    /\ price' = [price EXCEPT ![p] = [status |-> "draft", deleted |-> FALSE, version |-> 1]]
    /\ UNCHANGED <<list, assignments, pricing>>

Forward(from, to) ==
    \/ from = to
    \/ from = "draft" /\ to \in {"active", "archived"}
    \/ from = "active" /\ to = "archived"

\* Another active price for exactly the same period.
ActivePriceExists(p) ==
    \E q \in PriceIds \ {p} :
        HasPrice(q) /\ price[q].status = "active" /\ VariantOf[q] = VariantOf[p]
        /\ PeriodOf[q] = PeriodOf[p]

\* uq_product_prices_active_variant_currency_period: only prices of a variant.
PriceIndexed(p, status) ==
    status = "active" /\ VariantOf[p] # NoPrice => ~ActivePriceExists(p)

\* A change of amounts alone is left out with the amounts.
BeginUpdatePrice(k, p, status) ==
    /\ HasPrice(p) /\ price[p].version <= MaxPriceVersion
    /\ status # price[p].status /\ Forward(price[p].status, status)
    /\ status = "active" => ~ActivePriceExists(p)
    /\ Take(k, [row |-> p, version |-> price[p].version, status |-> status])
    /\ UNCHANGED <<price, list, assignments>>

\* A request writes the row it read.
PriceThere(k) == HasPrice(pricing[k].row)
PriceUnchanged(k) ==
    LET p == pricing[k].row IN HasPrice(p) /\ price[p].version = pricing[k].version

UpdatePrice(k) ==
    /\ pricing[k] # NotPricing /\ PriceUnchanged(k)
    /\ PriceIndexed(pricing[k].row, pricing[k].status)
    /\ LET p == pricing[k].row IN
       price' = [price EXCEPT ![p] = [price[p] EXCEPT !.status = pricing[k].status, !.version = @ + 1]]
    /\ Priced(k)
    /\ UNCHANGED <<list, assignments>>

DeletePrice(p) ==
    /\ HasPrice(p)
    /\ price' = [price EXCEPT ![p].status = "archived", ![p].deleted = TRUE, ![p].version = @ + 1]
    /\ UNCHANGED <<list, assignments, pricing>>

-----------------------------------------------------------------------------
(* PriceListService                                                          *)

CreateList(l) ==
    /\ list[l] = NoPrice
    /\ list' = [list EXCEPT ![l] = [status |-> "draft", isDefault |-> FALSE,
                                    deleted |-> FALSE, version |-> 1]]
    /\ UNCHANGED <<price, assignments, pricing>>

\* uq_price_lists_default_store_currency says the same of the write.
DefaultExists(l) == \E m \in ListIds \ {l} : HasList(m) /\ list[m].isDefault

\* Checked and written under one version; the row of a list is not the one
\* requests race for in this model.
UpdateList(l, status, default) ==
    /\ HasList(l) /\ list[l].version <= MaxPriceVersion
    /\ Forward(list[l].status, status)
    /\ default => status = "active" /\ GroupOf[l] = "public" /\ ~DefaultExists(l)
    /\ list' = [list EXCEPT ![l] = [list[l] EXCEPT !.status = status, !.isDefault = default,
                                                   !.version = @ + 1]]
    /\ UNCHANGED <<price, assignments, pricing>>

\* Its assignments stay: nobody can remove them any more.
DeleteList(l) ==
    /\ HasList(l)
    /\ list' = [list EXCEPT ![l].status = "archived", ![l].isDefault = FALSE,
                            ![l].deleted = TRUE, ![l].version = @ + 1]
    /\ UNCHANGED <<price, assignments, pricing>>

\* Once per list and price.  Whether the list or the price is deleted between
\* the checks and the INSERT or after it makes no difference.
AssignPrice(l, p) ==
    /\ HasList(l) /\ HasPrice(p) /\ <<l, p>> \notin assignments
    /\ assignments' = assignments \cup {<<l, p>>}
    /\ UNCHANGED <<price, list, pricing>>

UnassignPrice(l, p) ==
    /\ HasList(l) /\ <<l, p>> \in assignments
    /\ assignments' = assignments \ {<<l, p>>}
    /\ UNCHANGED <<price, list, pricing>>

-----------------------------------------------------------------------------
(* PricingResolver                                                           *)

Effective(period, t) ==
    /\ period[1] = NoBound \/ period[1] <= t
    /\ period[2] = NoBound \/ period[2] > t

Applies(p, v, t) ==
    /\ HasPrice(p) /\ price[p].status = "active"
    /\ VariantOf[p] \in {NoPrice, v} /\ Effective(PeriodOf[p], t)

Assigned(v, group, t) ==
    {a \in assignments :
        /\ Applies(a[2], v, t)
        /\ HasList(a[1]) /\ list[a[1]].status = "active" /\ Effective(ListPeriodOf[a[1]], t)
        /\ GroupOf[a[1]] \in {group, "public"}}

\* Not assigned to any list, deleted lists included.
Unassigned(v, t) == {p \in PriceIds : Applies(p, v, t) /\ \A l \in ListIds : <<l, p>> \notin assignments}

Least(S, Rank(_)) == {x \in S : \A y \in S : Rank(x) <= Rank(y)}

AnyRank(p, v) == 0
VariantRank(p, v) == IF VariantOf[p] = v THEN 0 ELSE 1
GroupRank(l, group) == IF GroupOf[l] = group THEN 0 ELSE 1

\* effective_from DESC NULLS LAST
RecencyRank(period) == IF period[1] = NoBound THEN 1 ELSE -period[1]

\* ORDER BY variant, group, priority DESC, effective_from and id of the list.
InOrder(S, v, group) ==
    LET ofVariant == Least(S, LAMBDA a : VariantRank(a[2], v))
        ofGroup == Least(ofVariant, LAMBDA a : GroupRank(a[1], group))
        highest == Least(ofGroup, LAMBDA a : -PriorityOf[a[1]])
        latest == Least(highest, LAMBDA a : RecencyRank(ListPeriodOf[a[1]]))
    IN  Least(latest, LAMBDA a : a[1])

\* ORDER BY variant, effective_from and id of the price.
UnassignedInOrder(S, v) ==
    LET ofVariant == Least(S, LAMBDA p : VariantRank(p, v))
        latest == Least(ofVariant, LAMBDA p : RecencyRank(PeriodOf[p]))
    IN  Least(latest, LAMBDA p : p)

\* The prices a request may get: one, several when one list holds several.
Resolve(v, group, t) ==
    IF Assigned(v, group, t) # {}
    THEN {a[2] : a \in InOrder(Assigned(v, group, t), v, group)}
    ELSE UnassignedInOrder(Unassigned(v, t), v)

PricesNext ==
    \/ \E k \in Clerks :
         \/ \E p \in PriceIds, s \in PriceStatuses : BeginUpdatePrice(k, p, s)
         \/ UpdatePrice(k) \/ AbandonPricing(k)
    \/ \E p \in PriceIds : CreatePrice(p) \/ DeletePrice(p)
    \/ \E l \in ListIds :
         \/ CreateList(l) \/ DeleteList(l)
         \/ \E s \in PriceStatuses, on \in BOOLEAN : UpdateList(l, s, on)
    \/ \E l \in ListIds, p \in PriceIds : AssignPrice(l, p) \/ UnassignPrice(l, p)

PricesSpec == PricesInit /\ [][PricesNext]_priceVars

-----------------------------------------------------------------------------
(* What one request decides never undoes what another has committed: a price
   or a list once active does not become a draft again, one once archived
   stays archived, however many requests change the row at once. *)
NeverBack ==
    [][/\ \A p \in PriceIds : price[p] # NoPrice => Forward(price[p].status, price'[p].status)
       /\ \A l \in ListIds : list[l] # NoPrice => Forward(list[l].status, list'[l].status)]_priceVars

Queries == {VariantOf[p] : p \in PriceIds} \X {GroupOf[l] : l \in ListIds} \X
           ({PeriodOf[p][1] : p \in PriceIds} \ {NoBound})

(* Whatever prices, lists and assignments there are, a resolved price is in
   force and no price in force is preferred to it: a price of a list to one
   without, then the variant's to the product's, then the group's list to the
   public one, then the list of higher priority. *)
ResolvedIsBest ==
    \A q \in Queries :
        LET v == q[1]
            choices == Assigned(v, q[2], q[3])
            Better(a, b) == \/ VariantOf[a[2]] = v /\ VariantOf[b[2]] # v
                            \/ /\ VariantOf[a[2]] = VariantOf[b[2]]
                               /\ GroupOf[a[1]] = q[2] /\ GroupOf[b[1]] # q[2]
                            \/ /\ VariantOf[a[2]] = VariantOf[b[2]]
                               /\ GroupOf[a[1]] = GroupOf[b[1]]
                               /\ PriorityOf[a[1]] > PriorityOf[b[1]]
        IN  \A p \in Resolve(v, q[2], q[3]) :
                /\ Applies(p, v, q[3])
                /\ choices # {} => \E b \in choices : b[2] = p /\ \A a \in choices : ~Better(a, b)
                /\ choices = {} => \A x \in Unassigned(v, q[3]) :
                                      VariantOf[x] = v => VariantOf[p] = v
=============================================================================

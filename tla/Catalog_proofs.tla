--------------------------- MODULE Catalog_proofs ---------------------------
(***************************************************************************)
(* Proofs about a store's catalog: which price a customer gets and how     *)
(* prices change, the signatures of the variants, imports, and the         *)
(* promotions and coupons that checkouts redeem.                           *)
(***************************************************************************)
EXTENDS Variants, Prices, Ingestion, Discounts, SumTheorems

-----------------------------------------------------------------------------
(* Prices                                                                    *)

RequestRow == [row : PriceIds, version : Nat, status : PriceStatuses]

PricesTyped ==
    /\ price \in [PriceIds -> PriceRow \cup {NoPrice}]
    /\ list \in [ListIds -> ListRow \cup {NoPrice}]
    /\ assignments \subseteq ListIds \X PriceIds
    /\ pricing \in [Clerks -> RequestRow \cup {NotPricing}]

(* What a request is about to write was decided on a version of its row that
   is not newer than the row; on the same version the status it read. *)
PriceDecided(k) ==
    pricing[k] # NotPricing =>
        LET p == pricing[k].row IN
        /\ price[p] # NoPrice /\ pricing[k].version <= price[p].version
        /\ pricing[k].version = price[p].version =>
               Forward(price[p].status, pricing[k].status)

PricesInv == PricesTyped /\ \A k \in Clerks : PriceDecided(k)

(* A change of a row that takes its next version leaves a row. *)
LEMMA PriceChanged ==
    ASSUME NEW row \in PriceRow, NEW s \in PriceStatuses
    PROVE  /\ [row EXCEPT !.status = s, !.version = @ + 1] \in PriceRow
           /\ [row EXCEPT !.status = s, !.version = @ + 1].status = s
           /\ [row EXCEPT !.status = s, !.version = @ + 1].version = row.version + 1
<1>1. row.version + 1 \in Nat
  BY DEF PriceRow
<1>2. ASSUME NEW n \in Nat PROVE [row EXCEPT !.status = s, !.version = n] \in PriceRow
  BY DEF PriceRow
<1>3. /\ [row EXCEPT !.status = s, !.version = @ + 1].status = s
      /\ [row EXCEPT !.status = s, !.version = @ + 1].version = row.version + 1
  BY DEF PriceRow
<1> QED BY <1>1, <1>2, <1>3

(* The same of a list. *)
LEMMA ListChanged ==
    ASSUME NEW row \in ListRow, NEW s \in PriceStatuses, NEW on \in BOOLEAN
    PROVE  /\ [row EXCEPT !.status = s, !.isDefault = on, !.version = @ + 1] \in ListRow
           /\ [row EXCEPT !.status = "archived", !.isDefault = FALSE, !.deleted = TRUE,
                          !.version = @ + 1] \in ListRow
<1>1. row.version + 1 \in Nat
  BY DEF ListRow
<1>2. ASSUME NEW n \in Nat PROVE [row EXCEPT !.status = s, !.isDefault = on, !.version = n] \in ListRow
  BY DEF ListRow
<1>3. ASSUME NEW n \in Nat
      PROVE  [row EXCEPT !.status = "archived", !.isDefault = FALSE, !.deleted = TRUE, !.version = n] \in ListRow
  BY DEF ListRow, PriceStatuses
<1> QED BY <1>1, <1>2, <1>3

THEOREM PricesInductive == PricesSpec => []PricesInv
<1>1. PricesInit => PricesInv
  BY DEF PricesInit, PricesInv, PricesTyped, PriceDecided, NotPricing
<1>2. PricesInv /\ [PricesNext]_priceVars => PricesInv'
  <2> SUFFICES ASSUME PricesInv, [PricesNext]_priceVars PROVE PricesInv'
    OBVIOUS
  <2> USE DEF PricesInv, PricesTyped, PriceRow, ListRow, PriceStatuses, RequestRow
  <2>1. ASSUME NEW k \in Clerks, NEW p \in PriceIds, NEW s \in PriceStatuses,
               BeginUpdatePrice(k, p, s)
        PROVE  PricesInv'
    <3>1. PICK q \in RequestRow : /\ q = [row |-> p, version |-> price[p].version, status |-> s]
                                  /\ pricing' = [pricing EXCEPT ![k] = q]
                                  /\ UNCHANGED <<price, list, assignments>>
                                  /\ HasPrice(p) /\ Forward(price[p].status, s)
      BY <2>1 DEF BeginUpdatePrice, Take, HasPrice
    <3>2. PricesTyped'
      BY <3>1
    <3>3. ASSUME NEW j \in Clerks PROVE PriceDecided(j)'
      <4>1. PriceDecided(j)
        OBVIOUS
      <4> QED BY <3>1, <4>1 DEF PriceDecided, HasPrice
    <3> QED BY <3>2, <3>3
  <2>2. ASSUME NEW k \in Clerks, UpdatePrice(k) PROVE PricesInv'
    <3>1. PICK q \in RequestRow : q = pricing[k]
      BY <2>2 DEF UpdatePrice
    <3>2. PICK row \in PriceRow : /\ row.status = q.status
                                  /\ row.version = price[q.row].version + 1
                                  /\ price' = [price EXCEPT ![q.row] = row]
      <4> HIDE DEF PriceRow
      <4> DEFINE new == [price[pricing[k].row] EXCEPT !.status = pricing[k].status, !.version = @ + 1]
      <4>1. price[pricing[k].row] \in PriceRow
        BY <2>2, <3>1 DEF UpdatePrice, PriceUnchanged, HasPrice
      <4>2. /\ new \in PriceRow /\ new.status = pricing[k].status
            /\ new.version = price[pricing[k].row].version + 1
        <5>1. pricing[k].status \in PriceStatuses
          BY <3>1
        <5> HIDE DEF new, PriceStatuses
        <5> QED BY <4>1, <5>1, PriceChanged DEF new
      <4>3. price' = [price EXCEPT ![pricing[k].row] = new]
        BY <2>2 DEF UpdatePrice
      <4> HIDE DEF new
      <4> QED BY <3>1, <4>2, <4>3
    <3>3. /\ pricing' = [pricing EXCEPT ![k] = NotPricing]
          /\ list' = list /\ assignments' = assignments
      BY <2>2 DEF UpdatePrice, Priced
    <3>4. PricesTyped'
      BY <3>1, <3>2, <3>3
    <3>5. ASSUME NEW j \in Clerks PROVE PriceDecided(j)'
      <4>1. PriceDecided(j)
        OBVIOUS
      <4>2. CASE j = k
        BY <3>3, <4>2 DEF PriceDecided
      <4>3. CASE j # k
        <5>1. pricing'[j] = pricing[j]
          BY <3>3, <4>3
        <5>2. CASE pricing[j] # NotPricing /\ pricing[j].row = q.row
          BY <3>1, <3>2, <4>1, <5>1, <5>2, PricesAssumption DEF PriceDecided
        <5>3. CASE pricing[j] # NotPricing /\ pricing[j].row # q.row
          <6>1. price'[pricing[j].row] = price[pricing[j].row]
            BY <3>2, <5>3
          <6> QED BY <4>1, <5>1, <5>3, <6>1 DEF PriceDecided
        <5> QED BY <5>1, <5>2, <5>3 DEF PriceDecided
      <4> QED BY <4>2, <4>3
    <3> QED BY <3>4, <3>5
  <2>3. ASSUME NEW k \in Clerks, AbandonPricing(k) PROVE PricesInv'
    BY <2>3 DEF AbandonPricing, Priced, PriceDecided, NotPricing
  <2>4. ASSUME NEW p \in PriceIds, CreatePrice(p) PROVE PricesInv'
    BY <2>4 DEF CreatePrice, PriceDecided
  <2>5. ASSUME NEW p \in PriceIds, DeletePrice(p) PROVE PricesInv'
    <3>1. PICK row \in PriceRow : /\ row.version = price[p].version + 1
                                  /\ price' = [price EXCEPT ![p] = row]
      BY <2>5 DEF DeletePrice, HasPrice
    <3> QED BY <2>5, <3>1 DEF DeletePrice, PriceDecided, HasPrice
  <2>6. ASSUME NEW l \in ListIds, CreateList(l) \/ DeleteList(l) PROVE PricesInv'
    <3>1. PICK row \in ListRow : list' = [list EXCEPT ![l] = row]
      <4> HIDE DEF ListRow
      <4>1. CASE CreateList(l)
        <5>1. [status |-> "draft", isDefault |-> FALSE, deleted |-> FALSE, version |-> 1] \in ListRow
          BY DEF ListRow
        <5> QED BY <4>1, <5>1 DEF CreateList
      <4>2. CASE DeleteList(l)
        <5> DEFINE new == [list[l] EXCEPT !.status = "archived", !.isDefault = FALSE,
                                          !.deleted = TRUE, !.version = @ + 1]
        <5>1. list[l] \in ListRow
          BY <4>2 DEF DeleteList, HasList
        <5>2. new \in ListRow
          BY <5>1, ListChanged
        <5>3. list' = [list EXCEPT ![l] = new]
          BY <4>2 DEF DeleteList
        <5> QED BY <5>2, <5>3
      <4> QED BY <2>6, <4>1, <4>2
    <3> QED BY <2>6, <3>1 DEF CreateList, DeleteList, PriceDecided
  <2>7. ASSUME NEW l \in ListIds, NEW s \in PriceStatuses, NEW on \in BOOLEAN, UpdateList(l, s, on)
        PROVE  PricesInv'
    <3>1. PICK row \in ListRow : list' = [list EXCEPT ![l] = row]
      <4> HIDE DEF ListRow
      <4> DEFINE new == [list[l] EXCEPT !.status = s, !.isDefault = on, !.version = @ + 1]
      <4>1. list[l] \in ListRow
        BY <2>7 DEF UpdateList, HasList
      <4>2. new \in ListRow
        BY <4>1, ListChanged
      <4>3. list' = [list EXCEPT ![l] = new]
        BY <2>7 DEF UpdateList
      <4> QED BY <4>2, <4>3
    <3> QED BY <2>7, <3>1 DEF UpdateList, PriceDecided
  <2>8. ASSUME NEW l \in ListIds, NEW p \in PriceIds, AssignPrice(l, p) \/ UnassignPrice(l, p)
        PROVE  PricesInv'
    BY <2>8 DEF AssignPrice, UnassignPrice, PriceDecided
  <2>9. CASE UNCHANGED priceVars
    BY <2>9 DEF priceVars, PriceDecided
  <2> QED BY <2>1, <2>2, <2>3, <2>4, <2>5, <2>6, <2>7, <2>8, <2>9 DEF PricesNext
<1> QED BY <1>1, <1>2, PTL DEF PricesSpec

(* A price or a list that was once active is no draft again, one archived is
   archived for good, however requests meet at a row: what a request writes
   follows the status it read, and the version says that status is still the
   one of the row. *)
THEOREM NeverBackHolds == PricesSpec => NeverBack
<1>1. PricesInv /\ [PricesNext]_priceVars =>
        [/\ \A p \in PriceIds : price[p] # NoPrice => Forward(price[p].status, price'[p].status)
         /\ \A l \in ListIds : list[l] # NoPrice => Forward(list[l].status, list'[l].status)]_priceVars
  <2> SUFFICES ASSUME PricesInv, PricesNext
               PROVE  /\ \A p \in PriceIds : price[p] # NoPrice =>
                             Forward(price[p].status, price'[p].status)
                      /\ \A l \in ListIds : list[l] # NoPrice =>
                             Forward(list[l].status, list'[l].status)
    OBVIOUS
  <2> USE DEF PricesInv, PricesTyped, PriceRow, ListRow, PriceStatuses, RequestRow
  <2>1. ASSUME NEW p \in PriceIds, price[p] # NoPrice PROVE Forward(price[p].status, price'[p].status)
    <3>1. ASSUME NEW k \in Clerks, UpdatePrice(k) PROVE Forward(price[p].status, price'[p].status)
      <4>1. PriceDecided(k)
        OBVIOUS
      <4>2. PICK q \in RequestRow : q = pricing[k]
        BY <3>1 DEF UpdatePrice
      <4>3. CASE p = q.row
        BY <2>1, <3>1, <4>1, <4>2, <4>3 DEF UpdatePrice, PriceDecided, PriceUnchanged
      <4>4. CASE p # q.row
        BY <3>1, <4>2, <4>4 DEF UpdatePrice, Forward
      <4> QED BY <4>3, <4>4
    <3>2. ASSUME NEW q \in PriceIds, DeletePrice(q) PROVE Forward(price[p].status, price'[p].status)
      BY <2>1, <3>2 DEF DeletePrice, Forward
    <3>3. ASSUME NEW q \in PriceIds, CreatePrice(q) PROVE Forward(price[p].status, price'[p].status)
      BY <2>1, <3>3 DEF CreatePrice, Forward
    <3>4. CASE UNCHANGED price
      BY <3>4 DEF Forward
    <3> QED BY <3>1, <3>2, <3>3, <3>4 DEF PricesNext, BeginUpdatePrice, AbandonPricing, CreateList,
               DeleteList, UpdateList, AssignPrice, UnassignPrice
  <2>2. ASSUME NEW l \in ListIds, list[l] # NoPrice PROVE Forward(list[l].status, list'[l].status)
    <3>1. ASSUME NEW m \in ListIds, NEW s \in PriceStatuses, NEW on \in BOOLEAN, UpdateList(m, s, on)
          PROVE  Forward(list[l].status, list'[l].status)
      BY <2>2, <3>1 DEF UpdateList, Forward
    <3>2. ASSUME NEW m \in ListIds, CreateList(m) \/ DeleteList(m)
          PROVE  Forward(list[l].status, list'[l].status)
      BY <2>2, <3>2 DEF CreateList, DeleteList, Forward
    <3>3. CASE UNCHANGED list
      BY <3>3 DEF Forward
    <3> QED BY <3>1, <3>2, <3>3 DEF PricesNext, BeginUpdatePrice, UpdatePrice, AbandonPricing,
               CreatePrice, DeletePrice, AssignPrice, UnassignPrice
  <2> QED BY <2>1, <2>2
<1> QED BY <1>1, PricesInductive, PTL DEF PricesSpec, NeverBack

(* The order of the resolver prefers no other price of a list to the one it
   takes, and among prices without a list none of the variant is passed over
   for one of the product. *)
THEOREM ResolvedIsBestHolds == PricesSpec => []ResolvedIsBest
<1>1. PricesInv => ResolvedIsBest
  <2> SUFFICES ASSUME PricesInv, NEW q \in Queries, NEW p \in Resolve(q[1], q[2], q[3])
               PROVE  LET v == q[1]
                          choices == Assigned(v, q[2], q[3])
                          Better(a, b) ==
                             \/ VariantOf[a[2]] = v /\ VariantOf[b[2]] # v
                             \/ /\ VariantOf[a[2]] = VariantOf[b[2]]
                                /\ GroupOf[a[1]] = q[2] /\ GroupOf[b[1]] # q[2]
                             \/ /\ VariantOf[a[2]] = VariantOf[b[2]]
                                /\ GroupOf[a[1]] = GroupOf[b[1]]
                                /\ PriorityOf[a[1]] > PriorityOf[b[1]]
                      IN  /\ Applies(p, v, q[3])
                          /\ choices # {} => \E b \in choices :
                                b[2] = p /\ \A a \in choices : ~Better(a, b)
                          /\ choices = {} => \A x \in Unassigned(v, q[3]) :
                                VariantOf[x] = v => VariantOf[p] = v
    BY DEF ResolvedIsBest
  <2> DEFINE v == q[1]
             choices == Assigned(v, q[2], q[3])
  <2>1. CASE choices # {}
    <3>1. PICK b \in InOrder(choices, v, q[2]) : p = b[2]
      BY <2>1 DEF Resolve
    <3> DEFINE ofVariant == {x \in choices : \A y \in choices : VariantRank(x[2], v) <= VariantRank(y[2], v)}
               ofGroup == {x \in ofVariant : \A y \in ofVariant : GroupRank(x[1], q[2]) <= GroupRank(y[1], q[2])}
               highest == {x \in ofGroup : \A y \in ofGroup : -PriorityOf[x[1]] <= -PriorityOf[y[1]]}
    <3>2. b \in highest
      BY <3>1 DEF InOrder, Least
    <3>3. b \in choices /\ choices \subseteq ListIds \X PriceIds
      BY <3>2 DEF PricesInv, PricesTyped, Assigned
    <3>4. Applies(p, v, q[3])
      BY <3>1, <3>3 DEF Assigned
    <3>5. ASSUME NEW a \in choices, VariantOf[a[2]] = v, VariantOf[b[2]] # v PROVE FALSE
      BY <3>2, <3>5 DEF VariantRank
    <3>6. ASSUME NEW a \in choices, VariantOf[a[2]] = VariantOf[b[2]] PROVE a \in ofVariant
      BY <3>2, <3>6 DEF VariantRank
    <3>7. ASSUME NEW a \in choices, VariantOf[a[2]] = VariantOf[b[2]],
                 GroupOf[a[1]] = q[2], GroupOf[b[1]] # q[2]
          PROVE  FALSE
      BY <3>2, <3>6, <3>7 DEF GroupRank
    <3>8. ASSUME NEW a \in choices, VariantOf[a[2]] = VariantOf[b[2]],
                 GroupOf[a[1]] = GroupOf[b[1]], PriorityOf[a[1]] > PriorityOf[b[1]]
          PROVE  FALSE
      <4>1. a \in ofGroup
        BY <3>2, <3>6, <3>8 DEF GroupRank
      <4>2. PriorityOf[a[1]] \in Int /\ PriorityOf[b[1]] \in Int
        BY <3>3, PricesAssumption
      <4>3. -PriorityOf[b[1]] <= -PriorityOf[a[1]]
        BY <3>2, <4>1
      <4> QED BY <3>8, <4>2, <4>3
    <3> QED BY <2>1, <3>1, <3>3, <3>4, <3>5, <3>7, <3>8
  <2>2. CASE choices = {}
    <3>1. p \in UnassignedInOrder(Unassigned(v, q[3]), v)
      BY <2>2 DEF Resolve
    <3>2. /\ p \in Unassigned(v, q[3])
          /\ \A y \in Unassigned(v, q[3]) : VariantRank(p, v) <= VariantRank(y, v)
      BY <3>1 DEF UnassignedInOrder, Least
    <3> QED BY <2>2, <3>2 DEF Unassigned, VariantRank
  <2> QED BY <2>1, <2>2
<1> QED BY <1>1, PricesInductive, PTL

-----------------------------------------------------------------------------
(* Variants                                                                  *)

\* Values a variant may have.
Fits(S) ==
    /\ S # {} /\ S \subseteq ValueIds
    /\ \A x, y \in S : AttributeOf[x] = AttributeOf[y] => x = y

VariantsTyped ==
    /\ variant \in [VariantIds -> VariantRow \cup {NoVariant}]
    /\ assigned \subseteq VariantIds \X ValueIds
    /\ DOMAIN styling = Stylists
    /\ \A v \in VariantIds : variant[v] # NoVariant <=> v < NextVariant
    /\ \A v \in VariantIds : ValuesOf(v) # {} => variant[v] # NoVariant

(* What a request is about to write fits; what it has computed from the values
   of a variant is still right as long as the variant has the version it read. *)
StylingDecided(r) ==
    LET q == styling[r] IN
    /\ q.op \in {"create", "update", "assign", "remove"} => Fits(q.values)
    /\ q.op \in {"update", "assign", "remove"} => q.variant \in VariantIds
    /\ q.op \in {"assign", "remove"} =>
         /\ q.value \in ValueIds /\ q.version \in Nat
         /\ variant[q.variant] # NoVariant /\ q.version <= variant[q.variant].version
         /\ q.version = variant[q.variant].version =>
              q.values = IF q.op = "assign" THEN ValuesOf(q.variant) \cup {q.value}
                         ELSE ValuesOf(q.variant) \ {q.value}

RightlySigned(v) == Lives(v) => variant[v].signature = ValuesOf(v) /\ Fits(ValuesOf(v))

VariantsInv ==
    /\ VariantsTyped
    /\ \A v \in VariantIds : RightlySigned(v)
    /\ \A r \in Stylists : StylingDecided(r)

(* A change of a row that takes its next version leaves a row. *)
LEMMA VariantChanged ==
    ASSUME NEW row \in VariantRow, NEW S \in SUBSET ValueIds
    PROVE  /\ [row EXCEPT !.signature = S, !.version = @ + 1] \in VariantRow
           /\ [row EXCEPT !.signature = S, !.version = @ + 1].signature = S
           /\ [row EXCEPT !.signature = S, !.version = @ + 1].deleted = row.deleted
           /\ [row EXCEPT !.signature = S, !.version = @ + 1].version = row.version + 1
           /\ [row EXCEPT !.deleted = TRUE, !.version = @ + 1] \in VariantRow
           /\ [row EXCEPT !.deleted = TRUE, !.version = @ + 1].deleted = TRUE
           /\ [row EXCEPT !.deleted = TRUE, !.version = @ + 1].version = row.version + 1
<1>1. row.version + 1 \in Nat
  BY DEF VariantRow
<1>2. ASSUME NEW n \in Nat
      PROVE  /\ [row EXCEPT !.signature = S, !.version = n] \in VariantRow
             /\ [row EXCEPT !.deleted = TRUE, !.version = n] \in VariantRow
  BY DEF VariantRow
<1>3. /\ [row EXCEPT !.signature = S, !.version = @ + 1].signature = S
      /\ [row EXCEPT !.signature = S, !.version = @ + 1].deleted = row.deleted
      /\ [row EXCEPT !.signature = S, !.version = @ + 1].version = row.version + 1
      /\ [row EXCEPT !.deleted = TRUE, !.version = @ + 1].deleted = TRUE
      /\ [row EXCEPT !.deleted = TRUE, !.version = @ + 1].version = row.version + 1
  BY DEF VariantRow
<1> QED BY <1>1, <1>2, <1>3

(* A change of the row of one variant, under the next version, and of the
   values of that variant alone keeps what requests have decided. *)
LEMMA OneVariantChanges ==
    ASSUME VariantsInv, NEW v \in VariantIds, variant[v] # NoVariant,
           NEW row \in VariantRow, row.version = variant[v].version + 1,
           variant' = [variant EXCEPT ![v] = row],
           NEW S \in SUBSET ValueIds,
           assigned' = {a \in assigned : a[1] # v} \cup ({v} \X S),
           row.deleted = TRUE \/ (row.signature = S /\ Fits(S)),
           DOMAIN styling' = Stylists,
           \A r \in Stylists : styling'[r] = styling[r] \/ styling'[r] = NotStyling
    PROVE  VariantsInv'
<1> USE DEF VariantsInv, VariantsTyped
<1>1. ValuesOf(v)' = S
  BY DEF ValuesOf
<1>2. \A w \in VariantIds : w # v => ValuesOf(w)' = ValuesOf(w)
  <2> TAKE w \in VariantIds
  <2> HAVE w # v
  <2>1. \A x \in ValueIds : <<w, x>> \in assigned' <=> <<w, x>> \in assigned
    OBVIOUS
  <2> QED BY <2>1 DEF ValuesOf
<1>3. row # NoVariant /\ variant'[v] = row /\ \A w \in VariantIds : w # v => variant'[w] = variant[w]
  BY VariantsAssumption
<1>4. NextVariant' = NextVariant
  <2>1. \A w \in VariantIds : variant'[w] # NoVariant <=> variant[w] # NoVariant
    BY <1>3
  <2>2. {w \in VariantIds : variant'[w] # NoVariant} = {w \in VariantIds : variant[w] # NoVariant}
    BY <2>1
  <2> QED BY <2>2 DEF NextVariant
<1>5. VariantsTyped'
  <2>1. variant' \in [VariantIds -> VariantRow \cup {NoVariant}]
    OBVIOUS
  <2>2. assigned' \subseteq VariantIds \X ValueIds
    OBVIOUS
  <2>3. \A w \in VariantIds : variant'[w] # NoVariant <=> w < NextVariant'
    BY <1>3, <1>4
  <2>4. \A w \in VariantIds : ValuesOf(w)' # {} => variant'[w] # NoVariant
    BY <1>2, <1>3
  <2> QED BY <2>1, <2>2, <2>3, <2>4
<1>6. ASSUME NEW w \in VariantIds PROVE RightlySigned(w)'
  <2>1. RightlySigned(w)
    OBVIOUS
  <2>2. CASE w = v
    BY <1>1, <1>3, <2>2 DEF RightlySigned, Lives, Fits
  <2>3. CASE w # v
    BY <1>2, <1>3, <2>1, <2>3 DEF RightlySigned, Lives, Fits
  <2> QED BY <2>2, <2>3
<1>7. ASSUME NEW r \in Stylists PROVE StylingDecided(r)'
  <2>1. StylingDecided(r)
    OBVIOUS
  <2>2. CASE styling'[r] = NotStyling
    BY <2>2 DEF StylingDecided, NotStyling
  <2>3. CASE styling'[r] = styling[r] /\ styling[r].op \in {"assign", "remove"}
    <3>1. PICK w \in VariantIds : w = styling[r].variant
      BY <2>1, <2>3 DEF StylingDecided
    <3>2. CASE w = v
      <4>1. variant[v].version \in Nat
        BY DEF VariantRow
      <4>2. styling[r].version \in Nat /\ styling[r].version < variant'[v].version
        BY <1>3, <2>1, <2>3, <3>1, <3>2, <4>1 DEF StylingDecided
      <4> QED BY <1>3, <2>1, <2>3, <3>1, <3>2, <4>1, <4>2 DEF StylingDecided, Fits
    <3>3. CASE w # v
      <4>1. ValuesOf(w)' = ValuesOf(w) /\ variant'[w] = variant[w]
        BY <1>2, <1>3, <3>3
      <4> QED BY <2>1, <2>3, <3>1, <4>1 DEF StylingDecided, Fits, ValuesOf
    <3> QED BY <3>2, <3>3
  <2>4. CASE styling'[r] = styling[r] /\ styling[r].op \notin {"assign", "remove"}
    BY <2>1, <2>4 DEF StylingDecided, Fits
  <2> QED BY <2>2, <2>3, <2>4
<1> QED BY <1>5, <1>6, <1>7

(* A request that has read or is done leaves the variants alone. *)
LEMMA OnlyStylingChanges ==
    ASSUME VariantsInv, NEW r \in Stylists, NEW q,
           UNCHANGED <<variant, assigned>>,
           styling' = [styling EXCEPT ![r] = q],
           /\ q.op \in {"create", "update", "assign", "remove"} => Fits(q.values)
           /\ q.op \in {"update", "assign", "remove"} => q.variant \in VariantIds
           /\ q.op \in {"assign", "remove"} =>
                /\ q.value \in ValueIds /\ q.version \in Nat
                /\ variant[q.variant] # NoVariant /\ q.version <= variant[q.variant].version
                /\ q.version = variant[q.variant].version =>
                     q.values = IF q.op = "assign" THEN ValuesOf(q.variant) \cup {q.value}
                                ELSE ValuesOf(q.variant) \ {q.value}
    PROVE  VariantsInv'
<1> USE DEF VariantsInv, VariantsTyped
<1>1. VariantsTyped'
  BY DEF NextVariant, ValuesOf
<1>2. ASSUME NEW v \in VariantIds PROVE RightlySigned(v)'
  <2>1. RightlySigned(v)
    OBVIOUS
  <2> QED BY <2>1 DEF RightlySigned, Lives, ValuesOf, Fits
<1>3. ASSUME NEW s \in Stylists PROVE StylingDecided(s)'
  <2>1. StylingDecided(s)
    OBVIOUS
  <2>2. CASE s = r
    BY <2>2 DEF StylingDecided, ValuesOf, Fits
  <2>3. CASE s # r
    BY <2>1, <2>3 DEF StylingDecided, ValuesOf, Fits
  <2> QED BY <2>2, <2>3
<1> QED BY <1>1, <1>2, <1>3

(* A new variant takes the next row, which has no values. *)
LEMMA VariantAdded ==
    ASSUME VariantsInv, NEW r \in Stylists, NextVariant \in VariantIds,
           NEW S \in SUBSET ValueIds, Fits(S),
           variant' = [variant EXCEPT ![NextVariant] =
                         [signature |-> S, deleted |-> FALSE, version |-> 1]],
           assigned' = assigned \cup ({NextVariant} \X S),
           styling' = [styling EXCEPT ![r] = NotStyling]
    PROVE  VariantsInv'
<1> USE DEF VariantsInv, VariantsTyped
<1>1. PICK n \in VariantIds : n = NextVariant
  OBVIOUS
<1>2. n \in Nat /\ n # 0 /\ variant[n] = NoVariant
  BY <1>1, VariantsAssumption
<1>3. PICK row \in VariantRow : /\ row.signature = S /\ variant' = [variant EXCEPT ![n] = row]
  <2>1. [signature |-> S, deleted |-> FALSE, version |-> 1] \in VariantRow
    BY DEF VariantRow
  <2> QED BY <1>1, <2>1
<1>4. row # NoVariant
  BY <1>3, VariantsAssumption
<1>5. NextVariant' = n + 1
  <2> DEFINE E == {v \in VariantIds : variant[v] # NoVariant}
  <2>1. {v \in VariantIds : variant'[v] # NoVariant} = E \cup {n}
    BY <1>3, <1>4
  <2>2. IsFiniteSet(E) /\ n \notin E
    <3>1. E \subseteq VariantIds
      OBVIOUS
    <3>2. IsFiniteSet(E)
      BY <3>1, FS_Subset, VariantsAssumption
    <3> QED BY <1>2, <3>2
  <2>3. Cardinality(E \cup {n}) = Cardinality(E) + 1
    BY <2>2, FS_AddElement
  <2>4. Cardinality(E) \in Nat
    BY <2>2, FS_CardinalityType
  <2> QED BY <1>1, <2>1, <2>3, <2>4 DEF NextVariant
<1>6. ValuesOf(n)' = S /\ \A w \in VariantIds : w # n => ValuesOf(w)' = ValuesOf(w)
  <2>1. ValuesOf(n) = {}
    BY <1>2
  <2>2. ValuesOf(n)' = S
    BY <1>1, <2>1 DEF ValuesOf
  <2>3. ASSUME NEW w \in VariantIds, w # n PROVE ValuesOf(w)' = ValuesOf(w)
    <3>1. \A x \in ValueIds : <<w, x>> \in assigned' <=> <<w, x>> \in assigned
      BY <1>1, <2>3
    <3> QED BY <3>1 DEF ValuesOf
  <2> QED BY <2>2, <2>3
<1>7. VariantsTyped'
  <2>1. \A v \in VariantIds : variant'[v] # NoVariant <=> v < NextVariant'
    <3> TAKE v \in VariantIds
    <3>1. v \in Nat
      BY VariantsAssumption
    <3>2. variant[v] # NoVariant <=> v < n
      BY <1>1
    <3>3. CASE v = n
      <4>1. variant'[n] = row
        BY <1>3
      <4>2. n < n + 1
        BY <1>2
      <4> QED BY <1>4, <1>5, <3>3, <4>1, <4>2
    <3>4. CASE v # n
      <4>1. variant'[v] = variant[v]
        BY <1>3, <3>4
      <4> QED BY <1>2, <1>5, <3>1, <3>2, <3>4, <4>1
    <3> QED BY <3>3, <3>4
  <2>2. \A v \in VariantIds : ValuesOf(v)' # {} => variant'[v] # NoVariant
    BY <1>3, <1>4, <1>6
  <2>3. variant' \in [VariantIds -> VariantRow \cup {NoVariant}]
    BY <1>3
  <2>4. assigned' \subseteq VariantIds \X ValueIds /\ DOMAIN styling' = Stylists
    OBVIOUS
  <2> QED BY <2>1, <2>2, <2>3, <2>4
<1>8. ASSUME NEW w \in VariantIds PROVE RightlySigned(w)'
  <2>1. RightlySigned(w)
    OBVIOUS
  <2> QED BY <1>3, <1>6, <2>1 DEF RightlySigned, Lives, Fits
<1>9. ASSUME NEW s \in Stylists PROVE StylingDecided(s)'
  <2>1. StylingDecided(s)
    OBVIOUS
  <2>2. CASE s = r
    BY <2>2 DEF StylingDecided, NotStyling
  <2>3. CASE s # r /\ styling[s].op \in {"assign", "remove"}
    <3>1. PICK w \in VariantIds : w = styling[s].variant
      BY <2>1, <2>3 DEF StylingDecided
    <3>2. w # n
      BY <1>2, <2>1, <2>3, <3>1 DEF StylingDecided
    <3>3. ValuesOf(w)' = ValuesOf(w) /\ variant'[w] = variant[w] /\ styling'[s] = styling[s]
      BY <1>3, <1>6, <2>3, <3>2
    <3> QED BY <2>1, <2>3, <3>1, <3>3 DEF StylingDecided, Fits, ValuesOf
  <2>4. CASE s # r /\ styling[s].op \notin {"assign", "remove"}
    BY <2>1, <2>4 DEF StylingDecided, Fits
  <2> QED BY <2>2, <2>3, <2>4
<1> QED BY <1>7, <1>8, <1>9

(* A change of what is offered leaves the variants alone. *)
LEMMA OnlyValuesChange ==
    ASSUME VariantsInv, UNCHANGED <<variant, assigned, styling>>
    PROVE  VariantsInv'
<1> USE DEF VariantsInv, VariantsTyped
<1>1. VariantsTyped'
  BY DEF NextVariant, ValuesOf
<1>2. ASSUME NEW v \in VariantIds PROVE RightlySigned(v)'
  <2>1. RightlySigned(v)
    OBVIOUS
  <2> QED BY <2>1 DEF RightlySigned, Lives, ValuesOf, Fits
<1>3. ASSUME NEW s \in Stylists PROVE StylingDecided(s)'
  <2>1. StylingDecided(s)
    OBVIOUS
  <2> QED BY <2>1 DEF StylingDecided, ValuesOf, Fits
<1> QED BY <1>1, <1>2, <1>3

LEMMA VariantsStep == VariantsInv /\ [VariantsNext]_variantVars => VariantsInv'
<1> SUFFICES ASSUME VariantsInv, [VariantsNext]_variantVars PROVE VariantsInv'
  OBVIOUS
<1>a. /\ variant \in [VariantIds -> VariantRow \cup {NoVariant}]
      /\ assigned \subseteq VariantIds \X ValueIds /\ DOMAIN styling = Stylists
      /\ \A v \in VariantIds : RightlySigned(v)
      /\ \A r \in Stylists : StylingDecided(r)
  BY DEF VariantsInv, VariantsTyped
<1>1. ASSUME NEW r \in Stylists, NEW S \in SUBSET ValueIds, BeginCreateVariant(r, S)
      PROVE  VariantsInv'
  <2> DEFINE q == [op |-> "create", values |-> S]
  <2>1. Fits(S)
    BY <1>1 DEF BeginCreateVariant, Resolvable, Fits
  <2>2. styling' = [styling EXCEPT ![r] = q] /\ UNCHANGED <<variant, assigned>>
    BY <1>1 DEF BeginCreateVariant, Style, OnlyStyling
  <2> QED BY <2>1, <2>2, OnlyStylingChanges
<1>2. ASSUME NEW r \in Stylists, NEW v \in VariantIds, NEW S \in SUBSET ValueIds,
             BeginUpdateVariant(r, v, S)
      PROVE  VariantsInv'
  <2> DEFINE q == [op |-> "update", variant |-> v, version |-> variant[v].version, values |-> S]
  <2>1. Fits(S)
    BY <1>a, <1>2 DEF BeginUpdateVariant, Resolvable, Fits, RightlySigned
  <2>2. styling' = [styling EXCEPT ![r] = q] /\ UNCHANGED <<variant, assigned>>
    BY <1>2 DEF BeginUpdateVariant, Style, OnlyStyling
  <2> QED BY <2>1, <2>2, OnlyStylingChanges
<1>3. ASSUME NEW r \in Stylists, NEW v \in VariantIds, NEW x \in ValueIds, BeginAssignValue(r, v, x)
      PROVE  VariantsInv'
  <2> DEFINE q == [op |-> "assign", variant |-> v, version |-> variant[v].version,
                   value |-> x, values |-> ValuesOf(v) \cup {x}]
  <2>1. variant[v] # NoVariant /\ variant[v].version \in Nat
    BY <1>a, <1>3 DEF BeginAssignValue, Lives, VariantRow
  <2>2. Fits(ValuesOf(v) \cup {x})
    BY <1>a, <1>3 DEF BeginAssignValue, Fits, RightlySigned
  <2>3. styling' = [styling EXCEPT ![r] = q] /\ UNCHANGED <<variant, assigned>>
    BY <1>3 DEF BeginAssignValue, Style, OnlyStyling
  <2>4. /\ q.op = "assign" /\ q.variant = v /\ q.value = x /\ q.version = variant[v].version
        /\ q.values = ValuesOf(v) \cup {x}
    OBVIOUS
  <2> HIDE DEF q
  <2>5. /\ q.op \in {"create", "update", "assign", "remove"} => Fits(q.values)
        /\ q.op \in {"update", "assign", "remove"} => q.variant \in VariantIds
    BY <2>2, <2>4
  <2>6. /\ q.value \in ValueIds /\ q.version \in Nat
        /\ variant[q.variant] # NoVariant /\ q.version <= variant[q.variant].version
        /\ q.values = IF q.op = "assign" THEN ValuesOf(q.variant) \cup {q.value}
                      ELSE ValuesOf(q.variant) \ {q.value}
    BY <2>1, <2>4
  <2> QED BY <2>3, <2>5, <2>6, OnlyStylingChanges
<1>4. ASSUME NEW r \in Stylists, NEW v \in VariantIds, NEW x \in ValueIds, BeginRemoveValue(r, v, x)
      PROVE  VariantsInv'
  <2> DEFINE q == [op |-> "remove", variant |-> v, version |-> variant[v].version,
                   value |-> x, values |-> ValuesOf(v) \ {x}]
  <2>1. variant[v] # NoVariant /\ variant[v].version \in Nat
    BY <1>a, <1>4 DEF BeginRemoveValue, Lives, VariantRow
  <2>2. Fits(ValuesOf(v) \ {x})
    BY <1>a, <1>4 DEF BeginRemoveValue, Fits, RightlySigned
  <2>3. styling' = [styling EXCEPT ![r] = q] /\ UNCHANGED <<variant, assigned>>
    BY <1>4 DEF BeginRemoveValue, Style, OnlyStyling
  <2>4. /\ q.op = "remove" /\ q.variant = v /\ q.value = x /\ q.version = variant[v].version
        /\ q.values = ValuesOf(v) \ {x}
    OBVIOUS
  <2> HIDE DEF q
  <2>5. /\ q.op \in {"create", "update", "assign", "remove"} => Fits(q.values)
        /\ q.op \in {"update", "assign", "remove"} => q.variant \in VariantIds
    BY <2>2, <2>4
  <2>6. /\ q.value \in ValueIds /\ q.version \in Nat
        /\ variant[q.variant] # NoVariant /\ q.version <= variant[q.variant].version
        /\ q.values = IF q.op = "assign" THEN ValuesOf(q.variant) \cup {q.value}
                      ELSE ValuesOf(q.variant) \ {q.value}
    BY <2>1, <2>4
  <2> QED BY <2>3, <2>5, <2>6, OnlyStylingChanges
<1>5. ASSUME NEW r \in Stylists, NEW x \in ValueIds, BeginCreateValue(r, x) PROVE VariantsInv'
  <2> DEFINE q == [op |-> "value", value |-> x]
  <2>1. styling' = [styling EXCEPT ![r] = q] /\ UNCHANGED <<variant, assigned>>
    BY <1>5 DEF BeginCreateValue, Style, OnlyStyling
  <2> QED BY <2>1, OnlyStylingChanges
<1>6. ASSUME NEW r \in Stylists, AbandonStyling(r) \/ CreateValue(r) PROVE VariantsInv'
  <2>1. styling' = [styling EXCEPT ![r] = NotStyling] /\ UNCHANGED <<variant, assigned>>
    BY <1>6 DEF AbandonStyling, CreateValue, StyleDone
  <2>2. NotStyling.op = "none"
    BY DEF NotStyling
  <2> QED BY <2>1, <2>2, OnlyStylingChanges
<1>7. ASSUME NEW r \in Stylists, CreateVariant(r) PROVE VariantsInv'
  <2>1. Fits(styling[r].values)
    BY <1>a, <1>7 DEF CreateVariant, StylingDecided
  <2>2. PICK S \in SUBSET ValueIds : S = styling[r].values
    BY <2>1 DEF Fits
  <2>3. /\ NextVariant \in VariantIds
        /\ variant' = [variant EXCEPT ![NextVariant] =
                         [signature |-> S, deleted |-> FALSE, version |-> 1]]
        /\ assigned' = assigned \cup ({NextVariant} \X S)
        /\ styling' = [styling EXCEPT ![r] = NotStyling]
    BY <1>7, <2>2 DEF CreateVariant, StyleDone
  <2> QED BY <2>1, <2>2, <2>3, VariantAdded
<1>8. ASSUME NEW r \in Stylists, UpdateVariant(r) \/ AssignValue(r) \/ RemoveValue(r)
      PROVE  VariantsInv'
  <2>1. PICK v \in VariantIds : v = styling[r].variant
    BY <1>a, <1>8 DEF UpdateVariant, AssignValue, RemoveValue, StylingDecided
  <2>2. Fits(styling[r].values)
    BY <1>a, <1>8 DEF UpdateVariant, AssignValue, RemoveValue, StylingDecided
  <2>3. PICK S \in SUBSET ValueIds : S = styling[r].values /\ Fits(S)
    BY <2>2 DEF Fits
  <2>4. Lives(v) /\ variant[v].version = styling[r].version
    BY <1>8, <2>1 DEF UpdateVariant, AssignValue, RemoveValue, SameVersion
  <2>5. variant[v] \in VariantRow
    BY <1>a, <2>4 DEF Lives
  <2> DEFINE row == [variant[v] EXCEPT !.signature = S, !.version = @ + 1]
  <2>6. row \in VariantRow /\ row.version = variant[v].version + 1 /\ row.signature = S
    BY <2>5, VariantChanged
  <2>7. variant' = [variant EXCEPT ![v] = row]
    BY <1>8, <2>1, <2>3 DEF UpdateVariant, AssignValue, RemoveValue, Rewrite
  <2>8. assigned' = {a \in assigned : a[1] # v} \cup ({v} \X S)
    <3>1. CASE UpdateVariant(r)
      BY <2>1, <2>3, <3>1 DEF UpdateVariant
    <3>2. CASE AssignValue(r)
      <4>1. styling[r].op = "assign" /\ assigned' = assigned \cup {<<v, styling[r].value>>}
        BY <2>1, <3>2 DEF AssignValue
      <4>2. S = ValuesOf(v) \cup {styling[r].value} /\ styling[r].value \in ValueIds
        BY <1>a, <2>1, <2>3, <2>4, <4>1 DEF StylingDecided
      <4> QED BY <1>a, <4>1, <4>2 DEF ValuesOf
    <3>3. CASE RemoveValue(r)
      <4>1. styling[r].op = "remove" /\ assigned' = assigned \ {<<v, styling[r].value>>}
        BY <2>1, <3>3 DEF RemoveValue
      <4>2. S = ValuesOf(v) \ {styling[r].value} /\ styling[r].value \in ValueIds
        BY <1>a, <2>1, <2>3, <2>4, <4>1 DEF StylingDecided
      <4> QED BY <1>a, <4>1, <4>2 DEF ValuesOf
    <3> QED BY <1>8, <3>1, <3>2, <3>3
  <2>9. styling' = [styling EXCEPT ![r] = NotStyling]
    BY <1>8 DEF UpdateVariant, AssignValue, RemoveValue, StyleDone
  <2> HIDE DEF row
  <2> QED BY <1>a, <2>3, <2>4, <2>6, <2>7, <2>8, <2>9, OneVariantChanges DEF Lives
<1>9. ASSUME NEW v \in VariantIds, DeleteVariant(v) PROVE VariantsInv'
  <2>1. variant[v] \in VariantRow /\ variant[v] # NoVariant
    BY <1>a, <1>9 DEF DeleteVariant, Lives
  <2> DEFINE row == [variant[v] EXCEPT !.deleted = TRUE, !.version = @ + 1]
             S == ValuesOf(v)
  <2>2. row \in VariantRow /\ row.version = variant[v].version + 1 /\ row.deleted = TRUE
    BY <2>1, VariantChanged
  <2>3. variant' = [variant EXCEPT ![v] = row]
    BY <1>9 DEF DeleteVariant
  <2>4. S \in SUBSET ValueIds /\ assigned' = {a \in assigned : a[1] # v} \cup ({v} \X S)
    BY <1>a, <1>9 DEF DeleteVariant, ValuesOf
  <2>5. styling' = styling
    BY <1>9 DEF DeleteVariant
  <2>6. DOMAIN styling' = Stylists /\ \A r \in Stylists : styling'[r] = styling[r]
    BY <1>a, <2>5
  <2> HIDE DEF row, S
  <2> QED BY <2>1, <2>2, <2>3, <2>4, <2>6, OneVariantChanges
<1>10. ASSUME UNCHANGED <<variant, assigned, styling>> PROVE VariantsInv'
  BY <1>10, OnlyValuesChange
<1> QED
  BY <1>1, <1>2, <1>3, <1>4, <1>5, <1>6, <1>7, <1>8, <1>9, <1>10
  DEF VariantsNext, ArchiveAttribute, DeleteValue, variantVars

THEOREM VariantsInductive == VariantsSpec => []VariantsInv
<1>1. VariantsInit => VariantsInv
  <2> SUFFICES ASSUME VariantsInit PROVE VariantsInv
    OBVIOUS
  <2>1. NextVariant = 1
    <3>1. {v \in VariantIds : variant[v] # NoVariant} = {}
      BY DEF VariantsInit
    <3> QED BY <3>1, FS_EmptySet DEF NextVariant
  <2>2. \A v \in VariantIds : ~(v < 1)
    BY VariantsAssumption
  <2>3. \A v \in VariantIds : ValuesOf(v) = {}
    BY DEF VariantsInit, ValuesOf
  <2> QED BY <2>1, <2>2, <2>3 DEF VariantsInit, VariantsInv, VariantsTyped, RightlySigned, Lives,
               StylingDecided, NotStyling
<1> QED BY <1>1, VariantsStep, PTL DEF VariantsSpec

(* The signature of a variant is the one of its values whichever requests meet
   at it: what a request computed from the values it read is written only while
   the variant has the version of those values. *)
THEOREM SignatureExactHolds == VariantsSpec => []SignatureExact
<1>1. VariantsInv => SignatureExact
  BY DEF VariantsInv, RightlySigned, SignatureExact, Fits
<1> QED BY <1>1, VariantsInductive, PTL

-----------------------------------------------------------------------------
(* Imports                                                                   *)

\* The place of a part of a row in the work of a commit.
Place == [product |-> 1, variant |-> 2, price |-> 3, stock |-> 4]
Position(n, kind) == 5 * (n - 1) + Place[kind]

(* A preview names one row of the catalog for each kind, and rows of a file
   about one product were shown the same of it. *)
GoodPlan(s, plan) ==
    /\ DOMAIN plan = DOMAIN RowsOf[s]
    /\ \A n \in DOMAIN plan : \A kind \in Kinds :
         /\ plan[n][kind].version \in Nat /\ plan[n][kind].key \in Keys
         /\ \E m \in 1..2 : plan[n][kind].key = Key(kind, RowsOf[s][n].variant, m)
    /\ \A m, n \in DOMAIN plan :
         ProductOf[RowsOf[s][m].variant] = ProductOf[RowsOf[s][n].variant] =>
            plan[m]["product"] = plan[n]["product"]

ImportGood(i) ==
    /\ DOMAIN imports[i] = {"status", "sheet", "staged", "plan"}
    /\ imports[i].sheet \in Sheets \cup {NoSheet}
    /\ imports[i].status = "validated" =>
         imports[i].sheet \in Sheets /\ GoodPlan(imports[i].sheet, imports[i].plan)

Passed(i, n, kind) == n \in DOMAIN Rows(i) /\ Position(n, kind) < work[i].at

RowDone(i, n, kind) ==
    \E m \in 1..2 : LET e == Key(kind, Rows(i)[n].variant, m) IN
        e \in DOMAIN work[i].draft /\ work[i].draft[e].value = Says(Rows(i)[n], kind)

\* The version in the catalog is the one the preview has seen.
SeenBy(i, e) ==
    \E n \in DOMAIN imports[i].plan : \E kind \in Kinds :
        /\ imports[i].plan[n][kind].key = e
        /\ imports[i].plan[n][kind].version = catalog[e].version

PassedBy(i, e) ==
    \E n \in DOMAIN Rows(i) : \E kind \in Kinds : \E m \in 1..2 :
        Passed(i, n, kind) /\ e = Key(kind, Rows(i)[n].variant, m)

(* A row of a draft is what the file says, of a part the commit has passed,
   and was written over the version the preview has seen. *)
DraftRow(i, e) ==
    LET row == work[i].draft[e] IN
    /\ e \in Keys /\ row \in EntryRow /\ row.by = i /\ row.deleted = FALSE
    /\ IF catalog[e] = NoRow THEN row.version = 1 ELSE SeenBy(i, e)
    /\ PassedBy(i, e)

WorkGood(i) ==
    /\ work[i].at \in Nat
    /\ work[i].at = 0 /\ work[i] # NotOpen => work[i].sheet \in Sheets /\ imports[i].status # "none"
    /\ Committing(i) =>
         /\ imports[i].status = "validated"
         /\ \A e \in DOMAIN work[i].draft : DraftRow(i, e)
         /\ \A n \in DOMAIN Rows(i) : \A kind \in Kinds :
              Passed(i, n, kind) /\ <<n, kind>> \in Asked(i) => RowDone(i, n, kind)

\* No row is in the drafts of two commits.
Apart(i, j) ==
    Committing(i) /\ Committing(j) => DOMAIN work[i].draft \cap DOMAIN work[j].draft = {}

IngestionInv ==
    /\ DOMAIN imports = Imports /\ DOMAIN work = Imports
    /\ catalog \in [Keys -> EntryRow \cup {NoRow}]
    /\ \A i \in Imports : ImportGood(i) /\ WorkGood(i)
    /\ \A i, j \in Imports : i # j => Apart(i, j)

-----------------------------------------------------------------------------

(* The step a commit is at is the part of the row with that position. *)
LEMMA PositionIs ==
    ASSUME NEW at \in Nat, at > 0, NEW n \in Nat, n > 0, NEW kind \in Kinds
    PROVE  Position(n, kind) = at <=>
              n = 1 + ((at - 1) \div 5) /\ kind = Parts[1 + ((at - 1) % 5)]
<1>1. PICK k \in 1..4 : k = Place[kind] /\ kind = Parts[k]
  BY DEF Kinds, Place, Parts
<1>2. PICK d \in Nat : d = (at - 1) \div 5
  OBVIOUS
<1>3. PICK r \in 0..4 : r = (at - 1) % 5
  OBVIOUS
<1>4. at - 1 = 5 * d + r
  BY <1>2, <1>3
<1>5. kind = Parts[1 + r] <=> k = 1 + r
  BY <1>1 DEF Parts
<1>6. Position(n, kind) = 5 * (n - 1) + k
  BY <1>1 DEF Position
<1>7. 5 * (n - 1) + k = at <=> n = 1 + d /\ k = 1 + r
  BY <1>4
<1> QED BY <1>2, <1>3, <1>5, <1>6, <1>7

(* What another import does, or the owner, leaves an import as it is as long as
   the rows of its draft are untouched in the catalog. *)
LEMMA Untouched ==
    ASSUME NEW j \in Imports, ImportGood(j), WorkGood(j),
           imports'[j] = imports[j], work'[j] = work[j],
           Committing(j) => \A e \in DOMAIN work[j].draft : catalog'[e] = catalog[e]
    PROVE  ImportGood(j)' /\ WorkGood(j)'
<1>1. ImportGood(j)'
  BY DEF ImportGood
<1>2. CASE ~Committing(j)
  BY <1>1, <1>2 DEF WorkGood, Committing
<1>3. CASE Committing(j)
  <2>1. \A e \in DOMAIN work[j].draft : DraftRow(j, e)'
    <3> TAKE e \in DOMAIN work[j].draft
    <3>1. DraftRow(j, e) /\ catalog'[e] = catalog[e]
      BY <1>3 DEF WorkGood
    <3> QED BY <3>1 DEF DraftRow, SeenBy, PassedBy, Passed, Rows
  <2>a. \A e \in DOMAIN work'[j].draft : DraftRow(j, e)'
    BY <2>1
  <2>2. ASSUME NEW n \in DOMAIN Rows(j), NEW kind \in Kinds,
               Passed(j, n, kind), <<n, kind>> \in Asked(j)
        PROVE  RowDone(j, n, kind)'
    <3>1. RowDone(j, n, kind)
      BY <1>3, <2>2 DEF WorkGood
    <3> QED BY <3>1 DEF RowDone, Rows
  <2>3. \A n \in DOMAIN Rows(j)' : \A kind \in Kinds :
           Passed(j, n, kind)' /\ <<n, kind>> \in Asked(j)' => RowDone(j, n, kind)'
    BY <2>2 DEF Passed, Asked, Rows
  <2> HIDE DEF DraftRow, Passed, RowDone, Asked
  <2> QED BY <1>1, <1>3, <2>a, <2>3 DEF WorkGood, Committing
<1> QED BY <1>1, <1>2, <1>3

(* A step of one import keeps the invariant if it keeps its own part of it and
   the rows other commits have written. *)
LEMMA OneImport ==
    ASSUME IngestionInv, NEW i \in Imports, NEW w,
           DOMAIN imports' = Imports, DOMAIN work' = Imports, work'[i] = w,
           \A j \in Imports : j # i => imports'[j] = imports[j] /\ work'[j] = work[j],
           catalog' \in [Keys -> EntryRow \cup {NoRow}],
           ImportGood(i)', WorkGood(i)',
           \A j \in Imports : j # i /\ Committing(j) =>
              \A e \in DOMAIN work[j].draft :
                 catalog'[e] = catalog[e] /\ ((w.at > 0) => e \notin DOMAIN w.draft)
    PROVE  IngestionInv'
<1> USE DEF IngestionInv
<1>1. ASSUME NEW j \in Imports PROVE ImportGood(j)' /\ WorkGood(j)'
  <2>1. CASE j # i
    <3>1. imports'[j] = imports[j] /\ work'[j] = work[j]
      BY <2>1
    <3> QED BY <2>1, <3>1, Untouched
  <2> QED BY <2>1
<1>2. ASSUME NEW j \in Imports, NEW k \in Imports, j # k PROVE Apart(j, k)'
  <2>1. CASE j # i /\ k # i
    <3>1. Apart(j, k) /\ work'[j] = work[j] /\ work'[k] = work[k]
      BY <1>2, <2>1
    <3> QED BY <3>1 DEF Apart, Committing
  <2>2. CASE j = i
    <3>1. work'[i] = w /\ work'[k] = work[k]
      BY <1>2, <2>2
    <3> QED BY <1>2, <2>2, <3>1 DEF Apart, Committing
  <2>3. CASE k = i
    <3>1. work'[i] = w /\ work'[j] = work[j]
      BY <1>2, <2>3
    <3> QED BY <1>2, <2>3, <3>1 DEF Apart, Committing
  <2> QED BY <2>1, <2>2, <2>3
<1> QED BY <1>1, <1>2

(* The rows of a spreadsheet. *)
LEMMA RowsParsed ==
    ASSUME NEW s \in Sheets
    PROVE  /\ Len(RowsOf[s]) \in Nat /\ DOMAIN RowsOf[s] = 1..Len(RowsOf[s])
           /\ \A n \in DOMAIN RowsOf[s] : RowsOf[s][n] \in FileRow
           /\ \A m, n \in DOMAIN RowsOf[s] : m # n =>
                /\ RowsOf[s][m].variant # RowsOf[s][n].variant
                /\ ProductOf[RowsOf[s][m].variant] = ProductOf[RowsOf[s][n].variant] =>
                      RowsOf[s][m].product = RowsOf[s][n].product
<1>1. Parsed(RowsOf[s])
  BY SheetsParsed
<1> QED BY <1>1 DEF Parsed

(* Keys are rows of the catalog, and say what they are of. *)
LEMMA KeyIs ==
    ASSUME NEW v \in DOMAIN ProductOf, NEW kind \in Kinds
    PROVE  /\ Key(kind, v, 1) \in Keys /\ (kind = "price" => Key(kind, v, 2) \in Keys)
           /\ \A w \in DOMAIN ProductOf : \A other \in Kinds : \A m, n \in 1..2 :
                 Key(kind, v, m) = Key(other, w, n) =>
                    kind = other /\ (IF kind = "product" THEN ProductOf[v] = ProductOf[w] ELSE v = w)
BY DEF Key, Keys, Kinds

(* What is known of the file and the plan of a commit. *)
LEMMA CommitKnown ==
    ASSUME IngestionInv, NEW i \in Imports, Committing(i)
    PROVE  /\ imports[i].status = "validated"
           /\ imports[i].sheet \in Sheets /\ GoodPlan(imports[i].sheet, imports[i].plan)
           /\ Rows(i) = RowsOf[imports[i].sheet]
           /\ Len(Rows(i)) \in Nat /\ DOMAIN Rows(i) = 1..Len(Rows(i))
           /\ DOMAIN imports[i].plan = DOMAIN Rows(i)
           /\ work[i].at \in Nat /\ work[i].at > 0
           /\ RowAt(i) \in Nat /\ RowAt(i) >= 1
<1>1. WorkGood(i) /\ ImportGood(i)
  BY DEF IngestionInv
<1>2. work[i].at \in Nat /\ work[i].at > 0
  BY <1>1 DEF WorkGood, Committing
<1>3. RowAt(i) \in Nat /\ RowAt(i) >= 1
  BY <1>2 DEF RowAt
<1>4. /\ imports[i].status = "validated"
      /\ imports[i].sheet \in Sheets /\ GoodPlan(imports[i].sheet, imports[i].plan)
  BY <1>1 DEF WorkGood, ImportGood
<1> QED BY <1>2, <1>3, <1>4, RowsParsed DEF Rows, GoodPlan

(* What the commit has passed after a step: what it had, and the part of the
   step. *)
LEMMA PassedNext ==
    ASSUME IngestionInv, NEW i \in Imports, Committing(i), NEW n \in DOMAIN Rows(i), NEW kind \in Kinds
    PROVE  Position(n, kind) < work[i].at + 1 <=>
              Position(n, kind) < work[i].at \/ (n = RowAt(i) /\ kind = PartAt(i))
<1>1. n \in Nat /\ n > 0 /\ work[i].at \in Nat /\ work[i].at > 0
  BY CommitKnown
<1>2. Position(n, kind) \in Int
  BY <1>1 DEF Position, Place, Kinds
<1>3. Position(n, kind) = work[i].at <=> n = RowAt(i) /\ kind = PartAt(i)
  BY <1>1, PositionIs DEF RowAt, PartAt
<1> QED BY <1>1, <1>2, <1>3

(* A step of a commit that adds nothing to the draft, at a part that asks for
   nothing or whose row has been written before. *)
LEMMA SkippedPart ==
    ASSUME IngestionInv, NEW i \in Imports, Committing(i), NEW imaged,
           UNCHANGED <<imports, catalog>>,
           work' = [work EXCEPT ![i] =
              [at |-> work[i].at + 1, draft |-> work[i].draft, imaged |-> imaged]],
           PartAt(i) \in Kinds /\ RowAt(i) \in DOMAIN Rows(i) /\ <<RowAt(i), PartAt(i)>> \in Asked(i) =>
              RowDone(i, RowAt(i), PartAt(i))
    PROVE  IngestionInv'
<1> DEFINE w == [at |-> work[i].at + 1, draft |-> work[i].draft, imaged |-> imaged]
<1>1. /\ ImportGood(i) /\ WorkGood(i) /\ DOMAIN imports = Imports /\ DOMAIN work = Imports
      /\ catalog \in [Keys -> EntryRow \cup {NoRow}]
  BY DEF IngestionInv
<1>2. /\ w.at = work[i].at + 1 /\ w.draft = work[i].draft /\ work[i].at \in Nat /\ work[i].at > 0
      /\ work' = [work EXCEPT ![i] = w] /\ work'[i] = w
  BY <1>1, CommitKnown
<1>7. /\ imports' = imports /\ catalog' = catalog /\ Rows(i)' = Rows(i)
      /\ Asked(i)' = Asked(i) /\ \A f : SeenBy(i, f)' <=> SeenBy(i, f)
  BY DEF Rows, SeenBy, Asked
<1>8. \A n \in DOMAIN Rows(i) : \A kind \in Kinds :
        Passed(i, n, kind)' <=> Passed(i, n, kind) \/ (n = RowAt(i) /\ kind = PartAt(i))
  <2> TAKE n \in DOMAIN Rows(i)
  <2> TAKE kind \in Kinds
  <2>1. Passed(i, n, kind)' <=> Position(n, kind) < work[i].at + 1
    BY <1>2, <1>7 DEF Passed
  <2> QED BY <2>1, PassedNext DEF Passed
<1>9. \A f : PassedBy(i, f) => PassedBy(i, f)'
  BY <1>7, <1>8 DEF PassedBy
<1> HIDE DEF w
<1>3. ImportGood(i)'
  BY <1>1 DEF ImportGood
<1>4. WorkGood(i)'
  <2>1. \A e \in DOMAIN w.draft : DraftRow(i, e)'
    <3> TAKE e \in DOMAIN w.draft
    <3>1. DraftRow(i, e)
      BY <1>1, <1>2 DEF WorkGood
    <3> QED BY <1>2, <1>7, <1>9, <3>1 DEF DraftRow
  <2>2. ASSUME NEW n \in DOMAIN Rows(i), NEW kind \in Kinds,
               Position(n, kind) < work[i].at + 1, <<n, kind>> \in Asked(i)
        PROVE  RowDone(i, n, kind)
    <3>1. CASE Position(n, kind) < work[i].at
      BY <1>1, <2>2, <3>1 DEF WorkGood, Passed
    <3>2. CASE n = RowAt(i) /\ kind = PartAt(i)
      BY <2>2, <3>2
    <3> QED BY <2>2, <3>1, <3>2, PassedNext
  <2>3. \A n \in DOMAIN Rows(i)' : \A kind \in Kinds :
           Passed(i, n, kind)' /\ <<n, kind>> \in Asked(i)' => RowDone(i, n, kind)'
    <3> SUFFICES ASSUME NEW n \in DOMAIN Rows(i), NEW kind \in Kinds,
                        Passed(i, n, kind)', <<n, kind>> \in Asked(i)
                 PROVE  RowDone(i, n, kind)'
      BY <1>7
    <3>1. Position(n, kind) < work[i].at + 1
      BY <1>8, PassedNext DEF Passed
    <3>2. RowDone(i, n, kind)
      BY <2>2, <3>1
    <3> QED BY <1>2, <1>7, <3>2 DEF RowDone
  <2>4. imports'[i].status = "validated"
    BY CommitKnown
  <2> QED BY <1>2, <2>1, <2>3, <2>4 DEF WorkGood, Committing
<1>5. \A j \in Imports : j # i /\ Committing(j) => \A e \in DOMAIN work[j].draft : e \notin DOMAIN w.draft
  BY <1>2 DEF IngestionInv, Apart
<1>6. /\ DOMAIN imports' = Imports /\ DOMAIN work' = Imports
      /\ \A j \in Imports : j # i => imports'[j] = imports[j] /\ work'[j] = work[j]
  BY <1>1, <1>2, <1>7
<1> QED BY <1>1, <1>2, <1>3, <1>4, <1>5, <1>6, <1>7, OneImport

(* A step of a commit that writes a row over the version the preview has seen,
   or where there is none. *)
LEMMA WrittenPart ==
    ASSUME IngestionInv, NEW i \in Imports, Committing(i),
           RowAt(i) \in DOMAIN Rows(i), PartAt(i) \in Kinds,
           NEW e \in Keys, e \notin DOMAIN work[i].draft,
           NEW m \in 1..2, e = Key(PartAt(i), Rows(i)[RowAt(i)].variant, m),
           NEW row \in EntryRow, row.by = i, row.deleted = FALSE,
           row.value = Says(Rows(i)[RowAt(i)], PartAt(i)),
           IF catalog[e] = NoRow THEN row.version = 1
           ELSE SeenBy(i, e),
           UNCHANGED <<imports, catalog>>, Write(i, e, row)
    PROVE  IngestionInv'
<1> DEFINE draft == [f \in DOMAIN work[i].draft \cup {e} |-> IF f = e THEN row ELSE work[i].draft[f]]
           w == [at |-> work[i].at + 1, draft |-> draft, imaged |-> work[i].imaged]
<1>a. /\ DOMAIN draft = DOMAIN work[i].draft \cup {e} /\ draft[e] = row
      /\ \A f \in DOMAIN work[i].draft : draft[f] = work[i].draft[f]
  OBVIOUS
<1>b. ~HeldByOther(i, e) /\ work' = [work EXCEPT ![i] = w]
  BY DEF Write, Done, SetWork
<1> HIDE DEF draft
<1>1. /\ ImportGood(i) /\ WorkGood(i) /\ DOMAIN imports = Imports /\ DOMAIN work = Imports
      /\ catalog \in [Keys -> EntryRow \cup {NoRow}]
  BY DEF IngestionInv
<1>2. /\ w.at = work[i].at + 1 /\ w.draft = draft /\ work[i].at \in Nat /\ work[i].at > 0
      /\ work' = [work EXCEPT ![i] = w] /\ work'[i] = w
  BY <1>1, <1>b, CommitKnown
<1>7. /\ imports' = imports /\ catalog' = catalog /\ Rows(i)' = Rows(i)
      /\ Asked(i)' = Asked(i) /\ \A f : SeenBy(i, f)' <=> SeenBy(i, f)
  BY DEF Rows, SeenBy, Asked
<1>8. \A n \in DOMAIN Rows(i) : \A kind \in Kinds :
        Passed(i, n, kind)' <=> Passed(i, n, kind) \/ (n = RowAt(i) /\ kind = PartAt(i))
  <2> TAKE n \in DOMAIN Rows(i)
  <2> TAKE kind \in Kinds
  <2>1. Passed(i, n, kind)' <=> Position(n, kind) < work[i].at + 1
    BY <1>2, <1>7 DEF Passed
  <2> QED BY <2>1, PassedNext DEF Passed
<1>9. \A f : PassedBy(i, f) => PassedBy(i, f)'
  BY <1>7, <1>8 DEF PassedBy
<1> HIDE DEF w
<1>3. ImportGood(i)'
  BY <1>1 DEF ImportGood
<1>4. WorkGood(i)'
  <2>2. PassedBy(i, e)'
    BY <1>7, <1>8 DEF PassedBy
  <2>3. ASSUME NEW f \in DOMAIN draft PROVE DraftRow(i, f)'
    <3>1. CASE f = e
      BY <1>2, <1>a, <1>7, <2>2, <3>1 DEF DraftRow
    <3>2. CASE f \in DOMAIN work[i].draft
      <4>1. DraftRow(i, f) /\ draft[f] = work[i].draft[f]
        BY <1>1, <1>a, <3>2 DEF WorkGood
      <4> QED BY <1>2, <1>7, <1>9, <4>1 DEF DraftRow
    <3> QED BY <1>a, <3>1, <3>2
  <2>4. ASSUME NEW n \in DOMAIN Rows(i), NEW kind \in Kinds,
               Position(n, kind) < work[i].at + 1, <<n, kind>> \in Asked(i)
        PROVE  RowDone(i, n, kind)'
    <3>1. CASE Position(n, kind) < work[i].at
      <4>1. RowDone(i, n, kind)
        BY <1>1, <2>4, <3>1 DEF WorkGood, Passed
      <4> QED BY <1>2, <1>7, <1>a, <4>1 DEF RowDone
    <3>2. CASE n = RowAt(i) /\ kind = PartAt(i)
      BY <1>2, <1>7, <1>a, <3>2 DEF RowDone
    <3> QED BY <2>4, <3>1, <3>2, PassedNext
  <2>5. \A n \in DOMAIN Rows(i)' : \A kind \in Kinds :
           Passed(i, n, kind)' /\ <<n, kind>> \in Asked(i)' => RowDone(i, n, kind)'
    <3> SUFFICES ASSUME NEW n \in DOMAIN Rows(i), NEW kind \in Kinds,
                        Passed(i, n, kind)', <<n, kind>> \in Asked(i)
                 PROVE  RowDone(i, n, kind)'
      BY <1>7
    <3>1. Position(n, kind) < work[i].at + 1
      BY <1>8, PassedNext DEF Passed
    <3> QED BY <2>4, <3>1
  <2>6. imports'[i].status = "validated"
    BY CommitKnown
  <2> QED BY <1>2, <2>3, <2>5, <2>6 DEF WorkGood, Committing
<1>5. \A j \in Imports : j # i /\ Committing(j) => \A f \in DOMAIN work[j].draft : f \notin DOMAIN w.draft
  <2>1. ASSUME NEW j \in Imports, j # i, Committing(j), NEW f \in DOMAIN work[j].draft
        PROVE  f \notin DOMAIN w.draft
    <3>1. Apart(j, i)
      BY <2>1 DEF IngestionInv
    <3>2. f # e
      BY <1>b, <2>1 DEF HeldByOther
    <3> QED BY <1>2, <1>a, <2>1, <3>1, <3>2 DEF Apart
  <2> QED BY <2>1
<1>6. /\ DOMAIN imports' = Imports /\ DOMAIN work' = Imports
      /\ \A j \in Imports : j # i => imports'[j] = imports[j] /\ work'[j] = work[j]
  BY <1>1, <1>2, <1>7
<1> QED BY <1>1, <1>2, <1>3, <1>4, <1>5, <1>6, <1>7, OneImport

(* A part writes a row that no part before it has written. *)
LEMMA FreshKey ==
    ASSUME IngestionInv, NEW i \in Imports, Committing(i),
           RowAt(i) \in DOMAIN Rows(i), PartAt(i) \in Kinds, ~DoneBefore(i, PartAt(i)),
           NEW e, NEW m \in 1..2, e = Key(PartAt(i), Rows(i)[RowAt(i)].variant, m)
    PROVE  e \notin DOMAIN work[i].draft
<1> SUFFICES ASSUME e \in DOMAIN work[i].draft PROVE FALSE
  OBVIOUS
<1>1. DraftRow(i, e)
  BY DEF IngestionInv, WorkGood
<1>2. PICK n \in DOMAIN Rows(i) : \E kind \in Kinds : \E k \in 1..2 :
        Passed(i, n, kind) /\ e = Key(kind, Rows(i)[n].variant, k)
  BY <1>1 DEF DraftRow, PassedBy
<1>3. PICK kind \in Kinds : \E k \in 1..2 : Passed(i, n, kind) /\ e = Key(kind, Rows(i)[n].variant, k)
  BY <1>2
<1>4. PICK k \in 1..2 : e = Key(kind, Rows(i)[n].variant, k)
  BY <1>3
<1> DEFINE r == RowAt(i)
           part == PartAt(i)
           rows == Rows(i)
<1>5. rows[n] \in FileRow /\ rows[r] \in FileRow
  BY CommitKnown, RowsParsed
<1>6. rows[n].variant \in DOMAIN ProductOf /\ rows[r].variant \in DOMAIN ProductOf
  BY <1>5 DEF FileRow
<1>7. /\ part = kind
      /\ IF part = "product" THEN ProductOf[rows[r].variant] = ProductOf[rows[n].variant]
         ELSE rows[r].variant = rows[n].variant
  <2>1. PICK v \in DOMAIN ProductOf : v = rows[r].variant
    BY <1>6
  <2>2. PICK w \in DOMAIN ProductOf : w = rows[n].variant
    BY <1>6
  <2>3. Key(part, v, m) = Key(kind, w, k)
    BY <1>4, <2>1, <2>2
  <2> QED BY <2>1, <2>2, <2>3, KeyIs
<1>8. n \in Nat /\ n > 0 /\ r \in Nat /\ r > 0 /\ work[i].at \in Nat /\ work[i].at > 0
  BY CommitKnown
<1>9. Position(r, part) = work[i].at
  BY <1>8, PositionIs DEF RowAt, PartAt
<1>10. Position(n, part) < Position(r, part)
  BY <1>3, <1>7, <1>9 DEF Passed
<1>11. n < r
  <2>1. Place[part] \in Int
    BY DEF Place, Kinds
  <2> QED BY <1>8, <1>10, <2>1 DEF Position
<1>12. part # "product"
  BY <1>7, <1>8, <1>11 DEF DoneBefore
<1> QED BY <1>7, <1>11, <1>12, CommitKnown, RowsParsed

(* What a file asks of a product that a row before is about has been done. *)
LEMMA ProductDone ==
    ASSUME IngestionInv, NEW i \in Imports, Committing(i),
           RowAt(i) \in DOMAIN Rows(i), DoneBefore(i, PartAt(i)),
           <<RowAt(i), PartAt(i)>> \in Asked(i)
    PROVE  RowDone(i, RowAt(i), PartAt(i))
<1> DEFINE r == RowAt(i)
           rows == Rows(i)
<1>1. PartAt(i) = "product" /\ "product" \in Kinds
  BY DEF DoneBefore, Kinds
<1>2. r \in Nat /\ r > 0 /\ DOMAIN rows = 1..Len(rows) /\ Len(rows) \in Nat /\ work[i].at \in Nat /\ work[i].at > 0
  BY CommitKnown
<1>3. PICK n \in 1..(r - 1) : ProductOf[rows[n].variant] = ProductOf[rows[r].variant]
  BY DEF DoneBefore
<1>4. n \in DOMAIN rows /\ n \in Nat /\ n > 0 /\ n < r
  BY <1>2, <1>3
<1>5. imports[i].plan[n]["product"] = imports[i].plan[r]["product"]
  BY <1>3, <1>4, CommitKnown DEF GoodPlan
<1>6. <<n, "product">> \in Asked(i)
  BY <1>1, <1>2, <1>4, <1>5 DEF Asked
<1>7. Position(r, "product") = work[i].at
  BY <1>1, <1>2, PositionIs DEF RowAt, PartAt
<1>8. Position(n, "product") < Position(r, "product")
  BY <1>2, <1>4 DEF Position, Place
<1>9. RowDone(i, n, "product")
  <2>1. WorkGood(i)
    BY DEF IngestionInv
  <2> QED BY <1>1, <1>4, <1>6, <1>7, <1>8, <2>1 DEF WorkGood, Passed
<1>10. rows[n].product = rows[r].product
  <2>1. PICK s \in Sheets : rows = RowsOf[s]
    BY CommitKnown
  <2> QED BY <1>3, <1>4, <2>1, RowsParsed
<1> QED BY <1>1, <1>3, <1>9, <1>10 DEF RowDone, Says, Key

(* The service calls of a commit. *)
LEMMA CommitPartKeeps ==
    ASSUME IngestionInv, NEW i \in Imports, CommitPart(i)
    PROVE  IngestionInv'
<1> DEFINE r == RowAt(i)
           kind == PartAt(i)
           row == Rows(i)[r]
           seen == imports[i].plan[r][kind]
           draft == work[i].draft
<1>1. Committing(i) /\ UNCHANGED <<imports, catalog>>
  BY DEF CommitPart
<1>2. r \in DOMAIN Rows(i)
  BY <1>1, CommitKnown DEF CommitPart
<1>3. kind \in Kinds
  <2>1. 1 + ((work[i].at - 1) % 5) \in 1..5
    BY <1>1, CommitKnown
  <2>2. \A k \in 1..5 : Parts[k] \in Kinds \cup {"image"}
    BY DEF Parts, Kinds
  <2> QED BY <2>1, <2>2 DEF CommitPart, PartAt
<1>4. row \in FileRow /\ row.variant \in DOMAIN ProductOf /\ Says(row, kind) \in {0, 1}
  <2>1. row \in FileRow
    BY <1>1, <1>2, CommitKnown, RowsParsed
  <2> QED BY <2>1 DEF FileRow, Says
<1>5. /\ seen.version \in Nat /\ seen.key \in Keys
      /\ \E m \in 1..2 : seen.key = Key(kind, row.variant, m)
      /\ r \in DOMAIN imports[i].plan
  BY <1>1, <1>2, <1>3, CommitKnown DEF GoodPlan
<1>6. <<r, kind>> \in Asked(i) <=> seen.version = 0 \/ seen.changed
  BY <1>1, <1>2, <1>3, CommitKnown DEF Asked
<1>7. ASSUME NEW e \in Keys, NEW m \in 1..2, e = Key(kind, row.variant, m), ~DoneBefore(i, kind),
             NEW version \in Nat, Write(i, e, Stored(Says(row, kind), version, i)),
             IF catalog[e] = NoRow THEN version = 1 ELSE SeenBy(i, e)
      PROVE  IngestionInv'
  <2> DEFINE new == Stored(Says(row, kind), version, i)
  <2>1. /\ new \in EntryRow /\ new.by = i /\ new.deleted = FALSE /\ new.value = Says(row, kind)
        /\ new.version = version
    BY <1>4 DEF Stored, EntryRow
  <2>2. e \notin DOMAIN draft
    BY <1>1, <1>2, <1>3, <1>7, FreshKey
  <2>3. IF catalog[e] = NoRow THEN new.version = 1 ELSE SeenBy(i, e)
    BY <1>7, <2>1
  <2>4. Write(i, e, new)
    BY <1>7
  <2> HIDE DEF new
  <2> QED BY <1>1, <1>2, <1>3, <1>7, <2>1, <2>2, <2>3, <2>4, WrittenPart
<1>8. CASE DoneBefore(i, kind) /\ Skip(i)
  <2>1. <<r, kind>> \in Asked(i) => RowDone(i, r, kind)
    BY <1>1, <1>2, <1>8, ProductDone
  <2> QED BY <1>1, <1>8, <2>1, SkippedPart DEF Skip, Done, SetWork
<1>9. CASE ~DoneBefore(i, kind) /\ seen.version = 0 /\ CreateRow(i, kind, row)
  <2>1. PICK m \in 1..2 : Vacant(i, kind, row.variant) = Key(kind, row.variant, m) /\ (m = 2 => kind = "price")
    BY DEF Vacant
  <2>2. PICK e \in Keys : e = Key(kind, row.variant, m) /\ e = Vacant(i, kind, row.variant)
    BY <1>3, <1>4, <2>1, KeyIs
  <2>3. View(i)[e] = NoRow /\ Write(i, e, Stored(Says(row, kind), 1, i))
    BY <1>9, <2>2 DEF CreateRow
  <2>4. e \notin DOMAIN draft
    BY <1>1, <1>2, <1>3, <1>9, <2>2, FreshKey
  <2>5. catalog[e] = NoRow
    BY <2>3, <2>4 DEF View, Overlay
  <2> QED BY <1>7, <1>9, <2>2, <2>3, <2>5
<1>10. CASE ~DoneBefore(i, kind) /\ seen.version > 0 /\ seen.changed /\ ChangeRow(i, kind, seen, row)
  <2>1. PICK m \in 1..2 : seen.key = Key(kind, row.variant, m)
    BY <1>5
  <2>2. PICK e \in Keys : e = seen.key
    BY <1>5
  <2>3. /\ Alive(View(i)[e]) /\ View(i)[e].version = seen.version
        /\ Write(i, e, Stored(Says(row, kind), seen.version + 1, i))
    BY <1>10, <2>2 DEF ChangeRow, AsSeen
  <2>4. e \notin DOMAIN draft
    BY <1>1, <1>2, <1>3, <1>10, <2>1, <2>2, FreshKey
  <2>5. catalog[e] # NoRow /\ catalog[e].version = seen.version
    BY <2>3, <2>4 DEF View, Overlay, Alive
  <2>6. SeenBy(i, e)
    BY <1>3, <1>5, <2>2, <2>5 DEF SeenBy
  <2>7. seen.version + 1 \in Nat
    BY <1>5
  <2> QED BY <1>7, <1>10, <2>1, <2>2, <2>3, <2>5, <2>6, <2>7
<1>11. CASE ~DoneBefore(i, kind) /\ seen.version > 0 /\ ~seen.changed /\ KeepRow(i, kind, seen)
  <2>1. <<r, kind>> \notin Asked(i)
    BY <1>5, <1>6, <1>11
  <2> QED BY <1>1, <1>11, <2>1, SkippedPart DEF KeepRow, Skip, Done, SetWork
<1> QED BY <1>8, <1>9, <1>10, <1>11 DEF CommitPart

(* The preview of a file is a good plan. *)
LEMMA PreviewGood ==
    ASSUME IngestionInv, NEW s \in Sheets
    PROVE  GoodPlan(s, [n \in DOMAIN RowsOf[s] |-> Preview(RowsOf[s][n])])
<1> DEFINE plan == [n \in DOMAIN RowsOf[s] |-> Preview(RowsOf[s][n])]
<1>1. ASSUME NEW n \in DOMAIN RowsOf[s], NEW kind \in Kinds
      PROVE  /\ plan[n][kind].version \in Nat /\ plan[n][kind].key \in Keys
             /\ \E m \in 1..2 : plan[n][kind].key = Key(kind, RowsOf[s][n].variant, m)
  <2>1. PICK v \in DOMAIN ProductOf : v = RowsOf[s][n].variant
    BY RowsParsed DEF FileRow
  <2>2. PICK e \in Keys : e = Newest(catalog, kind, v) /\ \E m \in 1..2 : e = Key(kind, v, m)
    <3>1. Newest(catalog, kind, v) \in Keys
      BY <2>1, KeyIs DEF Newest
    <3>2. \E m \in 1..2 : Newest(catalog, kind, v) = Key(kind, v, m)
      BY DEF Newest
    <3> QED BY <3>1, <3>2
  <2>3. plan[n][kind] = IF Matched(kind, v)
                        THEN [key |-> e, version |-> catalog[e].version,
                              changed |-> catalog[e].value # Says(RowsOf[s][n], kind)]
                        ELSE [key |-> e, version |-> 0, changed |-> TRUE]
    BY <2>1, <2>2 DEF Preview
  <2>4. Matched(kind, v) => catalog[e].version \in Nat
    <3>1. Matched(kind, v) => catalog[e] # NoRow
      BY <2>2 DEF Matched, Found, Alive
    <3>2. catalog[e] \in EntryRow \cup {NoRow}
      BY DEF IngestionInv
    <3> QED BY <3>1, <3>2 DEF EntryRow
  <2> HIDE DEF plan
  <2>5. plan[n][kind].key = e /\ plan[n][kind].version \in Nat
    BY <2>3, <2>4
  <2> QED BY <2>1, <2>2, <2>5
<1>2. ASSUME NEW m \in DOMAIN RowsOf[s], NEW n \in DOMAIN RowsOf[s],
             ProductOf[RowsOf[s][m].variant] = ProductOf[RowsOf[s][n].variant]
      PROVE  plan[m]["product"] = plan[n]["product"]
  <2> DEFINE v == RowsOf[s][m].variant
             w == RowsOf[s][n].variant
  <2>1. Newest(catalog, "product", v) = Newest(catalog, "product", w)
    BY <1>2 DEF Newest, Key
  <2>2. Matched("product", v) <=> Matched("product", w)
    BY <2>1 DEF Matched, Found
  <2>3. Says(RowsOf[s][m], "product") = Says(RowsOf[s][n], "product")
    BY <1>2, RowsParsed DEF Says
  <2> QED BY <2>1, <2>2, <2>3 DEF Preview, Kinds
<1> HIDE DEF plan
<1>3. DOMAIN plan = DOMAIN RowsOf[s]
  BY DEF plan
<1>4. GoodPlan(s, plan)
  BY <1>1, <1>2, <1>3 DEF GoodPlan
<1> QED BY <1>4 DEF plan

(* An import whose request ends without touching the catalog. *)
LEMMA RequestOver ==
    ASSUME IngestionInv, NEW i \in Imports, work'[i] = NotOpen,
           DOMAIN imports' = Imports, DOMAIN work' = Imports,
           \A j \in Imports : j # i => imports'[j] = imports[j] /\ work'[j] = work[j],
           UNCHANGED catalog, ImportGood(i)'
    PROVE  IngestionInv'
<1>1. catalog' \in [Keys -> EntryRow \cup {NoRow}]
  BY DEF IngestionInv
<1>3. NotOpen.at = 0
  BY DEF NotOpen
<1>4. WorkGood(i)'
  BY <1>3 DEF WorkGood, Committing
<1> QED BY <1>1, <1>3, <1>4, OneImport

(* The commit of a whole file makes its draft the catalog. *)
LEMMA FinishKeeps ==
    ASSUME IngestionInv, NEW i \in Imports, FinishCommit(i)
    PROVE  /\ IngestionInv'
           /\ \A e \in Keys : catalog'[e] = IF e \in DOMAIN work[i].draft THEN work[i].draft[e] ELSE catalog[e]
<1>1. /\ Committing(i) /\ WorkGood(i) /\ ImportGood(i)
      /\ DOMAIN work = Imports /\ DOMAIN imports = Imports
      /\ catalog \in [Keys -> EntryRow \cup {NoRow}]
  BY DEF FinishCommit, IngestionInv
<1>2. \A e \in DOMAIN work[i].draft : e \in Keys /\ work[i].draft[e] \in EntryRow
  BY <1>1 DEF WorkGood, DraftRow
<1>3. catalog' = [e \in Keys |-> IF e \in DOMAIN work[i].draft THEN work[i].draft[e] ELSE catalog[e]]
  BY DEF FinishCommit, View, Overlay
<1>4. catalog' \in [Keys -> EntryRow \cup {NoRow}]
  BY <1>1, <1>2, <1>3
<1>5. /\ imports' = [imports EXCEPT ![i] = [imports[i] EXCEPT !.status = "completed",
                       !.staged = @ /\ ~work[i].imaged]]
      /\ work' = [work EXCEPT ![i] = NotOpen]
  BY DEF FinishCommit, SetImport, SetWork
<1>6. ImportGood(i)'
  <2>2. DOMAIN imports[i] = {"status", "sheet", "staged", "plan"} /\ imports[i].sheet \in Sheets \cup {NoSheet}
    BY <1>1 DEF ImportGood
  <2> DEFINE row == [imports[i] EXCEPT !.status = "completed", !.staged = @ /\ ~work[i].imaged]
  <2>3. DOMAIN row = DOMAIN imports[i] /\ row.status = "completed" /\ row.sheet = imports[i].sheet
    BY <2>2
  <2>4. imports'[i] = row
    BY <1>1, <1>5
  <2> HIDE DEF row
  <2> QED BY <2>2, <2>3, <2>4 DEF ImportGood
<1>7. work'[i] = NotOpen /\ NotOpen.at = 0
  BY <1>1, <1>5 DEF NotOpen
<1>8. WorkGood(i)'
  BY <1>7 DEF WorkGood, Committing
<1>9. ASSUME NEW j \in Imports, j # i, Committing(j), NEW e \in DOMAIN work[j].draft
      PROVE  catalog'[e] = catalog[e]
  <2>1. Apart(i, j) /\ WorkGood(j)
    BY <1>9 DEF IngestionInv
  <2>2. e \in Keys /\ e \notin DOMAIN work[i].draft
    BY <1>1, <1>9, <2>1 DEF Apart, WorkGood, DraftRow
  <2> QED BY <1>3, <2>2
<1>10. /\ DOMAIN imports' = Imports /\ DOMAIN work' = Imports
       /\ \A j \in Imports : j # i => imports'[j] = imports[j] /\ work'[j] = work[j]
  BY <1>1, <1>5
<1>11. IngestionInv'
  BY <1>4, <1>6, <1>7, <1>8, <1>9, <1>10, OneImport
<1> QED BY <1>3, <1>11

LEMMA IngestionStep == IngestionInv /\ [IngestionNext]_importVars => IngestionInv'
<1> SUFFICES ASSUME IngestionInv, [IngestionNext]_importVars PROVE IngestionInv'
  OBVIOUS
<1>a. /\ DOMAIN imports = Imports /\ DOMAIN work = Imports
      /\ catalog \in [Keys -> EntryRow \cup {NoRow}]
      /\ \A i \in Imports : ImportGood(i) /\ WorkGood(i)
  BY DEF IngestionInv
<1>1. ASSUME NEW i \in Imports, NEW row, DOMAIN row = {"status", "sheet", "staged", "plan"},
             row.sheet \in Sheets \cup {NoSheet},
             row.status = "validated" => row.sheet \in Sheets /\ GoodPlan(row.sheet, row.plan),
             imports' = [imports EXCEPT ![i] = row], catalog' = catalog,
             work' = [work EXCEPT ![i] = NotOpen] \/ (work[i] = NotOpen /\ work' = work)
      PROVE  IngestionInv'
  <2>1. /\ DOMAIN imports' = Imports /\ DOMAIN work' = Imports /\ imports'[i] = row /\ work'[i] = NotOpen
        /\ \A j \in Imports : j # i => imports'[j] = imports[j] /\ work'[j] = work[j]
    BY <1>a, <1>1
  <2>2. ImportGood(i)'
    BY <1>1, <2>1 DEF ImportGood
  <2> QED BY <1>1, <2>1, <2>2, RequestOver
<1>2. ASSUME NEW i \in Imports, CreateImport(i) PROVE IngestionInv'
  <2> DEFINE row == [NotCreated EXCEPT !.status = "created"]
  <2>1. work[i] = NotOpen
    <3>1. work[i].at = 0
      BY <1>a, <1>2 DEF CreateImport, NotCreated, WorkGood, Committing
    <3> QED BY <1>a, <1>2, <3>1 DEF CreateImport, NotCreated, WorkGood
  <2>2. /\ DOMAIN row = {"status", "sheet", "staged", "plan"} /\ row.sheet = NoSheet
        /\ row.status = "created"
    BY DEF NotCreated
  <2>3. imports' = [imports EXCEPT ![i] = row] /\ UNCHANGED <<catalog, work>>
    BY <1>2 DEF CreateImport, SetImport
  <2> HIDE DEF row
  <2> QED BY <1>1, <2>1, <2>2, <2>3
<1>3. ASSUME NEW i \in Imports, UploadImage(i) PROVE IngestionInv'
  <2> DEFINE row == [imports[i] EXCEPT !.staged = TRUE]
  <2>1. /\ work[i] = NotOpen /\ imports[i].status \in {"created", "validation_failed"}
        /\ imports' = [imports EXCEPT ![i] = row] /\ UNCHANGED <<catalog, work>>
    BY <1>3 DEF UploadImage, Accepts, Locked, SetImport
  <2>2. DOMAIN imports[i] = {"status", "sheet", "staged", "plan"} /\ imports[i].sheet \in Sheets \cup {NoSheet}
    BY <1>a, <2>1 DEF ImportGood
  <2>3. /\ DOMAIN row = {"status", "sheet", "staged", "plan"} /\ row.sheet = imports[i].sheet
        /\ row.status = imports[i].status
    BY <2>2
  <2> HIDE DEF row
  <2> QED BY <1>1, <2>1, <2>2, <2>3
<1>4. ASSUME NEW i \in Imports, FinishUpload(i) PROVE IngestionInv'
  <2> DEFINE row == [imports[i] EXCEPT !.status = "created", !.sheet = work[i].sheet]
  <2>1. /\ work[i].sheet \in Sheets
        /\ imports' = [imports EXCEPT ![i] = row] /\ catalog' = catalog
        /\ work' = [work EXCEPT ![i] = NotOpen]
    BY <1>a, <1>4 DEF FinishUpload, SetImport, SetWork, WorkGood
  <2>2. DOMAIN imports[i] = {"status", "sheet", "staged", "plan"}
    BY <1>a, <2>1 DEF ImportGood
  <2>3. /\ DOMAIN row = {"status", "sheet", "staged", "plan"} /\ row.sheet = work[i].sheet
        /\ row.status = "created"
    BY <2>2
  <2> HIDE DEF row
  <2> QED BY <1>1, <2>1, <2>3
<1>5. ASSUME NEW i \in Imports, NEW failed \in BOOLEAN, Validate(i, failed) PROVE IngestionInv'
  <2> DEFINE status == IF failed THEN "validation_failed" ELSE "validated"
             plan == IF failed THEN <<>> ELSE [n \in DOMAIN Rows(i) |-> Preview(Rows(i)[n])]
             row == [imports[i] EXCEPT !.status = status, !.plan = plan]
  <2>1. /\ work[i] = NotOpen /\ imports[i].sheet # NoSheet
        /\ imports' = [imports EXCEPT ![i] = row] /\ UNCHANGED <<catalog, work>>
    BY <1>5 DEF Validate, Locked, SetImport
  <2>2. DOMAIN imports[i] = {"status", "sheet", "staged", "plan"} /\ imports[i].sheet \in Sheets
    BY <1>a, <2>1 DEF ImportGood
  <2>3. status = "validated" => GoodPlan(imports[i].sheet, plan)
    <3>1. GoodPlan(imports[i].sheet, [n \in DOMAIN Rows(i) |-> Preview(Rows(i)[n])])
      BY <2>2, PreviewGood DEF Rows
    <3> QED BY <3>1
  <2> HIDE DEF status, plan
  <2>4. /\ DOMAIN row = {"status", "sheet", "staged", "plan"} /\ row.sheet = imports[i].sheet
        /\ row.status = status /\ row.plan = plan
    BY <2>2
  <2> HIDE DEF row
  <2> QED BY <1>1, <2>1, <2>2, <2>3, <2>4
<1>6. ASSUME NEW i \in Imports, FailCommit(i) PROVE IngestionInv'
  <2> DEFINE row == [imports[i] EXCEPT !.status = "failed"]
  <2>1.
        /\ imports' = [imports EXCEPT ![i] = row] /\ catalog' = catalog
        /\ work' = [work EXCEPT ![i] = NotOpen]
    BY <1>6, CommitKnown DEF FailCommit, SetImport, SetWork, AfterRollback
  <2>2. DOMAIN imports[i] = {"status", "sheet", "staged", "plan"} /\ imports[i].sheet \in Sheets \cup {NoSheet}
    BY <1>a, <2>1 DEF ImportGood
  <2>3. /\ DOMAIN row = {"status", "sheet", "staged", "plan"} /\ row.sheet = imports[i].sheet
        /\ row.status = "failed"
    BY <2>2
  <2> HIDE DEF row
  <2> QED BY <1>1, <2>1, <2>2, <2>3
<1>7. ASSUME NEW i \in Imports, Break(i) PROVE IngestionInv'
  <2>1. /\ imports' = imports /\ catalog' = catalog /\ work'[i] = NotOpen /\ DOMAIN work' = Imports
        /\ \A j \in Imports : j # i => imports'[j] = imports[j] /\ work'[j] = work[j]
    BY <1>a, <1>7 DEF Break, SetWork
  <2>2. ImportGood(i)'
    BY <1>a, <2>1 DEF ImportGood
  <2> QED BY <1>a, <2>1, <2>2, RequestOver
<1>8. ASSUME NEW i \in Imports, NEW w, work' = [work EXCEPT ![i] = w],
             UNCHANGED <<imports, catalog>>, WorkGood(i)', w.at > 0 => DOMAIN w.draft = {}
      PROVE  IngestionInv'
  <2>1. /\ DOMAIN imports' = Imports /\ DOMAIN work' = Imports /\ work'[i] = w
        /\ \A j \in Imports : j # i => imports'[j] = imports[j] /\ work'[j] = work[j]
        /\ catalog' \in [Keys -> EntryRow \cup {NoRow}]
    BY <1>a, <1>8
  <2>2. ImportGood(i)'
    BY <1>a, <1>8 DEF ImportGood
  <2>3. \A j \in Imports : j # i /\ Committing(j) =>
           \A e \in DOMAIN work[j].draft : catalog'[e] = catalog[e] /\ ((w.at > 0) => e \notin DOMAIN w.draft)
    BY <1>8
  <2> QED BY <1>8, <2>1, <2>2, <2>3, OneImport
<1>9. ASSUME NEW i \in Imports, NEW s \in Sheets, BeginUpload(i, s) PROVE IngestionInv'
  <2> DEFINE w == [at |-> 0, sheet |-> s]
  <2>1. w.at = 0 /\ w.sheet = s
    OBVIOUS
  <2>2. work' = [work EXCEPT ![i] = w] /\ UNCHANGED <<imports, catalog>> /\ imports[i].status # "none"
    BY <1>9 DEF BeginUpload, SetWork, Accepts, Locked
  <2> HIDE DEF w
  <2>3. WorkGood(i)'
    BY <1>a, <2>1, <2>2 DEF WorkGood, Committing
  <2>4. ~(w.at > 0)
    BY <2>1
  <2> QED BY <1>8, <2>2, <2>3, <2>4
<1>10. ASSUME NEW i \in Imports, BeginCommit(i) PROVE IngestionInv'
  <2> DEFINE w == [at |-> 1, draft |-> <<>>, imaged |-> FALSE]
  <2>1. w.at = 1 /\ DOMAIN w.draft = {}
    OBVIOUS
  <2>2. /\ work' = [work EXCEPT ![i] = w] /\ UNCHANGED <<imports, catalog>>
        /\ imports[i].status = "validated"
    BY <1>10 DEF BeginCommit, SetWork, Locked
  <2> HIDE DEF w
  <2>3. \A n \in DOMAIN Rows(i)' : \A kind \in Kinds : ~Passed(i, n, kind)'
    <3> SUFFICES ASSUME NEW n \in DOMAIN Rows(i)', NEW kind \in Kinds PROVE ~Passed(i, n, kind)'
      OBVIOUS
    <3>1. imports[i].sheet \in Sheets /\ Rows(i)' = RowsOf[imports[i].sheet]
      BY <1>a, <2>2 DEF Rows, ImportGood
    <3>2. n \in Nat /\ n >= 1
      BY <3>1, RowsParsed
    <3>3. Position(n, kind) >= 1
      BY <3>2 DEF Position, Place, Kinds
    <3>4. Position(n, kind) \in Int
      BY <3>2 DEF Position, Place, Kinds
    <3> QED BY <1>a, <2>1, <2>2, <3>3, <3>4 DEF Passed
  <2>4. WorkGood(i)'
    BY <1>a, <2>1, <2>2, <2>3 DEF WorkGood, Committing
  <2> QED BY <1>8, <2>1, <2>2, <2>4
<1>11. ASSUME NEW i \in Imports, CommitImage(i) PROVE IngestionInv'
  <2>1. /\ Committing(i) /\ PartAt(i) = "image" /\ UNCHANGED <<imports, catalog>>
        /\ work' = [work EXCEPT ![i] = [at |-> work[i].at + 1, draft |-> work[i].draft,
                       imaged |-> work[i].imaged \/ Rows(i)[RowAt(i)].image]]
    BY <1>11 DEF CommitImage, Done, SetWork
  <2>2. PartAt(i) \notin Kinds
    BY <2>1 DEF Kinds
  <2> QED BY <2>1, <2>2, SkippedPart
<1>12. ASSUME NEW e \in Keys, EditRow(e) \/ DeleteRow(e) \/ AddRow(e) PROVE IngestionInv'
  <2>1. PICK row \in EntryRow : Free(e) /\ catalog' = [catalog EXCEPT ![e] = row]
    <3>1. CASE EditRow(e)
      <4>1. catalog[e] \in EntryRow
        BY <1>a, <3>1 DEF EditRow, Alive
      <4>2. Stored(1 - catalog[e].value, catalog[e].version + 1, "owner") \in EntryRow
        BY <4>1 DEF EntryRow, Stored
      <4> QED BY <3>1, <4>2 DEF EditRow, OwnerWrites
    <3>2. CASE DeleteRow(e)
      <4>1. catalog[e] \in EntryRow
        BY <1>a, <3>2 DEF DeleteRow, Alive
      <4>2. [catalog[e] EXCEPT !.deleted = TRUE, !.version = @ + 1, !.by = "owner"] \in EntryRow
        <5>1. catalog[e].version + 1 \in Nat
          BY <4>1 DEF EntryRow
        <5>2. ASSUME NEW n \in Nat, NEW old \in EntryRow
              PROVE  [old EXCEPT !.deleted = TRUE, !.version = n, !.by = "owner"] \in EntryRow
          BY DEF EntryRow
        <5> QED BY <4>1, <5>1, <5>2
      <4> QED BY <3>2, <4>2 DEF DeleteRow, OwnerWrites
    <3>3. CASE AddRow(e)
      <4>1. Stored(0, 1, "owner") \in EntryRow
        BY DEF EntryRow, Stored
      <4> QED BY <3>3, <4>1 DEF AddRow, OwnerWrites
    <3> QED BY <1>12, <3>1, <3>2, <3>3
  <2>2. imports' = imports /\ work' = work
    BY <1>12 DEF EditRow, DeleteRow, AddRow, OwnerWrites
  <2>3. catalog' \in [Keys -> EntryRow \cup {NoRow}]
    BY <1>a, <2>1
  <2>4. ASSUME NEW j \in Imports PROVE ImportGood(j)' /\ WorkGood(j)'
    <3>1. Committing(j) => \A f \in DOMAIN work[j].draft : catalog'[f] = catalog[f]
      BY <2>1 DEF Free
    <3> QED BY <1>a, <2>2, <3>1, Untouched
  <2>5. \A i, j \in Imports : i # j => Apart(i, j)'
    BY <2>2 DEF IngestionInv, Apart, Committing
  <2> QED BY <1>a, <2>2, <2>3, <2>4, <2>5 DEF IngestionInv
<1>13. CASE UNCHANGED importVars
  <2>1. imports' = imports /\ work' = work /\ catalog' = catalog
    BY <1>13 DEF importVars
  <2>2. \A j \in Imports : ImportGood(j)' /\ WorkGood(j)'
    BY <1>a, <2>1, Untouched
  <2>3. \A i, j \in Imports : i # j => Apart(i, j)'
    BY <2>1 DEF IngestionInv, Apart, Committing
  <2> QED BY <1>a, <2>1, <2>2, <2>3 DEF IngestionInv
<1> QED
  BY <1>2, <1>3, <1>4, <1>5, <1>6, <1>7, <1>9, <1>10, <1>11, <1>12, <1>13, CommitPartKeeps, FinishKeeps
  DEF IngestionNext

THEOREM IngestionInductive == IngestionSpec => []IngestionInv
<1>1. IngestionInit => IngestionInv
  <2> SUFFICES ASSUME IngestionInit PROVE IngestionInv
    OBVIOUS
  <2>1. Stored(0, 1, "owner") \in EntryRow
    BY DEF Stored, EntryRow
  <2>2. NotOpen.at = 0
    BY DEF NotOpen
  <2> QED BY <2>1, <2>2 DEF NotCreated, IngestionInit, IngestionInv, ImportGood, WorkGood, Apart, Committing
<1> QED BY <1>1, IngestionStep, PTL DEF IngestionSpec

-----------------------------------------------------------------------------

(* A row of the catalog that an import has written is one of its draft, and the
   step finishes its commit. *)
LEMMA WrittenByImport ==
    ASSUME IngestionInv, IngestionNext, NEW i \in Imports, NEW e \in Keys,
           catalog'[e] # catalog[e], catalog'[e].by = i
    PROVE  FinishCommit(i) /\ e \in DOMAIN work[i].draft /\ catalog'[e] = work[i].draft[e]
<1>1. catalog \in [Keys -> EntryRow \cup {NoRow}]
  BY DEF IngestionInv
<1>2. ASSUME NEW f \in Keys, EditRow(f) \/ DeleteRow(f) \/ AddRow(f) PROVE FALSE
  <2>1. e = f
    BY <1>1, <1>2 DEF EditRow, DeleteRow, AddRow, OwnerWrites
  <2>2. catalog'[e].by = "owner"
    <3>1. CASE EditRow(e) \/ AddRow(e)
      BY <1>1, <3>1 DEF EditRow, AddRow, OwnerWrites, Stored
    <3>2. CASE DeleteRow(e)
      <4>1. catalog[e] \in EntryRow
        BY <1>1, <3>2 DEF DeleteRow, Alive
      <4>2. [catalog[e] EXCEPT !.deleted = TRUE, !.version = @ + 1, !.by = "owner"].by = "owner"
        BY <4>1 DEF EntryRow
      <4> QED BY <1>1, <3>2, <4>2 DEF DeleteRow, OwnerWrites
    <3> QED BY <1>2, <2>1, <3>1, <3>2
  <2> QED BY <2>2, ImportsAssumption
<1>3. PICK j \in Imports : FinishCommit(j)
  <2>1. CASE catalog' = catalog
    BY <2>1
  <2> QED BY <1>2, <2>1 DEF IngestionNext, CreateImport, UploadImage, FinishUpload, BeginUpload, Validate,
             BeginCommit, CommitPart, CommitImage, FailCommit, AfterRollback, Break
<1>4. catalog'[e] = IF e \in DOMAIN work[j].draft THEN work[j].draft[e] ELSE catalog[e]
  BY <1>3, FinishKeeps
<1>5. e \in DOMAIN work[j].draft /\ catalog'[e] = work[j].draft[e]
  BY <1>4
<1>6. DraftRow(j, e)
  BY <1>3, <1>5 DEF IngestionInv, WorkGood, FinishCommit
<1>7. j = i
  BY <1>5, <1>6 DEF DraftRow
<1> QED BY <1>3, <1>5, <1>7

(* Nobody's change is lost to an import: its rows are written over the version
   the preview saw, because the commit checks it when it writes its draft and
   holds the row until it is over. *)
THEOREM AppliedAsValidatedHolds == IngestionSpec => AppliedAsValidated
<1>1. IngestionInv /\ [IngestionNext]_importVars =>
        [\A i \in Imports, e \in Keys :
            catalog'[e] # catalog[e] /\ catalog'[e].by = i =>
                IF catalog[e] = NoRow THEN catalog'[e].version = 1
                ELSE \E n \in DOMAIN imports[i].plan, kind \in Kinds :
                        imports[i].plan[n][kind].key = e
                        /\ imports[i].plan[n][kind].version = catalog[e].version]_importVars
  <2> SUFFICES ASSUME IngestionInv, IngestionNext, NEW i \in Imports, NEW e \in Keys,
                      catalog'[e] # catalog[e], catalog'[e].by = i
               PROVE  IF catalog[e] = NoRow THEN catalog'[e].version = 1
                      ELSE \E n \in DOMAIN imports[i].plan, kind \in Kinds :
                              imports[i].plan[n][kind].key = e
                              /\ imports[i].plan[n][kind].version = catalog[e].version
    OBVIOUS
  <2>1. FinishCommit(i) /\ e \in DOMAIN work[i].draft /\ catalog'[e] = work[i].draft[e]
    BY WrittenByImport
  <2>2. DraftRow(i, e)
    BY <2>1 DEF IngestionInv, WorkGood, FinishCommit
  <2> QED BY <2>1, <2>2 DEF DraftRow, SeenBy
<1> QED BY <1>1, IngestionInductive, PTL DEF IngestionSpec, AppliedAsValidated

(* An import is applied as a whole or not at all: a commit gets past its last
   part only with every part the file asks for in its draft, which becomes the
   catalog in that step and in no other. *)
THEOREM AllOrNothingHolds == IngestionSpec => AllOrNothing
<1>1. ASSUME IngestionInv, IngestionNext, NEW i \in Imports,
             IsCompleted(imports'[i]), ~IsCompleted(imports[i]), NEW a \in Asked(i)
      PROVE  \E n \in 1..2 : LET e == Key(a[2], Rows(i)[a[1]].variant, n) IN
                e \in Keys /\ Alive(catalog'[e]) /\ catalog'[e].by = i
                /\ catalog'[e].value = Says(Rows(i)[a[1]], a[2])
  <2>0. DOMAIN imports = Imports /\ ImportGood(i) /\ WorkGood(i)
    BY <1>1 DEF IngestionInv
  <2>1. FinishCommit(i)
    <3>1. imports'[i] # imports[i]
      BY <1>1
    <3>2. DOMAIN imports[i] = {"status", "sheet", "staged", "plan"}
      BY <2>0 DEF ImportGood
    <3>3. ASSUME NEW j \in Imports, CreateImport(j) PROVE FALSE
      BY <1>1, <2>0, <3>1, <3>3 DEF CreateImport, SetImport, IsCompleted
    <3>4. ASSUME NEW j \in Imports, UploadImage(j) PROVE FALSE
      <4>1. i = j
        BY <2>0, <3>1, <3>4 DEF UploadImage, SetImport, Accepts, Locked
      <4> QED BY <1>1, <2>0, <3>2, <3>4, <4>1 DEF UploadImage, SetImport, IsCompleted
    <3>5. ASSUME NEW j \in Imports, FinishUpload(j) PROVE FALSE
      <4>1. i = j
        BY <1>1, <2>0, <3>1, <3>5 DEF FinishUpload, SetImport, WorkGood
      <4> QED BY <1>1, <2>0, <3>2, <3>5, <4>1 DEF FinishUpload, SetImport, IsCompleted
    <3>6. ASSUME NEW j \in Imports, NEW failed \in BOOLEAN, Validate(j, failed) PROVE FALSE
      <4>1. i = j
        BY <2>0, <3>1, <3>6 DEF Validate, SetImport, Locked
      <4> QED BY <1>1, <2>0, <3>2, <3>6, <4>1 DEF Validate, SetImport, IsCompleted
    <3>7. ASSUME NEW j \in Imports, FailCommit(j) PROVE FALSE
      <4>1. i = j
        BY <1>1, <2>0, <3>1, <3>7, CommitKnown DEF FailCommit, SetImport
      <4> QED BY <1>1, <2>0, <3>2, <3>7, <4>1 DEF FailCommit, SetImport, IsCompleted
    <3>8. ASSUME NEW j \in Imports, FinishCommit(j) PROVE i = j
      BY <2>0, <3>1, <3>8 DEF FinishCommit, SetImport
    <3> QED BY <1>1, <3>1, <3>3, <3>4, <3>5, <3>6, <3>7, <3>8 DEF IngestionNext, BeginUpload, BeginCommit,
               CommitPart, CommitImage, Break, EditRow, DeleteRow, AddRow, OwnerWrites
  <2>2. Committing(i) /\ RowAt(i) > Len(Rows(i))
    BY <2>1 DEF FinishCommit
  <2>3. PICK n \in DOMAIN Rows(i) : \E kind \in Kinds : a = <<n, kind>>
    BY <1>1, <2>2, CommitKnown DEF Asked
  <2>4. PICK kind \in Kinds : a = <<n, kind>>
    BY <2>3
  <2>5. Passed(i, n, kind)
    <3>1. /\ Len(Rows(i)) \in Nat /\ n \in 1..Len(Rows(i)) /\ work[i].at \in Nat /\ work[i].at > 0
      BY <1>1, <2>2, CommitKnown
    <3>2. (work[i].at - 1) \div 5 >= Len(Rows(i))
      BY <2>2, <3>1 DEF RowAt
    <3>3. work[i].at - 1 >= 5 * Len(Rows(i))
      BY <3>1, <3>2
    <3>4. Place[kind] \in 1..4
      BY DEF Place, Kinds
    <3>5. Position(n, kind) < work[i].at
      BY <3>1, <3>3, <3>4 DEF Position
    <3> QED BY <3>5 DEF Passed
  <2>6. PICK m \in 1..2 : LET e == Key(kind, Rows(i)[n].variant, m) IN
          e \in DOMAIN work[i].draft /\ work[i].draft[e].value = Says(Rows(i)[n], kind)
    BY <1>1, <2>0, <2>2, <2>4, <2>5 DEF WorkGood, RowDone
  <2>7. PICK e \in DOMAIN work[i].draft : /\ e = Key(kind, Rows(i)[n].variant, m)
                                         /\ work[i].draft[e].value = Says(Rows(i)[n], kind)
    BY <2>6
  <2>8. DraftRow(i, e)
    BY <2>0, <2>2 DEF WorkGood
  <2>9. e \in Keys /\ catalog'[e] = work[i].draft[e]
    BY <1>1, <2>1, <2>7, <2>8, FinishKeeps DEF DraftRow
  <2>10. catalog'[e] # NoRow /\ catalog'[e].deleted = FALSE /\ catalog'[e].by = i
    BY <2>8, <2>9, ImportsAssumption DEF DraftRow
  <2> QED BY <2>4, <2>7, <2>9, <2>10 DEF Alive
<1>2. ASSUME IngestionInv, IngestionNext, NEW i \in Imports,
             ~(IsCompleted(imports'[i]) /\ ~IsCompleted(imports[i])), NEW e \in Keys,
             catalog'[e] # catalog[e]
      PROVE  catalog'[e].by # i
  <2> SUFFICES ASSUME catalog'[e].by = i PROVE FALSE
    OBVIOUS
  <2>1. FinishCommit(i)
    BY <1>2, WrittenByImport
  <2>2. imports[i].status = "validated"
    BY <1>2, <2>1, CommitKnown DEF FinishCommit
  <2>3. DOMAIN imports = Imports /\ DOMAIN imports[i] = {"status", "sheet", "staged", "plan"}
    BY <1>2, <2>2 DEF IngestionInv, ImportGood
  <2> DEFINE row == [imports[i] EXCEPT !.status = "completed", !.staged = @ /\ ~work[i].imaged]
  <2>4. DOMAIN row = {"status", "sheet", "staged", "plan"} /\ row.status = "completed"
    BY <2>3
  <2>5. imports'[i] = row
    BY <2>1, <2>3 DEF FinishCommit, SetImport
  <2>6. ~IsCompleted(imports[i])
    BY <2>2 DEF IsCompleted
  <2> QED BY <1>2, <2>4, <2>5, <2>6 DEF IsCompleted
<1>3. IngestionInv /\ [IngestionNext]_importVars =>
        [\A i \in Imports :
            IF IsCompleted(imports'[i]) /\ ~IsCompleted(imports[i])
            THEN \A a \in Asked(i) :
                    LET row == Rows(i)[a[1]] IN
                    \E n \in 1..2 : LET e == Key(a[2], row.variant, n) IN
                        e \in Keys /\ Alive(catalog'[e]) /\ catalog'[e].by = i
                        /\ catalog'[e].value = Says(row, a[2])
            ELSE \A e \in Keys : catalog'[e] # catalog[e] => catalog'[e].by # i]_importVars
  BY <1>1, <1>2
<1> QED BY <1>3, IngestionInductive, PTL DEF IngestionSpec, AllOrNothing
-----------------------------------------------------------------------------
(* Promotions and coupons.  A checkout that has locked a promotion counts  *)
(* its redemptions and reads its terms while nobody else may add to the    *)
(* ones or rewrite the others; the counters count the redemptions.         *)

IsSequence(s) == \E S : s \in Seq(S)

DiscountsShaped ==
    /\ campaign = [p \in Campaigns |-> campaign[p]]
    /\ \A p \in Campaigns : /\ campaign[p].version \in Nat
                            /\ campaign[p].status # "none" => campaign[p].version > 0
    /\ freezing = [f \in Freezes |-> freezing[f]]
    /\ \A f \in Freezes :
        freezing[f] \in [step : Steps, promotions : SUBSET Campaigns,
                         coupons : {freezing[f].coupons}, lines : {freezing[f].lines}]
    /\ \A p \in Campaigns : IsSequence(redemptions[p])
    /\ \A p \in Campaigns : \A i \in DOMAIN redemptions[p] :
        redemptions[p][i].coupon \in Vouchers \cup {NoVoucher}
    /\ usage \in [UsageScope -> Nat]

\* The history of a promotion ends with what it is now.
TermsRecorded ==
    /\ termsAt = [p \in Campaigns |-> termsAt[p]]
    /\ \A p \in Campaigns :
        /\ IsSequence(termsAt[p]) /\ Len(termsAt[p]) = campaign[p].version
        /\ campaign[p].version > 0 => termsAt[p][campaign[p].version] = campaign[p].terms

\* A promotion is locked by one checkout.
LockedByOne ==
    \A f \in Freezes : \A g \in Freezes \ {f} : \A p \in Campaigns :
        ~(HoldsPromotion(f, p) /\ HoldsPromotion(g, p))

\* The redemptions of a promotion by a buyer, and with a coupon.
ByBuyer(p, b) == {i \in DOMAIN redemptions[p] : redemptions[p][i].buyer = b}
WithCoupon(p, k) == {i \in DOMAIN redemptions[p] : redemptions[p][i].coupon = k}

\* The usage counters count the redemptions.
UsageExact ==
    \A p \in Campaigns, k \in Vouchers \cup {NoVoucher}, b \in Buyers :
        usage[<<p, k, b>>] = Cardinality(ByBuyer(p, b) \cap WithCoupon(p, k))

\* One more redemption is within the limits of the promotion and of the coupon.
OneMore(p, k, b, n) ==
    /\ Below(Len(redemptions[p]), TermsOf[p][n].limit)
    /\ Below(Cardinality(ByBuyer(p, b)), TermsOf[p][n].perCustomer)
    /\ k # NoVoucher =>
         /\ Below(Cardinality(WithCoupon(p, k)), VoucherTerms[k].limit)
         /\ Below(Cardinality(WithCoupon(p, k) \cap ByBuyer(p, b)), VoucherTerms[k].perCustomer)

\* What a checkout evaluated of a promotion it has locked is still so.
LineTrue(f, line, promotions, lines) ==
    /\ line.promotion \in Campaigns /\ line.coupon \in Vouchers \cup {NoVoucher}
    /\ \A other \in lines : other.promotion = line.promotion => other = line
    /\ line.promotion \in promotions =>
         /\ line.terms = campaign[line.promotion].terms
         /\ OneMore(line.promotion, line.coupon, BuyerOf[f], line.terms)

LinesTrue ==
    \A f \in Freezes : freezing[f].step = "evaluated" =>
        \A line \in freezing[f].lines :
            LineTrue(f, line, freezing[f].promotions, freezing[f].lines)

\* A redemption records a version there was.
VersionsRecorded ==
    \A p \in Campaigns : \A i \in DOMAIN redemptions[p] :
        redemptions[p][i].locked => redemptions[p][i].version \in DOMAIN termsAt[p]

DiscountsInv ==
    /\ DiscountsShaped
    /\ TermsRecorded
    /\ LockedByOne
    /\ UsageExact
    /\ LinesTrue
    /\ VersionsRecorded
    /\ WithinLimits
    /\ SnapshotTrue

-----------------------------------------------------------------------------
\* One row more.
LEMMA Appended ==
    ASSUME NEW s, IsSequence(s), NEW e
    PROVE  /\ IsSequence(Append(s, e))
           /\ Len(s) \in Nat /\ DOMAIN s = 1..Len(s)
           /\ Len(Append(s, e)) = Len(s) + 1 /\ DOMAIN Append(s, e) = 1..(Len(s) + 1)
           /\ \A i \in 1..Len(s) : Append(s, e)[i] = s[i]
           /\ Append(s, e)[Len(s) + 1] = e
<1>1. PICK S : s \in Seq(S)
  BY DEF IsSequence
<1>2. s \in Seq(S \cup {e}) /\ e \in S \cup {e}
  BY <1>1
<1>3. Append(s, e) \in Seq(S \cup {e})
  BY <1>2
<1>4. IsSequence(Append(s, e))
  BY <1>3 DEF IsSequence
<1> QED BY <1>2, <1>3, <1>4

LEMMA SequenceDomain ==
    ASSUME NEW s, IsSequence(s)
    PROVE  Len(s) \in Nat /\ DOMAIN s = 1..Len(s)
BY DEF IsSequence

LEMMA RowsFinite ==
    ASSUME DiscountsShaped, NEW p \in Campaigns
    PROVE  /\ Len(redemptions[p]) \in Nat /\ DOMAIN redemptions[p] = 1..Len(redemptions[p])
           /\ IsFiniteSet(DOMAIN redemptions[p])
           /\ \A S \in SUBSET DOMAIN redemptions[p] : IsFiniteSet(S) /\ Cardinality(S) \in Nat
<1>1. Len(redemptions[p]) \in Nat /\ DOMAIN redemptions[p] = 1..Len(redemptions[p])
  BY SequenceDomain DEF DiscountsShaped
<1>2. IsFiniteSet(1..Len(redemptions[p]))
  BY <1>1, FS_Interval
<1>3. \A S \in SUBSET (1..Len(redemptions[p])) : IsFiniteSet(S) /\ Cardinality(S) \in Nat
  BY <1>2, FS_Subset, FS_CardinalityType
<1> QED BY <1>1, <1>2, <1>3

\* The uses of a customer with any coupon and without one are his redemptions.
LEMMA CustomerPromotionUsageExact ==
    ASSUME DiscountsShaped, UsageExact, NEW p \in Campaigns, NEW b \in Buyers
    PROVE  CustomerPromotionUsage(p, b) = Cardinality(ByBuyer(p, b))
<1> DEFINE K == Vouchers \cup {NoVoucher}
           D == ByBuyer(p, b)
           c == [i \in D |-> redemptions[p][i].coupon]
           f == [k \in K |-> usage[<<p, k, b>>]]
           g == [k \in K |-> Cardinality({i \in D : c[i] = k})]
<1>1. IsFiniteSet(K)
  BY VouchersAssumption, FS_AddElement
<1>2. D \in SUBSET DOMAIN redemptions[p]
  BY DEF ByBuyer
<1>3. IsFiniteSet(D)
  BY <1>2, RowsFinite
<1>4. \A i \in D : c[i] \in K
  BY <1>2 DEF DiscountsShaped
<1>5. \A k \in K : usage[<<p, k, b>>] = Cardinality({i \in D : c[i] = k})
  <2> TAKE k \in K
  <2>1. ByBuyer(p, b) \cap WithCoupon(p, k) = {i \in D : c[i] = k}
    BY DEF ByBuyer, WithCoupon
  <2> HIDE DEF D, c
  <2> QED BY <2>1 DEF UsageExact
<1>6. f = g
  BY <1>5
<1> HIDE DEF c, D
<1>7. SumFunctionOnSet(g, K) = Cardinality(D)
  BY <1>1, <1>3, <1>4, SumOfClasses
<1>8. CustomerPromotionUsage(p, b) = SumFunctionOnSet(f, K)
  BY DEF CustomerPromotionUsage, CustomerUsage
<1> QED BY <1>6, <1>7, <1>8 DEF D

\* The coupon that stands for a promotion is one of its coupons.
LEMMA CouponOfTyped ==
    ASSUME NEW p, NEW coupons \in SUBSET Vouchers
    PROVE  /\ CouponOf(p, coupons) \in Vouchers \cup {NoVoucher}
           /\ CouponOf(p, coupons) # NoVoucher => VoucherTerms[CouponOf(p, coupons)].promotion = p
<1> DEFINE its == {k \in coupons : VoucherTerms[k].promotion = p}
<1>1. CASE its = {}
  BY <1>1 DEF CouponOf
<1>2. CASE its # {}
  <2>1. its \in SUBSET Vouchers
    OBVIOUS
  <2>2. its \in SUBSET Nat /\ IsFiniteSet(its)
    BY <2>1, VouchersAssumption, FS_Subset
  <2>3. Max(its) \in its
    <3> HIDE DEF its
    <3> QED BY <1>2, <2>2, GreatestMember
  <2>4. CouponOf(p, coupons) = Max(its)
    BY <1>2 DEF CouponOf
  <2> QED BY <2>3, <2>4
<1> QED BY <1>1, <1>2

\* A promotion that qualifies has room for one more redemption.
LEMMA QualifiesHasRoom ==
    ASSUME DiscountsShaped, UsageExact, NEW p \in Campaigns, NEW b \in Buyers,
           NEW k \in Vouchers \cup {NoVoucher},
           k # NoVoucher => VoucherTerms[k].promotion = p, Qualifies(p, k, b)
    PROVE  OneMore(p, k, b, campaign[p].terms)
<1> DEFINE t == TermsOf[p][campaign[p].terms]
<1>1. /\ Below(PromotionUsage(p), t.limit)
      /\ Below(CustomerPromotionUsage(p, b), t.perCustomer)
      /\ k # NoVoucher => CouponAccepted(p, k, b)
  BY DEF Qualifies, Terms
<1>2. Below(Cardinality(ByBuyer(p, b)), t.perCustomer)
  BY <1>1, CustomerPromotionUsageExact
<1>3. ASSUME k # NoVoucher
      PROVE  /\ Below(Cardinality(WithCoupon(p, k)), VoucherTerms[k].limit)
             /\ Below(Cardinality(WithCoupon(p, k) \cap ByBuyer(p, b)), VoucherTerms[k].perCustomer)
  <2>1. /\ Below(CustomerUsage(p, b, k), VoucherTerms[k].perCustomer)
        /\ Below(CouponUsage(k), VoucherTerms[k].limit)
    BY <1>1, <1>3 DEF CouponAccepted
  <2>2. CouponUsage(k) = Cardinality(WithCoupon(p, k))
    BY <1>3 DEF CouponUsage, WithCoupon
  <2>3. CustomerUsage(p, b, k) = Cardinality(ByBuyer(p, b) \cap WithCoupon(p, k))
    BY DEF CustomerUsage, UsageExact
  <2>4. ByBuyer(p, b) \cap WithCoupon(p, k) = WithCoupon(p, k) \cap ByBuyer(p, b)
    OBVIOUS
  <2> QED BY <2>1, <2>2, <2>3, <2>4
<1> QED BY <1>1, <1>2, <1>3 DEF OneMore, PromotionUsage

\* Stacking chooses among the candidates.
LEMMA StackingChooses ==
    ASSUME NEW candidates
    PROVE  ResolveStacking(candidates) \subseteq candidates
BY DEF ResolveStacking

-----------------------------------------------------------------------------
LEMMA DiscountsInitInv == DiscountsInit => DiscountsInv
<1> SUFFICES ASSUME DiscountsInit PROVE DiscountsInv
  OBVIOUS
<1>0. IsSequence(<<>>) /\ Len(<<>>) = 0 /\ DOMAIN <<>> = {}
  BY DEF IsSequence
<1>1. \A p \in Campaigns : redemptions[p] = <<>>
  BY DEF DiscountsInit
<1>2. freezing = [f \in Freezes |-> NotBegun]
  BY DEF DiscountsInit
<1>3. \A f \in Freezes : freezing[f] = NotBegun /\ freezing[f].step = "none"
  BY <1>2 DEF NotBegun
<1>4. DiscountsShaped
  <2>1. \A p \in Campaigns : /\ campaign[p].version \in Nat
                             /\ campaign[p].status # "none" => campaign[p].version > 0
    BY DEF DiscountsInit
  <2>2. \A f \in Freezes :
          freezing[f] \in [step : Steps, promotions : SUBSET Campaigns,
                           coupons : {freezing[f].coupons}, lines : {freezing[f].lines}]
    BY <1>3 DEF NotBegun, Steps
  <2> QED BY <1>0, <1>1, <2>1, <2>2 DEF DiscountsInit, DiscountsShaped
<1>5. TermsRecorded
  <2>1. IsSequence(<<1, 1>>) /\ Len(<<1, 1>>) = 2 /\ <<1, 1>>[2] = 1
    <3>1. <<1, 1>> \in Seq({1})
      OBVIOUS
    <3> QED BY <3>1 DEF IsSequence
  <2> QED BY <1>0, <2>1 DEF DiscountsInit, TermsRecorded
<1>6. LockedByOne /\ LinesTrue
  BY <1>3 DEF LockedByOne, LinesTrue, HoldsPromotion
<1>7. UsageExact
  <2> SUFFICES ASSUME NEW p \in Campaigns, NEW k \in Vouchers \cup {NoVoucher}, NEW b \in Buyers
               PROVE  usage[<<p, k, b>>] = Cardinality(ByBuyer(p, b) \cap WithCoupon(p, k))
    BY DEF UsageExact
  <2>1. ByBuyer(p, b) \cap WithCoupon(p, k) = {}
    BY <1>0, <1>1 DEF ByBuyer
  <2>2. usage[<<p, k, b>>] = 0
    BY DEF DiscountsInit, UsageScope
  <2> QED BY <2>1, <2>2, FS_EmptySet
<1>8. VersionsRecorded /\ WithinLimits /\ SnapshotTrue
  BY <1>0, <1>1 DEF VersionsRecorded, WithinLimits, SnapshotTrue
<1> QED BY <1>4, <1>5, <1>6, <1>7, <1>8 DEF DiscountsInv

-----------------------------------------------------------------------------
(* A checkout goes on                                                        *)

FreezingRow(record) ==
    record \in [step : Steps, promotions : SUBSET Campaigns, coupons : {record.coupons},
                lines : {record.lines}]

\* What was redeemed is what the invariant says of it.
LEMMA NothingRedeemed ==
    ASSUME DiscountsInv, redemptions' = redemptions, usage' = usage
    PROVE  /\ UsageExact' /\ WithinLimits'
           /\ \A p, k, b, n : OneMore(p, k, b, n)' = OneMore(p, k, b, n)
<1>1. \A p, b : ByBuyer(p, b)' = ByBuyer(p, b)
  BY DEF ByBuyer
<1>2. \A p, k : WithCoupon(p, k)' = WithCoupon(p, k)
  BY DEF WithCoupon
<1>3. UsageExact'
  BY <1>1, <1>2 DEF DiscountsInv, UsageExact
<1>4. WithinLimits'
  BY DEF DiscountsInv, WithinLimits
<1>5. ASSUME NEW p, NEW k, NEW b, NEW n PROVE OneMore(p, k, b, n)' = OneMore(p, k, b, n)
  <2>1. ByBuyer(p, b)' = ByBuyer(p, b) /\ WithCoupon(p, k)' = WithCoupon(p, k)
    BY <1>1, <1>2
  <2>2. /\ Len(redemptions'[p]) = Len(redemptions[p])
        /\ Cardinality(ByBuyer(p, b))' = Cardinality(ByBuyer(p, b))
        /\ Cardinality(WithCoupon(p, k))' = Cardinality(WithCoupon(p, k))
        /\ Cardinality(WithCoupon(p, k) \cap ByBuyer(p, b))'
              = Cardinality(WithCoupon(p, k) \cap ByBuyer(p, b))
    BY <2>1
  <2> QED BY <2>2 DEF OneMore
<1> QED BY <1>3, <1>4, <1>5

LEMMA SameRows ==
    ASSUME NEW p, redemptions'[p] = redemptions[p], NEW k, NEW b, NEW n
    PROVE  OneMore(p, k, b, n)' = OneMore(p, k, b, n)
<1>1. ByBuyer(p, b)' = ByBuyer(p, b) /\ WithCoupon(p, k)' = WithCoupon(p, k)
  BY DEF ByBuyer, WithCoupon
<1>2. /\ Len(redemptions'[p]) = Len(redemptions[p])
      /\ Cardinality(ByBuyer(p, b))' = Cardinality(ByBuyer(p, b))
      /\ Cardinality(WithCoupon(p, k))' = Cardinality(WithCoupon(p, k))
      /\ Cardinality(WithCoupon(p, k) \cap ByBuyer(p, b))'
            = Cardinality(WithCoupon(p, k) \cap ByBuyer(p, b))
  BY <1>1
<1> QED BY <1>2 DEF OneMore

\* One checkout goes to the next step and redeems nothing.
LEMMA FreezingMoves ==
    ASSUME DiscountsInv, NEW f \in Freezes, NEW record, FreezingRow(record), Advance(f, record),
           UNCHANGED <<redemptions, usage>>,
           record.step \in {"locked", "evaluated"} =>
               \A p \in record.promotions : \A g \in Freezes \ {f} : ~HoldsPromotion(g, p),
           record.step = "evaluated" =>
               \A line \in record.lines : LineTrue(f, line, record.promotions, record.lines)
    PROVE  DiscountsInv'
<1>1. freezing' = [freezing EXCEPT ![f] = record] /\ UNCHANGED <<campaign, termsAt>>
  BY DEF Advance
<1>2. freezing = [g \in Freezes |-> freezing[g]]
  BY DEF DiscountsInv, DiscountsShaped
<1>3. freezing'[f] = record /\ \A g \in Freezes \ {f} : freezing'[g] = freezing[g]
  BY <1>1, <1>2
<1>4. freezing' = [g \in Freezes |-> freezing'[g]]
  BY <1>1, <1>2
<1>5. DiscountsShaped'
  <2>1. \A g \in Freezes :
          freezing'[g] \in [step : Steps, promotions : SUBSET Campaigns,
                            coupons : {freezing'[g].coupons}, lines : {freezing'[g].lines}]
    BY <1>3 DEF DiscountsInv, DiscountsShaped, FreezingRow
  <2> QED BY <1>1, <1>4, <2>1 DEF DiscountsInv, DiscountsShaped
<1>6. TermsRecorded'
  BY <1>1 DEF DiscountsInv, TermsRecorded
<1>7. LockedByOne'
  BY <1>3 DEF DiscountsInv, LockedByOne, HoldsPromotion
<1>8. redemptions' = redemptions /\ usage' = usage /\ campaign' = campaign /\ termsAt' = termsAt
  BY <1>1
<1>9. LinesTrue'
  <2>1. \A g, line, promotions, lines :
          LineTrue(g, line, promotions, lines)' = LineTrue(g, line, promotions, lines)
    BY <1>8, NothingRedeemed DEF LineTrue
  <2> SUFFICES ASSUME NEW g \in Freezes, freezing'[g].step = "evaluated",
                      NEW line \in freezing'[g].lines
               PROVE  LineTrue(g, line, freezing'[g].promotions, freezing'[g].lines)
    BY <2>1 DEF LinesTrue
  <2> QED BY <1>3 DEF DiscountsInv, LinesTrue
<1>10. UsageExact' /\ WithinLimits'
  BY <1>8, NothingRedeemed
<1>11. VersionsRecorded' /\ SnapshotTrue'
  BY <1>8 DEF DiscountsInv, VersionsRecorded, SnapshotTrue
<1> QED BY <1>5, <1>6, <1>7, <1>9, <1>10, <1>11 DEF DiscountsInv

LEMMA NotBegunRow ==
    NotBegun.step = "none" /\ FreezingRow(NotBegun)
    /\ NotBegun.promotions = {} /\ NotBegun.lines = {}
BY DEF NotBegun, FreezingRow, Steps

LEMMA FreezingFields ==
    ASSUME DiscountsInv, NEW f \in Freezes
    PROVE  FreezingRow(freezing[f])
BY DEF DiscountsInv, DiscountsShaped, FreezingRow

LEMMA ListInv ==
    ASSUME DiscountsInv, NEW f \in Freezes, List(f)
    PROVE  DiscountsInv'
<1> DEFINE record == [NotBegun EXCEPT !.step = "listed", !.promotions = ListActive,
                                      !.coupons = ListByCodes(f)]
<1>1. ListActive \in SUBSET Campaigns
  BY DEF ListActive
<1>2. FreezingRow(record) /\ record.step = "listed"
  BY <1>1, NotBegunRow DEF FreezingRow, Steps
<1>3. Advance(f, record) /\ UNCHANGED <<redemptions, usage>>
  BY DEF List
<1> HIDE DEF record
<1> QED BY <1>2, <1>3, FreezingMoves

LEMMA LockRowsInv ==
    ASSUME DiscountsInv, NEW f \in Freezes, LockRows(f)
    PROVE  DiscountsInv'
<1> DEFINE record == [freezing[f] EXCEPT !.step = "locked"]
<1>1. FreezingRow(record) /\ record.step = "locked" /\ record.promotions = freezing[f].promotions
  BY FreezingFields DEF FreezingRow, Steps
<1>2. Advance(f, record) /\ UNCHANGED <<redemptions, usage>>
  BY DEF LockRows
<1>3. \A p \in freezing[f].promotions : \A g \in Freezes : ~HoldsPromotion(g, p)
  BY DEF LockRows, PromotionFree
<1> HIDE DEF record
<1> QED BY <1>1, <1>2, <1>3, FreezingMoves

LEMMA EvaluateCartInv ==
    ASSUME DiscountsInv, NEW f \in Freezes, EvaluateCart(f)
    PROVE  DiscountsInv'
<1> DEFINE b == BuyerOf[f]
           coupons == ListByCodes(f)
           selected == ResolveStacking(Candidates(b, coupons))
           Line(p) == [promotion |-> p, coupon |-> CouponOf(p, coupons),
                       amount |-> LineAmount(p, selected, b), terms |-> campaign[p].terms]
           lines == {Line(p) : p \in selected}
           record == [freezing[f] EXCEPT !.step = "evaluated", !.lines = lines]
<1>1. /\ FreezingRow(record) /\ record.step = "evaluated"
      /\ record.promotions = freezing[f].promotions /\ record.lines = lines
  <2> HIDE DEF lines
  <2> QED BY FreezingFields DEF FreezingRow, Steps
<1>2. Advance(f, record) /\ UNCHANGED <<redemptions, usage>> /\ freezing[f].step = "locked"
  BY DEF EvaluateCart
<1>3. \A p \in freezing[f].promotions : \A g \in Freezes \ {f} : ~HoldsPromotion(g, p)
  <2>1. \A p \in freezing[f].promotions : p \in Campaigns /\ HoldsPromotion(f, p)
    BY <1>2, FreezingFields DEF FreezingRow, HoldsPromotion
  <2> QED BY <2>1 DEF DiscountsInv, LockedByOne
<1>4. coupons \in SUBSET Vouchers
  BY VouchersAssumption DEF ListByCodes
<1>5. b \in Buyers
  BY DEF Buyers
<1>6. ASSUME NEW p \in selected
      PROVE  /\ p \in Campaigns /\ CouponOf(p, coupons) \in Vouchers \cup {NoVoucher}
             /\ OneMore(p, CouponOf(p, coupons), b, campaign[p].terms)
  <2>1. p \in Candidates(b, coupons)
    BY StackingChooses
  <2>2. p \in Campaigns /\ Qualifies(p, CouponOf(p, coupons), b)
    <3> HIDE DEF coupons, b
    <3> QED BY <2>1 DEF Candidates, ListActive
  <2>3. /\ CouponOf(p, coupons) \in Vouchers \cup {NoVoucher}
        /\ CouponOf(p, coupons) # NoVoucher => VoucherTerms[CouponOf(p, coupons)].promotion = p
    <3> HIDE DEF coupons
    <3> QED BY <1>4, CouponOfTyped
  <2>4. OneMore(p, CouponOf(p, coupons), b, campaign[p].terms)
    <3> HIDE DEF coupons, b
    <3> QED BY <1>5, <2>2, <2>3, QualifiesHasRoom DEF DiscountsInv
  <2> QED BY <2>2, <2>3, <2>4
<1> HIDE DEF selected, coupons
<1>7. \A line \in lines : LineTrue(f, line, freezing[f].promotions, lines)
  <2> SUFFICES ASSUME NEW p \in selected
               PROVE  LineTrue(f, Line(p), freezing[f].promotions, lines)
    OBVIOUS
  <2>1. /\ Line(p).promotion = p /\ Line(p).coupon = CouponOf(p, coupons)
        /\ Line(p).terms = campaign[p].terms
    OBVIOUS
  <2>2. \A other \in lines : other.promotion = p => other = Line(p)
    OBVIOUS
  <2> HIDE DEF Line, lines
  <2> QED BY <1>6, <2>1, <2>2 DEF LineTrue
<1> HIDE DEF lines, record
<1> QED BY <1>1, <1>2, <1>3, <1>7, FreezingMoves

LEMMA FreezeEndsInv ==
    ASSUME DiscountsInv, NEW f \in Freezes, AbandonFreeze(f) \/ LinkOrder(f) \/ CompleteOrder(f)
    PROVE  DiscountsInv'
<1>1. CASE AbandonFreeze(f)
  BY <1>1, NotBegunRow, FreezingMoves DEF AbandonFreeze
<1>2. ASSUME NEW step \in {"ordered", "confirmed"},
             Advance(f, [freezing[f] EXCEPT !.step = step]), UNCHANGED <<redemptions, usage>>
      PROVE  DiscountsInv'
  <2> DEFINE record == [freezing[f] EXCEPT !.step = step]
  <2>1. FreezingRow(record) /\ record.step = step
    BY FreezingFields DEF FreezingRow, Steps
  <2>2. Advance(f, record)
    BY <1>2
  <2> HIDE DEF record
  <2> QED BY <1>2, <2>1, <2>2, FreezingMoves
<1> QED BY <1>1, <1>2 DEF LinkOrder, CompleteOrder

-----------------------------------------------------------------------------
(* The owner                                                                 *)

LEMMA RewritesInv ==
    ASSUME DiscountsInv, NEW p \in Campaigns, NEW status, NEW deleted, NEW terms,
           Rewrites(p, status, deleted, terms)
    PROVE  DiscountsInv'
<1> DEFINE n == campaign[p].version + 1
           row == [status |-> status, deleted |-> deleted, version |-> n, terms |-> terms]
           new == Append(termsAt[p], terms)
<1>1. /\ PromotionFree(p) /\ UNCHANGED <<freezing, redemptions, usage>>
      /\ campaign' = [campaign EXCEPT ![p] = row]
      /\ termsAt' = [termsAt EXCEPT ![p] = new]
  BY DEF Rewrites
<1>2. n \in Nat /\ n > 0 /\ campaign[p].version \in Nat
  BY DEF DiscountsInv, DiscountsShaped
<1>3. /\ IsSequence(new) /\ Len(new) = n /\ DOMAIN new = 1..n /\ new[n] = terms
      /\ DOMAIN termsAt[p] = 1..campaign[p].version
      /\ \A i \in DOMAIN termsAt[p] : new[i] = termsAt[p][i]
  BY Appended DEF DiscountsInv, TermsRecorded
<1>4. DOMAIN termsAt[p] \subseteq DOMAIN new
  BY <1>2, <1>3
<1>5. campaign = [x \in Campaigns |-> campaign[x]] /\ termsAt = [x \in Campaigns |-> termsAt[x]]
  BY DEF DiscountsInv, DiscountsShaped, TermsRecorded
<1>6. /\ row.version = n /\ row.terms = terms
  OBVIOUS
<1> HIDE DEF row, new, n
<1>7. /\ campaign'[p] = row /\ \A x \in Campaigns \ {p} : campaign'[x] = campaign[x]
      /\ termsAt'[p] = new /\ \A x \in Campaigns \ {p} : termsAt'[x] = termsAt[x]
      /\ campaign' = [x \in Campaigns |-> campaign'[x]]
      /\ termsAt' = [x \in Campaigns |-> termsAt'[x]]
  BY <1>1, <1>5
<1>8. DiscountsShaped'
  <2>1. \A x \in Campaigns : /\ campaign'[x].version \in Nat
                             /\ campaign'[x].status # "none" => campaign'[x].version > 0
    BY <1>2, <1>6, <1>7 DEF DiscountsInv, DiscountsShaped
  <2> QED BY <1>1, <1>7, <2>1 DEF DiscountsInv, DiscountsShaped
<1>9. TermsRecorded'
  BY <1>3, <1>6, <1>7 DEF DiscountsInv, TermsRecorded
<1>10. LockedByOne' /\ UsageExact'
  BY <1>1 DEF DiscountsInv, LockedByOne, HoldsPromotion, UsageExact, ByBuyer, WithCoupon
<1>11. LinesTrue'
  <2> SUFFICES ASSUME NEW f \in Freezes, freezing[f].step = "evaluated",
                      NEW line \in freezing[f].lines
               PROVE  LineTrue(f, line, freezing[f].promotions, freezing[f].lines)'
    BY <1>1 DEF LinesTrue, LineTrue, OneMore, ByBuyer, WithCoupon
  <2>1. LineTrue(f, line, freezing[f].promotions, freezing[f].lines)
    BY DEF DiscountsInv, LinesTrue
  <2>2. line.promotion \in freezing[f].promotions => line.promotion # p
    BY <1>1 DEF PromotionFree, HoldsPromotion
  <2> QED BY <1>1, <1>7, <2>1, <2>2 DEF LineTrue, OneMore, ByBuyer, WithCoupon
<1>12. VersionsRecorded'
  BY <1>1, <1>4, <1>7 DEF DiscountsInv, VersionsRecorded
<1>13. SnapshotTrue'
  <2> SUFFICES ASSUME NEW x \in Campaigns, NEW i \in DOMAIN redemptions[x], redemptions[x][i].locked
               PROVE  termsAt'[x][redemptions[x][i].version] = redemptions[x][i].terms
    BY <1>1 DEF SnapshotTrue
  <2>1. termsAt[x][redemptions[x][i].version] = redemptions[x][i].terms
    BY DEF DiscountsInv, SnapshotTrue
  <2>2. redemptions[x][i].version \in DOMAIN termsAt[x]
    BY DEF DiscountsInv, VersionsRecorded
  <2> QED BY <1>3, <1>7, <2>1, <2>2
<1>14. WithinLimits'
  BY <1>1 DEF DiscountsInv, WithinLimits
<1> QED BY <1>8, <1>9, <1>10, <1>11, <1>12, <1>13, <1>14 DEF DiscountsInv

\* Coupons and the clock are not what was evaluated.
LEMMA ElsewhereInv ==
    ASSUME DiscountsInv, campaign' = campaign, freezing' = freezing, redemptions' = redemptions,
           usage' = usage, termsAt' = termsAt
    PROVE  DiscountsInv'
<1>1. DiscountsShaped' /\ TermsRecorded' /\ LockedByOne'
  BY DEF DiscountsInv, DiscountsShaped, TermsRecorded, LockedByOne, HoldsPromotion
<1>2. UsageExact' /\ WithinLimits' /\ LinesTrue'
  <2>1. LinesTrue'
    BY NothingRedeemed DEF DiscountsInv, LinesTrue, LineTrue
  <2> QED BY <2>1, NothingRedeemed
<1>3. VersionsRecorded' /\ SnapshotTrue'
  BY DEF DiscountsInv, VersionsRecorded, SnapshotTrue
<1> QED BY <1>1, <1>2, <1>3 DEF DiscountsInv

-----------------------------------------------------------------------------
(* Redemptions                                                               *)

\* What one more redemption changes of those of its promotion.
LEMMA OneRedeemed ==
    ASSUME DiscountsShaped, NEW p \in Campaigns, NEW r, redemptions'[p] = Append(redemptions[p], r)
    PROVE  LET n == Len(redemptions[p]) IN
           /\ n \in Nat /\ DOMAIN redemptions[p] = 1..n
           /\ IsSequence(redemptions'[p]) /\ Len(redemptions'[p]) = n + 1
           /\ DOMAIN redemptions'[p] = 1..(n + 1) /\ redemptions'[p][n + 1] = r
           /\ \A i \in 1..n : redemptions'[p][i] = redemptions[p][i]
BY Appended DEF DiscountsShaped

\* Among the rows, those of a customer with a coupon.
Chosen(rows, b, k) == {i \in DOMAIN rows : rows[i].buyer = b /\ rows[i].coupon = k}

LEMMA Counted ==
    ASSUME NEW s, IsSequence(s), NEW r, NEW k, NEW b
    PROVE  Cardinality(Chosen(Append(s, r), b, k))
             = Cardinality(Chosen(s, b, k)) + IF r.buyer = b /\ r.coupon = k THEN 1 ELSE 0
<1> DEFINE n == Len(s)
           rows == Append(s, r)
           old == Chosen(s, b, k)
           new == Chosen(rows, b, k)
<1>1. /\ n \in Nat /\ DOMAIN s = 1..n
      /\ DOMAIN rows = 1..(n + 1) /\ rows[n + 1] = r
      /\ \A i \in 1..n : rows[i] = s[i]
  BY Appended
<1> HIDE DEF n, rows
<1>2. old \in SUBSET (1..n)
  BY <1>1 DEF Chosen
<1>3. new = IF r.buyer = b /\ r.coupon = k THEN old \cup {n + 1} ELSE old
  BY <1>1 DEF Chosen
<1>4. IsFiniteSet(old) /\ Cardinality(old) \in Nat
  <2>1. IsFiniteSet(1..n)
    BY <1>1, FS_Interval
  <2>2. IsFiniteSet(old)
    BY <1>2, <2>1, FS_Subset
  <2> QED BY <2>2, FS_CardinalityType
<1>5. n + 1 \notin old
  BY <1>1, <1>2
<1> HIDE DEF old, new
<1>6. Cardinality(old \cup {n + 1}) = Cardinality(old) + 1
  BY <1>4, <1>5, FS_AddElement
<1>7. Cardinality(new) = Cardinality(old) + IF r.buyer = b /\ r.coupon = k THEN 1 ELSE 0
  BY <1>3, <1>4, <1>6
<1> QED BY <1>7 DEF old, new, rows

\* The limits before the last redemption are those it was counted against,
\* and the earlier ones keep theirs.
LEMMA LimitsKept ==
    ASSUME DiscountsInv, NEW p \in Campaigns, NEW r, NEW rows, rows = Append(redemptions[p], r),
           r.locked => OneMore(p, r.coupon, r.buyer, r.terms),
           NEW i \in DOMAIN rows, rows[i].locked
    PROVE  KeepsLimits(p, rows, i)
<1> DEFINE n == Len(redemptions[p])
           s == rows[i]
           mine == {j \in 1..(i - 1) : rows[j].buyer = s.buyer}
           same == {j \in 1..(i - 1) : rows[j].coupon = s.coupon}
<1>1. /\ n \in Nat /\ DOMAIN redemptions[p] = 1..n
      /\ DOMAIN rows = 1..(n + 1) /\ rows[n + 1] = r
      /\ \A j \in 1..n : rows[j] = redemptions[p][j]
  BY Appended DEF DiscountsInv, DiscountsShaped
<1> HIDE DEF n
<1>2. CASE i = n + 1
  <2>1. s = r /\ i - 1 = n
    BY <1>1, <1>2
  <2>2. mine = ByBuyer(p, r.buyer) /\ same = WithCoupon(p, r.coupon)
    BY <1>1, <2>1 DEF ByBuyer, WithCoupon
  <2>3. OneMore(p, r.coupon, r.buyer, r.terms)
    BY <2>1
  <2>4. /\ Below(i - 1, TermsOf[p][s.terms].limit)
        /\ Below(Cardinality(mine), TermsOf[p][s.terms].perCustomer)
        /\ s.coupon # NoVoucher =>
             /\ Below(Cardinality(same), VoucherTerms[s.coupon].limit)
             /\ Below(Cardinality(same \cap mine), VoucherTerms[s.coupon].perCustomer)
    <3> HIDE DEF mine, same, s
    <3> QED BY <2>1, <2>2, <2>3 DEF OneMore, n
  <2> QED BY <2>4 DEF KeepsLimits
<1>3. CASE i \in 1..n
  <2>1. s = redemptions[p][i]
    BY <1>1, <1>3
  <2>2. /\ mine = {j \in 1..(i - 1) : redemptions[p][j].buyer = s.buyer}
        /\ same = {j \in 1..(i - 1) : redemptions[p][j].coupon = s.coupon}
    <3>1. \A j \in 1..(i - 1) : rows[j] = redemptions[p][j]
      BY <1>1, <1>3
    <3> QED BY <3>1
  <2>3. KeepsLimits(p, redemptions[p], i)
    BY <1>1, <1>3, <2>1 DEF DiscountsInv, WithinLimits
  <2> QED BY <2>1, <2>2, <2>3 DEF KeepsLimits
<1> QED BY <1>1, <1>2, <1>3

\* The redemption of a promotion in a cart is that of its only line.
LEMMA RedeemRows ==
    ASSUME DiscountsInv, NEW f \in Freezes, Redeem(f)
    PROVE  /\ \A line \in freezing[f].lines :
                /\ LineTrue(f, line, freezing[f].promotions, freezing[f].lines)
                /\ line.promotion \in Campaigns
                /\ redemptions'[line.promotion]
                     = Append(redemptions[line.promotion], Redemption(f, line))
           /\ \A p \in Campaigns : (\A line \in freezing[f].lines : line.promotion # p) =>
                redemptions'[p] = redemptions[p]
<1>1. \A line \in freezing[f].lines : LineTrue(f, line, freezing[f].promotions, freezing[f].lines)
  BY DEF Redeem, DiscountsInv, LinesTrue
<1>2. redemptions' = [p \in Campaigns |->
             IF \E line \in freezing[f].lines : line.promotion = p
             THEN Append(redemptions[p], Redemption(f, LineOf(f, p))) ELSE redemptions[p]]
  BY DEF Redeem
<1>3. ASSUME NEW line \in freezing[f].lines
      PROVE  /\ line.promotion \in Campaigns
             /\ redemptions'[line.promotion]
                  = Append(redemptions[line.promotion], Redemption(f, line))
  <2>1. /\ line.promotion \in Campaigns
        /\ \A other \in freezing[f].lines : other.promotion = line.promotion => other = line
    BY <1>1 DEF LineTrue
  <2>2. LineOf(f, line.promotion) = line
    BY <2>1 DEF LineOf
  <2> QED BY <1>2, <2>1, <2>2
<1> QED BY <1>1, <1>2, <1>3

LEMMA RedeemInv ==
    ASSUME DiscountsInv, NEW f \in Freezes, Redeem(f)
    PROVE  DiscountsInv'
<1> DEFINE lines == freezing[f].lines
           b == BuyerOf[f]
           record == [NotBegun EXCEPT !.step = "open"]
           Used(u) == \E line \in lines : u = <<line.promotion, line.coupon, b>>
<1>1. /\ \A line \in lines : /\ LineTrue(f, line, freezing[f].promotions, lines)
                             /\ line.promotion \in Campaigns
                             /\ redemptions'[line.promotion]
                                  = Append(redemptions[line.promotion], Redemption(f, line))
      /\ \A p \in Campaigns : (\A line \in lines : line.promotion # p) =>
            redemptions'[p] = redemptions[p]
  BY RedeemRows
<1>2. /\ campaign' = campaign /\ termsAt' = termsAt
      /\ freezing' = [freezing EXCEPT ![f] = record]
      /\ usage' = [u \in DOMAIN usage |-> IF Used(u) THEN usage[u] + 1 ELSE usage[u]]
      /\ \A line \in lines : /\ line.promotion \in ListActive
                             /\ \A g \in Freezes \ {f} : ~HoldsPromotion(g, line.promotion)
  BY DEF Redeem, Advance
<1>3. FreezingRow(record) /\ record.step = "open"
  BY NotBegunRow DEF FreezingRow, Steps
<1>4. freezing = [g \in Freezes |-> freezing[g]]
  BY DEF DiscountsInv, DiscountsShaped
<1> HIDE DEF record
<1>5. freezing'[f] = record /\ \A g \in Freezes \ {f} : freezing'[g] = freezing[g]
  BY <1>2, <1>4
<1>6. freezing' = [g \in Freezes |-> freezing'[g]]
  BY <1>2, <1>4
<1>7. \A line : /\ Redemption(f, line).coupon = line.coupon /\ Redemption(f, line).buyer = b
                /\ Redemption(f, line).version = campaign[line.promotion].version
                /\ Redemption(f, line).terms = line.terms
                /\ Redemption(f, line).locked = (line.promotion \in freezing[f].promotions)
  BY DEF Redemption
<1>8. DiscountsShaped
  BY DEF DiscountsInv
<1> HIDE DEF lines, b
<1>9. ASSUME NEW p \in Campaigns, NEW i \in DOMAIN redemptions'[p],
             \A line \in lines : line.promotion = p => i # Len(redemptions[p]) + 1
      PROVE  i \in DOMAIN redemptions[p] /\ redemptions'[p][i] = redemptions[p][i]
  <2>1. CASE \A line \in lines : line.promotion # p
    BY <1>1, <2>1
  <2>2. ASSUME NEW line \in lines, line.promotion = p
        PROVE  i \in DOMAIN redemptions[p] /\ redemptions'[p][i] = redemptions[p][i]
    <3>1. redemptions'[p] = Append(redemptions[p], Redemption(f, line))
      BY <1>1, <2>2
    <3>2. LET n == Len(redemptions[p]) IN
          /\ n \in Nat /\ DOMAIN redemptions[p] = 1..n
          /\ DOMAIN redemptions'[p] = 1..(n + 1)
          /\ \A j \in 1..n : redemptions'[p][j] = redemptions[p][j]
      BY <1>8, <3>1, OneRedeemed
    <3> QED BY <1>9, <2>2, <3>2
  <2> QED BY <2>1, <2>2
<1>10. ASSUME NEW line \in lines
       PROVE  redemptions'[line.promotion][Len(redemptions[line.promotion]) + 1] = Redemption(f, line)
  BY <1>1, <1>8, OneRedeemed
<1>11. \A p \in Campaigns : IsSequence(redemptions'[p])
  <2> TAKE p \in Campaigns
  <2>1. CASE \A line \in lines : line.promotion # p
    BY <1>1, <1>8, <2>1 DEF DiscountsShaped
  <2>2. ASSUME NEW line \in lines, line.promotion = p PROVE IsSequence(redemptions'[p])
    BY <1>1, <1>8, <2>2, OneRedeemed
  <2> QED BY <2>1, <2>2
<1>12. DiscountsShaped'
  <2>1. \A g \in Freezes :
          freezing'[g] \in [step : Steps, promotions : SUBSET Campaigns,
                            coupons : {freezing'[g].coupons}, lines : {freezing'[g].lines}]
    BY <1>3, <1>5, <1>8 DEF DiscountsShaped, FreezingRow
  <2>2. \A p \in Campaigns : \A i \in DOMAIN redemptions'[p] :
          redemptions'[p][i].coupon \in Vouchers \cup {NoVoucher}
    <3> TAKE p \in Campaigns
    <3> TAKE i \in DOMAIN redemptions'[p]
    <3>1. CASE \A line \in lines : line.promotion = p => i # Len(redemptions[p]) + 1
      BY <1>8, <1>9, <3>1 DEF DiscountsShaped
    <3>2. ASSUME NEW line \in lines, line.promotion = p, i = Len(redemptions[p]) + 1
          PROVE  redemptions'[p][i].coupon \in Vouchers \cup {NoVoucher}
      <4>1. redemptions'[p][i] = Redemption(f, line)
        BY <1>10, <3>2
      <4>2. Redemption(f, line).coupon = line.coupon
        BY <1>7
      <4>3. LineTrue(f, line, freezing[f].promotions, lines)
        BY <1>1, <3>2
      <4>4. line.coupon \in Vouchers \cup {NoVoucher}
        BY <4>3 DEF LineTrue
      <4> QED BY <4>1, <4>2, <4>4
    <3> QED BY <3>1, <3>2
  <2>3. usage' \in [UsageScope -> Nat]
    BY <1>2, <1>8 DEF DiscountsShaped
  <2> QED BY <1>2, <1>6, <1>8, <1>11, <2>1, <2>2, <2>3 DEF DiscountsShaped
<1>13. TermsRecorded'
  BY <1>2 DEF DiscountsInv, TermsRecorded
<1>14. LockedByOne'
  BY <1>3, <1>5 DEF DiscountsInv, LockedByOne, HoldsPromotion
<1>15. UsageExact'
  <2> SUFFICES ASSUME NEW p \in Campaigns, NEW k \in Vouchers \cup {NoVoucher}, NEW y \in Buyers
               PROVE  usage'[<<p, k, y>>] = Cardinality(ByBuyer(p, y) \cap WithCoupon(p, k))'
    BY DEF UsageExact
  <2>1. <<p, k, y>> \in UsageScope /\ usage[<<p, k, y>>] \in Nat
    BY <1>8 DEF DiscountsShaped, UsageScope
  <2>2. usage'[<<p, k, y>>] = IF Used(<<p, k, y>>) THEN usage[<<p, k, y>>] + 1 ELSE usage[<<p, k, y>>]
    BY <1>2, <1>8, <2>1 DEF DiscountsShaped
  <2>3. usage[<<p, k, y>>] = Cardinality(ByBuyer(p, y) \cap WithCoupon(p, k))
    BY DEF DiscountsInv, UsageExact
  <2>4. CASE \A line \in lines : line.promotion # p
    <3>1. ~Used(<<p, k, y>>)
      BY <2>4
    <3>2. redemptions'[p] = redemptions[p]
      BY <1>1, <2>4
    <3>3. (ByBuyer(p, y) \cap WithCoupon(p, k))' = ByBuyer(p, y) \cap WithCoupon(p, k)
      BY <3>2 DEF ByBuyer, WithCoupon
    <3> HIDE DEF Used
    <3> QED BY <2>2, <2>3, <3>1, <3>3
  <2>5. ASSUME NEW line \in lines, line.promotion = p
        PROVE  usage'[<<p, k, y>>] = Cardinality(ByBuyer(p, y) \cap WithCoupon(p, k))'
    <3>1. \A other \in lines : other.promotion = p => other = line
      BY <1>1, <2>5 DEF LineTrue
    <3>2. Used(<<p, k, y>>) <=> (b = y /\ line.coupon = k)
      BY <2>5, <3>1
    <3>3. PICK r : r = Redemption(f, line)
      OBVIOUS
    <3>4. redemptions'[p] = Append(redemptions[p], r) /\ r.buyer = b /\ r.coupon = line.coupon
      BY <1>1, <1>7, <2>5, <3>3
    <3>5. /\ ByBuyer(p, y) \cap WithCoupon(p, k) = Chosen(redemptions[p], y, k)
          /\ (ByBuyer(p, y) \cap WithCoupon(p, k))' = Chosen(redemptions'[p], y, k)
      BY DEF ByBuyer, WithCoupon, Chosen
    <3>6. Cardinality(Chosen(redemptions'[p], y, k))
             = Cardinality(Chosen(redemptions[p], y, k))
                 + IF r.buyer = y /\ r.coupon = k THEN 1 ELSE 0
      <4>1. IsSequence(redemptions[p]) /\ redemptions'[p] = Append(redemptions[p], r)
        BY <1>8, <3>4 DEF DiscountsShaped
      <4> QED BY <4>1, Counted
    <3>7. Cardinality(ByBuyer(p, y) \cap WithCoupon(p, k))'
             = Cardinality(ByBuyer(p, y) \cap WithCoupon(p, k))
                 + IF r.buyer = y /\ r.coupon = k THEN 1 ELSE 0
      <4>1. Cardinality(ByBuyer(p, y) \cap WithCoupon(p, k))' = Cardinality(Chosen(redemptions'[p], y, k))
        BY <3>5
      <4> QED BY <3>5, <3>6, <4>1
    <3> HIDE DEF Used
    <3> QED BY <2>1, <2>2, <2>3, <3>2, <3>4, <3>7
  <2> QED BY <2>4, <2>5
<1> HIDE DEF Used
<1>16. \A line \in lines : Redemption(f, line).locked =>
          OneMore(line.promotion, Redemption(f, line).coupon, Redemption(f, line).buyer,
                  Redemption(f, line).terms)
  BY <1>1, <1>7 DEF LineTrue, b
<1>17. WithinLimits'
  <2> SUFFICES ASSUME NEW p \in Campaigns, NEW i \in DOMAIN redemptions'[p], redemptions'[p][i].locked
               PROVE  KeepsLimits(p, redemptions'[p], i)
    BY DEF WithinLimits
  <2>1. CASE \A line \in lines : line.promotion # p
    <3>1. redemptions'[p] = redemptions[p]
      BY <1>1, <2>1
    <3> QED BY <3>1 DEF DiscountsInv, WithinLimits
  <2>2. ASSUME NEW line \in lines, line.promotion = p PROVE KeepsLimits(p, redemptions'[p], i)
    <3>1. PICK r : r = Redemption(f, line)
      OBVIOUS
    <3>2. redemptions'[p] = Append(redemptions[p], r) /\ (r.locked => OneMore(p, r.coupon, r.buyer, r.terms))
      BY <1>1, <1>16, <2>2, <3>1
    <3>3. PICK rows : rows = redemptions'[p]
      OBVIOUS
    <3>4. KeepsLimits(p, rows, i)
      BY <3>2, <3>3, LimitsKept
    <3> QED BY <3>3, <3>4
  <2> QED BY <2>1, <2>2
<1>18. LinesTrue'
  <2>1. ASSUME NEW g, NEW line, NEW promotions, NEW others,
               LineTrue(g, line, promotions, others),
               line.promotion \in promotions =>
                 redemptions'[line.promotion] = redemptions[line.promotion]
        PROVE  LineTrue(g, line, promotions, others)'
    <3>1. CASE line.promotion \notin promotions
      BY <1>2, <2>1, <3>1 DEF LineTrue
    <3>2. CASE line.promotion \in promotions
      <4>1. redemptions'[line.promotion] = redemptions[line.promotion]
        BY <2>1, <3>2
      <4>2. OneMore(line.promotion, line.coupon, BuyerOf[g], line.terms)'
              = OneMore(line.promotion, line.coupon, BuyerOf[g], line.terms)
        BY <4>1, SameRows
      <4> QED BY <1>2, <2>1, <4>2 DEF LineTrue
    <3> QED BY <3>1, <3>2
  <2> SUFFICES ASSUME NEW g \in Freezes, freezing'[g].step = "evaluated",
                      NEW line \in freezing'[g].lines
               PROVE  /\ LineTrue(g, line, freezing'[g].promotions, freezing'[g].lines)
                      /\ line.promotion \in freezing'[g].promotions =>
                           redemptions'[line.promotion] = redemptions[line.promotion]
    BY <2>1 DEF LinesTrue
  <2>2. g # f /\ freezing'[g] = freezing[g]
    BY <1>3, <1>5
  <2>3. LineTrue(g, line, freezing[g].promotions, freezing[g].lines)
    BY <2>2 DEF DiscountsInv, LinesTrue
  <2>4. ASSUME line.promotion \in freezing[g].promotions
        PROVE  redemptions'[line.promotion] = redemptions[line.promotion]
    <3>1. HoldsPromotion(g, line.promotion)
      BY <2>2, <2>4 DEF HoldsPromotion
    <3>2. \A x \in lines : x.promotion # line.promotion
      BY <1>2, <2>2, <3>1
    <3>3. line.promotion \in Campaigns
      BY <2>3 DEF LineTrue
    <3> QED BY <1>1, <3>2, <3>3
  <2> QED BY <2>2, <2>3, <2>4
<1>19. ASSUME NEW line \in lines
       PROVE  /\ campaign[line.promotion].version \in DOMAIN termsAt[line.promotion]
              /\ termsAt[line.promotion][campaign[line.promotion].version]
                   = campaign[line.promotion].terms
  <2> DEFINE p == line.promotion
  <2>1. p \in Campaigns /\ campaign[p].status = "active"
    BY <1>2 DEF ListActive
  <2>2. campaign[p].version \in Nat /\ campaign[p].version > 0
    BY <1>8, <2>1 DEF DiscountsShaped
  <2>3. /\ DOMAIN termsAt[p] = 1..campaign[p].version
        /\ termsAt[p][campaign[p].version] = campaign[p].terms
    BY <2>1, <2>2, SequenceDomain DEF DiscountsInv, TermsRecorded
  <2> QED BY <2>2, <2>3
<1>20. VersionsRecorded' /\ SnapshotTrue'
  <2> SUFFICES ASSUME NEW p \in Campaigns, NEW i \in DOMAIN redemptions'[p], redemptions'[p][i].locked
               PROVE  /\ redemptions'[p][i].version \in DOMAIN termsAt[p]
                      /\ termsAt[p][redemptions'[p][i].version] = redemptions'[p][i].terms
    BY <1>2 DEF VersionsRecorded, SnapshotTrue
  <2>1. CASE \A line \in lines : line.promotion = p => i # Len(redemptions[p]) + 1
    <3>1. i \in DOMAIN redemptions[p] /\ redemptions'[p][i] = redemptions[p][i]
      BY <1>9, <2>1
    <3> QED BY <3>1 DEF DiscountsInv, VersionsRecorded, SnapshotTrue
  <2>2. ASSUME NEW line \in lines, line.promotion = p, i = Len(redemptions[p]) + 1
        PROVE  /\ redemptions'[p][i].version \in DOMAIN termsAt[p]
               /\ termsAt[p][redemptions'[p][i].version] = redemptions'[p][i].terms
    <3>1. redemptions'[p][i] = Redemption(f, line)
      BY <1>10, <2>2
    <3>2. line.promotion \in freezing[f].promotions
      BY <1>7, <3>1
    <3>3. line.terms = campaign[p].terms
      BY <1>1, <2>2, <3>2 DEF LineTrue
    <3>4. redemptions'[p][i].version = campaign[p].version /\ redemptions'[p][i].terms = line.terms
      BY <1>7, <2>2, <3>1
    <3>5. campaign[p].version \in DOMAIN termsAt[p] /\ termsAt[p][campaign[p].version] = campaign[p].terms
      BY <1>19, <2>2
    <3> QED BY <3>3, <3>4, <3>5
  <2> QED BY <2>1, <2>2
<1> QED BY <1>12, <1>13, <1>14, <1>15, <1>17, <1>18, <1>20 DEF DiscountsInv

-----------------------------------------------------------------------------
LEMMA DiscountsNextInv == DiscountsInv /\ [DiscountsNext]_discountVars => DiscountsInv'
<1> SUFFICES ASSUME DiscountsInv, [DiscountsNext]_discountVars PROVE DiscountsInv'
  OBVIOUS
<1>1. ASSUME NEW f \in Freezes, List(f) PROVE DiscountsInv'
  BY <1>1, ListInv
<1>2. ASSUME NEW f \in Freezes, LockRows(f) PROVE DiscountsInv'
  BY <1>2, LockRowsInv
<1>3. ASSUME NEW f \in Freezes, EvaluateCart(f) PROVE DiscountsInv'
  BY <1>3, EvaluateCartInv
<1>4. ASSUME NEW f \in Freezes, Redeem(f) PROVE DiscountsInv'
  BY <1>4, RedeemInv
<1>5. ASSUME NEW f \in Freezes, AbandonFreeze(f) \/ LinkOrder(f) \/ CompleteOrder(f)
      PROVE  DiscountsInv'
  BY <1>5, FreezeEndsInv
<1>6. ASSUME NEW p \in Campaigns, NEW n,
             CreatePromotion(p) \/ ActivatePromotion(p) \/ ArchivePromotion(p)
               \/ DeletePromotion(p) \/ UpdatePromotion(p, n)
      PROVE  DiscountsInv'
  BY <1>6, RewritesInv DEF CreatePromotion, ActivatePromotion, ArchivePromotion, DeletePromotion,
     UpdatePromotion
<1>7. ASSUME NEW k \in Vouchers, NEW active,
             CreateCoupon(k) \/ DeleteCoupon(k) \/ UpdateCoupon(k, active)
      PROVE  DiscountsInv'
  BY <1>7, ElsewhereInv DEF CreateCoupon, DeleteCoupon, UpdateCoupon, RewritesCoupon
<1>8. CASE DayPasses
  BY <1>8, ElsewhereInv DEF DayPasses
<1>9. CASE UNCHANGED discountVars
  BY <1>9, ElsewhereInv DEF discountVars
<1> QED BY <1>1, <1>2, <1>3, <1>4, <1>5, <1>6, <1>7, <1>8, <1>9 DEF DiscountsNext

THEOREM DiscountsInductive == DiscountsSpec => []DiscountsInv
BY DiscountsInitInv, DiscountsNextInv, PTL DEF DiscountsSpec

THEOREM WithinLimitsHolds == DiscountsSpec => []WithinLimits
<1>1. DiscountsInv => WithinLimits
  BY DEF DiscountsInv
<1> QED BY DiscountsInductive, <1>1, PTL

THEOREM SnapshotTrueHolds == DiscountsSpec => []SnapshotTrue
<1>1. DiscountsInv => SnapshotTrue
  BY DEF DiscountsInv
<1> QED BY DiscountsInductive, <1>1, PTL
=============================================================================

----------------------------- MODULE Discounts -----------------------------
(***************************************************************************)
(* Promotions and coupons: what an owner may set up and change, what a     *)
(* cart qualifies for, and the redemptions a checkout freezes.  A freeze   *)
(* lists the active promotions and the coupons given, locks their rows,    *)
(* evaluates them against what it then reads, and inserts redemptions and  *)
(* usage counters in the same transaction.                                 *)
(***************************************************************************)
EXTENDS Integers, Sequences, FiniteSets, FiniteSetsExt

CONSTANTS Campaigns,      \* promotions: natural numbers, in the order of their identifiers
          Vouchers,       \* coupons: natural numbers, in the order of their codes
          Freezes,        \* checkouts being created
          BuyerOf, GivenTo,      \* of a checkout: its customer, and the codes presented
          CartOf,         \* of a customer: group, currency and items of the cart
          TermsOf,        \* the terms a promotion may have: it is created with the first
          VoucherTerms,   \* of a coupon: promotion, limits, period
          Launched,       \* promotions already created and activated
          MaxTerms, MaxVoucher,  \* bounds on the versions of promotions and coupons
          MaxClock,
          Unset

VARIABLES campaign, voucher,
          freezing,       \* of a checkout: the step it is in, and what it has read
          redemptions,    \* promotion_redemptions of each promotion, in the order of insertion
          usage,          \* promotion_customer_usage
          clock,
          termsAt         \* history: the terms of each version of a promotion

discountVars == <<campaign, voucher, freezing, redemptions, usage, clock, termsAt>>

Buyers == {BuyerOf[f] : f \in Freezes}
NoVoucher == 0

-----------------------------------------------------------------------------
(* What may be set up                                                        *)

Amounts == {"percentage", "fixed", "bundlePrice", "minimumAmount", "maximumDiscount"}
Counts == {"buy", "get", "bundle", "minimumQuantity", "limit", "perCustomer", "maximumStack"}
PromotionTypes ==
    {"percentage", "fixed_amount", "buy_x_get_y", "bundle", "tier_discount", "free_shipping"}

ValidPeriod(from, until) == from = Unset \/ until = Unset \/ from < until
ValidNumbers(t) ==
    /\ \A a \in Amounts : t[a] = Unset \/ t[a] >= 0
    /\ t.percentage = Unset \/ t.percentage <= 100
    /\ \A c \in Counts : t[c] = Unset \/ t[c] > 0
    /\ t.priority >= 0

\* A value of nought counts as missing.
Given(v) == v \notin {Unset, 0}
ValidType(t) ==
    CASE t.type = "percentage" -> Given(t.percentage)
      [] t.type = "fixed_amount" -> Given(t.fixed) /\ t.currency # Unset
      [] t.type = "buy_x_get_y" -> Given(t.buy) /\ Given(t.get)
      [] t.type = "bundle" -> Given(t.bundle) /\ Given(t.bundlePrice) /\ t.currency # Unset
      [] t.type = "tier_discount" -> t.tiers # <<>>
      [] OTHER -> TRUE
ValidTerms(t) ==
    t.type \in PromotionTypes /\ ValidPeriod(t.from, t.until) /\ ValidNumbers(t) /\ ValidType(t)
ValidLimits(k) ==
    /\ \A n \in {k.limit, k.perCustomer} : n = Unset \/ n > 0
    /\ k.limit # Unset /\ k.perCustomer # Unset => k.perCustomer <= k.limit

ASSUME VouchersAssumption ==
    /\ Vouchers \subseteq Nat \ {0} /\ IsFiniteSet(Vouchers)
    /\ \A f \in Freezes : GivenTo[f] \subseteq Vouchers

\* An update keeps the type.
ASSUME TermsAssumption ==
    /\ \A p \in Campaigns : \A n \in DOMAIN TermsOf[p] :
        ValidTerms(TermsOf[p][n]) /\ TermsOf[p][n].type = TermsOf[p][1].type
    /\ \A k \in Vouchers :
        ValidLimits(VoucherTerms[k]) /\ ValidPeriod(VoucherTerms[k].from, VoucherTerms[k].until)

-----------------------------------------------------------------------------
(* What one promotion takes off one cart                                     *)

Matches(item, rule) ==
    IF rule.condition = "category" THEN rule.target \in item.categories
    ELSE item[rule.condition] = rule.target

EligibleItems(items, rules) == {i \in items : \A rule \in rules : Matches(i, rule)}

Quantity(items) == MapThenSumSet(LAMBDA i : i.quantity, items)
Worth(items) == MapThenSumSet(LAMBDA i : i.price * i.quantity, items)

\* Amounts count the last decimal place that is kept, halves rounded up.
PercentOf(amount, percentage) == (amount * percentage + 50) \div 100

\* The last tier of the list that is reached, whatever it grants.
TierPercentage(tiers, quantity) ==
    LET reached == {i \in DOMAIN tiers : quantity >= tiers[i].minimum}
    IN  IF reached = {} THEN 0 ELSE tiers[Max(reached)].percentage

Unlimited(t, items) ==
    LET quantity == Quantity(items)
        lowest == Min({i.price : i \in items})
    IN CASE t.type = "percentage" -> PercentOf(Worth(items), t.percentage)
         [] t.type = "fixed_amount" -> t.fixed
         [] t.type = "buy_x_get_y" -> lowest * t.get * (quantity \div (t.buy + t.get))
         [] t.type = "bundle" ->
              Max({0, (lowest * t.bundle - t.bundlePrice) * (quantity \div t.bundle)})
         [] t.type = "tier_discount" ->
              PercentOf(Worth(items), TierPercentage(t.tiers, quantity))
         [] OTHER -> 0

CalculateDiscount(t, items, subtotal) ==
    LET amount == Unlimited(t, items)
        capped == IF t.maximumDiscount = Unset THEN amount ELSE Min({amount, t.maximumDiscount})
    IN  Min({subtotal, capped})

-----------------------------------------------------------------------------
(* What a cart qualifies for                                                 *)

Within(now, from, until) == (from = Unset \/ from <= now) /\ (until = Unset \/ until > now)

Terms(p) == TermsOf[p][campaign[p].terms]

ListActive ==
    {p \in Campaigns : /\ campaign[p].status = "active" /\ ~campaign[p].deleted
                       /\ Within(clock, Terms(p).from, Terms(p).until)}
ListByCodes(f) == {k \in GivenTo[f] : voucher[k].exists}

\* Two codes of one promotion: the later one stands for it.
CouponOf(p, coupons) ==
    LET its == {k \in coupons : VoucherTerms[k].promotion = p}
    IN  IF its = {} THEN NoVoucher ELSE Max(its)

\* A coupon is redeemed with its own promotion only.
PromotionUsage(p) == Len(redemptions[p])
CouponUsage(k) ==
    LET rows == redemptions[VoucherTerms[k].promotion]
    IN  Cardinality({i \in DOMAIN rows : rows[i].coupon = k})
CustomerUsage(p, b, k) == usage[<<p, k, b>>]
CustomerPublicUsage(p, b) == CustomerUsage(p, b, NoVoucher)
CustomerPromotionUsage(p, b) ==
    SumFunctionOnSet([k \in Vouchers \cup {NoVoucher} |-> CustomerUsage(p, b, k)],
                     Vouchers \cup {NoVoucher})
CompletedOrders(b) ==
    Cardinality({f \in Freezes : BuyerOf[f] = b /\ freezing[f].step = "confirmed"})

Below(count, limit) == limit = Unset \/ count < limit

CouponAccepted(p, k, b) ==
    /\ voucher[k].active
    /\ Within(clock, VoucherTerms[k].from, VoucherTerms[k].until)
    /\ Below(CustomerUsage(p, b, k), VoucherTerms[k].perCustomer)
    /\ Below(CouponUsage(k), VoucherTerms[k].limit)

Qualifies(p, k, b) ==
    LET t == Terms(p)
        cart == CartOf[b]
    IN  /\ t.public \/ k # NoVoucher
        /\ t.currency \in {Unset, cart.currency}
        /\ t.group \in {Unset, cart.group}
        /\ t.firstPurchase => CompletedOrders(b) = 0
        /\ t.minimumAmount = Unset \/ Worth(cart.items) >= t.minimumAmount
        /\ \/ t.minimumQuantity = Unset
           \/ Quantity(EligibleItems(cart.items, t.rules)) >= t.minimumQuantity
        /\ Below(PromotionUsage(p), t.limit)
        /\ Below(CustomerPromotionUsage(p, b), t.perCustomer)
        /\ k # NoVoucher => CouponAccepted(p, k, b)

DiscountFor(p, b) ==
    LET items == EligibleItems(CartOf[b].items, Terms(p).rules)
    IN  IF items = {} THEN 0
        ELSE CalculateDiscount(Terms(p), items, Worth(CartOf[b].items))

Candidates(b, coupons) ==
    {p \in ListActive :
        /\ Qualifies(p, CouponOf(p, coupons), b)
        /\ EligibleItems(CartOf[b].items, Terms(p).rules) # {}
        /\ DiscountFor(p, b) > 0 \/ Terms(p).type = "free_shipping"}

Ahead(p, q) ==
    LET a == Terms(p).priority
        b == Terms(q).priority
    IN  a > b \/ (a = b /\ p < q)

\* The first exclusive promotion alone; else the first one and the stackable
\* ones after it, as many as the strictest of the candidates allows.
ResolveStacking(candidates) ==
    LET exclusive == {p \in candidates : Terms(p).exclusive}
        stack == {p \in candidates : \/ \A q \in candidates \ {p} : Ahead(p, q)
                                     \/ Terms(p).stackable}
        limits == {Terms(p).maximumStack : p \in candidates} \ {Unset}
        limit == IF limits = {} THEN Cardinality(candidates) ELSE Min(limits)
    IN  IF exclusive # {} THEN {p \in exclusive : \A q \in exclusive \ {p} : Ahead(p, q)}
        ELSE {p \in stack : Cardinality({q \in stack : Ahead(q, p)}) < limit}

\* Each line takes off at most what the lines before it have left.
LineAmount(p, selected, b) ==
    LET before == MapThenSumSet(LAMBDA q : DiscountFor(q, b), {q \in selected : Ahead(q, p)})
    IN  Min({DiscountFor(p, b), Max({0, Worth(CartOf[b].items) - before})})

-----------------------------------------------------------------------------
(* A checkout freezes its discounts                                          *)

PromotionRow == [status : {"none", "draft", "active", "archived"}, deleted : BOOLEAN,
                 version : 0..MaxTerms, terms : Nat]
VoucherRow == [exists : BOOLEAN, active : BOOLEAN, version : 0..MaxVoucher]
RedemptionRow == [coupon : Vouchers \cup {NoVoucher}, buyer : Buyers, amount : Nat,
                  version : 0..MaxTerms, terms : Nat, locked : BOOLEAN]
UsageScope == Campaigns \X (Vouchers \cup {NoVoucher}) \X Buyers
Steps == {"none", "listed", "locked", "evaluated", "open", "ordered", "confirmed"}

DiscountsTypeOK ==
    /\ campaign \in [Campaigns -> PromotionRow] /\ voucher \in [Vouchers -> VoucherRow]
    /\ redemptions \in [Campaigns -> Seq(RedemptionRow)]
    /\ usage \in [UsageScope -> Nat]
    /\ \A f \in Freezes : freezing[f].step \in Steps

NotBegun == [step |-> "none", promotions |-> {}, coupons |-> {}, lines |-> {}]

DiscountsInit ==
    /\ campaign = [p \in Campaigns |->
         [status |-> IF p \in Launched THEN "active" ELSE "none", deleted |-> FALSE,
          version |-> IF p \in Launched THEN 2 ELSE 0, terms |-> 1]]
    /\ voucher = [k \in Vouchers |-> [exists |-> FALSE, active |-> FALSE, version |-> 0]]
    /\ freezing = [f \in Freezes |-> NotBegun]
    /\ redemptions = [p \in Campaigns |-> <<>>]
    /\ usage = [u \in UsageScope |-> 0]
    /\ clock = 0
    /\ termsAt = [p \in Campaigns |->
         IF p \in Launched THEN <<1, 1>> ELSE <<>>]

\* SELECT ... FOR UPDATE, kept until the transaction ends.
HoldsPromotion(f, p) == freezing[f].step \in {"locked", "evaluated"} /\ p \in freezing[f].promotions
HoldsCoupon(f, k) == freezing[f].step \in {"locked", "evaluated"} /\ k \in freezing[f].coupons
NobodyWaits(p) == TRUE
PromotionFree(p) == \A f \in Freezes : ~HoldsPromotion(f, p)
CouponFree(k) == \A f \in Freezes : ~HoldsCoupon(f, k)

Advance(f, record) ==
    /\ freezing' = [freezing EXCEPT ![f] = record]
    /\ UNCHANGED <<campaign, voucher, clock, termsAt>>

List(f) ==
    /\ freezing[f].step = "none"
    /\ Advance(f, [NotBegun EXCEPT !.step = "listed", !.promotions = ListActive,
                                   !.coupons = ListByCodes(f)])
    /\ UNCHANGED <<redemptions, usage>>

LockRows(f) ==
    /\ freezing[f].step = "listed"
    /\ \A p \in freezing[f].promotions : PromotionFree(p)
    /\ \A k \in freezing[f].coupons : CouponFree(k)
    /\ Advance(f, [freezing[f] EXCEPT !.step = "locked"])
    /\ UNCHANGED <<redemptions, usage>>

\* Promotions and coupons are listed again, also those not locked.
EvaluateCart(f) ==
    LET b == BuyerOf[f]
        coupons == ListByCodes(f)
        selected == ResolveStacking(Candidates(b, coupons))
    IN  /\ freezing[f].step = "locked"
        /\ Advance(f, [freezing[f] EXCEPT !.step = "evaluated",
             !.lines = {[promotion |-> p, coupon |-> CouponOf(p, coupons),
                         amount |-> LineAmount(p, selected, b), terms |-> campaign[p].terms]
                        : p \in selected}])
        /\ UNCHANGED <<redemptions, usage>>

\* The version recorded is the one listed a third time: a promotion gone by
\* then fails the checkout.  `locked` and `terms` are history.
Redemption(f, line) ==
    [coupon |-> line.coupon, buyer |-> BuyerOf[f], amount |-> line.amount,
     version |-> campaign[line.promotion].version,
     terms |-> line.terms, locked |-> line.promotion \in freezing[f].promotions]

LineOf(f, p) == CHOOSE line \in freezing[f].lines : line.promotion = p

\* Inserting a redemption waits for whoever locked its promotion or coupon.
Redeem(f) ==
    LET lines == freezing[f].lines
        b == BuyerOf[f]
        Used(u) == \E line \in lines : u = <<line.promotion, line.coupon, b>>
    IN  /\ freezing[f].step = "evaluated"
        /\ \A line \in lines :
             /\ line.promotion \in ListActive
             /\ \A g \in Freezes \ {f} : /\ ~HoldsPromotion(g, line.promotion)
                                         /\ ~HoldsCoupon(g, line.coupon)
        /\ redemptions' = [p \in Campaigns |->
             IF \E line \in lines : line.promotion = p
             THEN Append(redemptions[p], Redemption(f, LineOf(f, p))) ELSE redemptions[p]]
        /\ usage' = [u \in DOMAIN usage |-> IF Used(u) THEN usage[u] + 1 ELSE usage[u]]
        /\ Advance(f, [NotBegun EXCEPT !.step = "open"])

\* The checkout fails, here or in a later step, and takes everything back.
AbandonFreeze(f) ==
    /\ freezing[f].step \in {"listed", "locked", "evaluated"}
    /\ Advance(f, NotBegun)
    /\ UNCHANGED <<redemptions, usage>>

\* The order takes the redemptions over as they are; cancelling the checkout
\* or the order gives none of them back.
LinkOrder(f) ==
    /\ freezing[f].step = "open"
    /\ Advance(f, [freezing[f] EXCEPT !.step = "ordered"])
    /\ UNCHANGED <<redemptions, usage>>

CompleteOrder(f) ==
    /\ freezing[f].step = "ordered"
    /\ Advance(f, [freezing[f] EXCEPT !.step = "confirmed"])
    /\ UNCHANGED <<redemptions, usage>>

-----------------------------------------------------------------------------
(* The owner                                                                 *)

\* An update compares the version and waits for the lock on the row.
Rewrites(p, status, deleted, terms) ==
    /\ PromotionFree(p) /\ campaign[p].version < MaxTerms
    /\ campaign' = [campaign EXCEPT ![p] =
         [status |-> status, deleted |-> deleted, version |-> campaign[p].version + 1, terms |-> terms]]
    /\ termsAt' = [termsAt EXCEPT ![p] = Append(termsAt[p], terms)]
    /\ UNCHANGED <<voucher, freezing, redemptions, usage, clock>>

Owned(p) == campaign[p].status # "none" /\ ~campaign[p].deleted

CreatePromotion(p) ==
    /\ campaign[p].status = "none"
    /\ Rewrites(p, "draft", FALSE, 1)

UpdatePromotion(p, n) ==
    /\ Owned(p) /\ campaign[p].status # "archived"
    /\ Rewrites(p, campaign[p].status, FALSE, n)

ActivatePromotion(p) ==
    /\ Owned(p) /\ campaign[p].status = "draft"
    /\ Rewrites(p, "active", FALSE, campaign[p].terms)

ArchivePromotion(p) ==
    /\ Owned(p) /\ campaign[p].status # "archived"
    /\ Rewrites(p, "archived", FALSE, campaign[p].terms)

DeletePromotion(p) ==
    /\ Owned(p)
    /\ Rewrites(p, "archived", TRUE, campaign[p].terms)

RewritesCoupon(k, row) ==
    /\ CouponFree(k) /\ voucher[k].version < MaxVoucher
    /\ voucher' = [voucher EXCEPT ![k] = row]
    /\ UNCHANGED <<campaign, freezing, redemptions, usage, clock, termsAt>>

\* A code is never free again: the unique index counts deleted coupons too.
CreateCoupon(k) ==
    /\ Owned(VoucherTerms[k].promotion) /\ PromotionFree(VoucherTerms[k].promotion)
    /\ voucher[k].version = 0
    /\ RewritesCoupon(k, [exists |-> TRUE, active |-> TRUE, version |-> 1])

UpdateCoupon(k, active) ==
    /\ voucher[k].exists
    /\ RewritesCoupon(k, [exists |-> TRUE, active |-> active, version |-> voucher[k].version + 1])

DeleteCoupon(k) ==
    /\ voucher[k].exists
    /\ RewritesCoupon(k, [exists |-> FALSE, active |-> FALSE, version |-> voucher[k].version + 1])

DayPasses ==
    /\ clock < MaxClock /\ clock' = clock + 1
    /\ UNCHANGED <<campaign, voucher, freezing, redemptions, usage, termsAt>>

DiscountsNext ==
    \/ \E f \in Freezes : \/ List(f) \/ LockRows(f) \/ EvaluateCart(f) \/ Redeem(f)
                          \/ AbandonFreeze(f) \/ LinkOrder(f) \/ CompleteOrder(f)
    \/ \E p \in Campaigns : \/ CreatePromotion(p) \/ ActivatePromotion(p)
                            \/ ArchivePromotion(p) \/ DeletePromotion(p)
                            \/ \E n \in DOMAIN TermsOf[p] : UpdatePromotion(p, n)
    \/ \E k \in Vouchers : \/ CreateCoupon(k) \/ DeleteCoupon(k)
                           \/ \E active \in BOOLEAN : UpdateCoupon(k, active)
    \/ DayPasses

DiscountsSpec == DiscountsInit /\ [][DiscountsNext]_discountVars

-----------------------------------------------------------------------------
\* The redemption was within the limits of its promotion and those of its
\* coupon, given those before it: in all, and for the customer.
KeepsLimits(p, rows, i) ==
    LET r == rows[i]
        t == TermsOf[p][r.terms]
        mine == {j \in 1..(i - 1) : rows[j].buyer = r.buyer}
        same == {j \in 1..(i - 1) : rows[j].coupon = r.coupon}
    IN  /\ Below(i - 1, t.limit)
        /\ Below(Cardinality(mine), t.perCustomer)
        /\ r.coupon # NoVoucher =>
             /\ Below(Cardinality(same), VoucherTerms[r.coupon].limit)
             /\ Below(Cardinality(same \cap mine), VoucherTerms[r.coupon].perCustomer)

\* Whoever locked a promotion before counting its redemptions redeemed it
\* within its limits and those of the coupon.  (A promotion activated after the
\* list was made is evaluated unlocked.)
WithinLimits ==
    \A p \in Campaigns : \A i \in DOMAIN redemptions[p] :
        redemptions[p][i].locked => KeepsLimits(p, redemptions[p], i)

\* The version a redemption records is the one its discount was computed
\* from, whatever the owner changed meanwhile.
SnapshotTrue ==
    \A p \in Campaigns : \A i \in DOMAIN redemptions[p] :
        LET r == redemptions[p][i] IN r.locked => termsAt[p][r.version] = r.terms
=============================================================================

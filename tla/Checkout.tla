------------------------------ MODULE Checkout ------------------------------
(***************************************************************************)
(* Carts, checkout sessions, the promotions they use up and the orders     *)
(* placed from them, in one store that sells one product.                  *)
(*                                                                         *)
(* A request reads what it needs, and later writes everything at once if   *)
(* the versions and unique indexes still allow it.  The opening of a       *)
(* checkout takes several steps, because it waits for other requests: for  *)
(* those that open the same cart, and for those that use its promotions.   *)
(*                                                                         *)
(* No status is entered twice, so "the version is the one I read" says of  *)
(* a session the same as "it is still open".  Carts keep their version,    *)
(* which every change of their lines raises.                               *)
(***************************************************************************)
EXTENDS Integers, FiniteSetsExt

CONSTANTS
    Carts,          \* identifiers of carts
    Owner,          \* Owner[c]: the customer of cart c
    NumPromotions,  \* promotions of the store, by descending priority
    AmountOff,         \* Amount[p]: what promotion p takes off an order
    UsageLimit,     \* UsageLimit[p]: how often p may be used
    MaxStack,       \* MaxStack[p]: how many may be combined when p applies
    Exclusive,      \* promotions that are never combined
    Stackable,      \* promotions that may follow another one
    Drafts,         \* promotions that are not active at first
    Shoppers,        \* concurrent requests
    Prices,         \* prices the product takes over time
    MaxQuantity,    \* units a cart may ask for
    MaxVersion      \* bound on the changes of a cart

Promotions == 1..NumPromotions

ASSUME CartsAssumption == IsFiniteSet(Carts)

ASSUME PromotionsAssumption ==
    /\ NumPromotions \in Nat
    /\ AmountOff \in [Promotions -> Nat \ {0}]
    /\ UsageLimit \in [Promotions -> Nat \ {0}]
    /\ MaxStack \in [Promotions -> Nat \ {0}]
    /\ Exclusive \cup Stackable \cup Drafts \subseteq Promotions

ASSUME PricesAssumption ==
    /\ Prices \subseteq Nat \ {0}
    /\ MaxQuantity \in Nat \ {0}
    /\ MaxVersion \in Nat \ {0}

VARIABLES
    price,    \* the current price of the product
    promo,    \* promotions: status
    cart,     \* shopping_carts and their line
    session,  \* checkout_sessions, their frozen line and redemptions
    orders,   \* how many orders there are for each session
    shopping        \* the request each worker serves

checkoutVars == <<price, promo, cart, session, orders, shopping>>

\* An active row past its expires_at is "overdue".
Open == {"active", "overdue"}
CartStatus == {"none", "checked_out", "abandoned"} \cup Open
Finished == {"confirmed", "cancelled", "expired"}
SessionStatus == {"none"} \cup Open \cup Finished
PromoStatus == {"draft", "active", "archived"}

NoCart == [status |-> "none", version |-> 1, quantity |-> 0, unit |-> 0]
NoSession ==
    [status |-> "none", quantity |-> 0, subtotal |-> 0, discount |-> 0,
     redeemed |-> {}, limits |-> {}]
NotShopping == [op |-> "idle"]

CheckoutInit ==
    /\ price \in Prices
    /\ promo = [p \in Promotions |-> IF p \in Drafts THEN "draft" ELSE "active"]
    /\ cart = [c \in Carts |-> NoCart]
    /\ session = [c \in Carts |-> NoSession]
    /\ orders = [c \in Carts |-> 0]
    /\ shopping = [w \in Shoppers |-> NotShopping]

Enter(w, request) ==
    /\ shopping[w] = NotShopping
    /\ shopping' = [shopping EXCEPT ![w] = request]
    /\ UNCHANGED <<price, promo, cart, session, orders>>

Serves(w, op) == shopping[w].op = op
Leave(w) == shopping' = [shopping EXCEPT ![w] = NotShopping] /\ UNCHANGED <<price, promo>>

-----------------------------------------------------------------------------
(* Carts *)

\* A customer has one active cart at a time.
CreateCart(c) ==
    /\ cart[c].status = "none"
    /\ \A d \in Carts : Owner[d] = Owner[c] => cart[d].status \notin Open
    /\ cart' = [cart EXCEPT ![c].status = "active"]
    /\ UNCHANGED <<price, promo, session, orders, shopping>>

\* The line of the cart gets another quantity, at today's price, or is removed.
BeginEdit(w, c, quantity) ==
    /\ cart[c].status = "active"
    /\ cart[c].version < MaxVersion
    /\ quantity = 0 => cart[c].quantity > 0
    /\ Enter(w, [op |-> "edit", cart |-> c, seen |-> cart[c].version,
                 quantity |-> quantity, unit |-> price])

\* The line is written with the version of the cart that was read.
Untouched(w, c) == TRUE
Touch(w, c) == cart[c].version = shopping[w].seen /\ cart[c].status \in Open

CommitEdit(w) ==
    LET c == shopping[w].cart IN
    /\ Serves(w, "edit")
    /\ Touch(w, c)
    /\ cart' = [cart EXCEPT ![c].version = Min({@ + 1, MaxVersion}),
                            ![c].quantity = shopping[w].quantity, ![c].unit = shopping[w].unit]
    /\ Leave(w)
    /\ UNCHANGED <<session, orders>>

DeleteCart(c) ==
    /\ cart[c].status = "active"
    /\ cart' = [cart EXCEPT ![c].status = "abandoned", ![c].quantity = 0]
    /\ UNCHANGED <<price, promo, session, orders, shopping>>

-----------------------------------------------------------------------------
(* The promotions that apply to a cart *)

Active == {p \in Promotions : promo[p] = "active"}
Redemptions(p) == {c \in Carts : p \in session[c].redeemed}

\* The row of a promotion is locked by a checkout that lists it.
NotLocked(v, p) == FALSE
LockedBy(v, p) ==
    Serves(v, "open") /\ shopping[v].step \in {"locked", "evaluated"} /\ p \in shopping[v].limits
Free(w, p) == \A v \in Shoppers \ {w} : ~LockedBy(v, p)

Eligible == {p \in Active : Cardinality(Redemptions(p)) < UsageLimit[p]}

\* The first exclusive promotion alone, or the first one with the stackable
\* ones after it, as many as the strictest of the candidates allows.
Selected(candidates) ==
    LET first == Min(candidates)
        stack == {p \in candidates : p = first \/ p \in Stackable}
        limit == Min({MaxStack[p] : p \in candidates})
    IN CASE candidates = {} -> {}
         [] candidates \cap Exclusive # {} -> {Min(candidates \cap Exclusive)}
         [] OTHER -> {p \in stack : Cardinality({q \in stack : q < p}) < limit}

\* A promotion that takes nothing off is not applied; together they take off
\* no more than the cart is worth.
Applied(subtotal) == IF subtotal = 0 THEN {} ELSE Selected(Eligible)
Discount(promotions, subtotal) ==
    Min({subtotal, MapThenSumSet(LAMBDA p : AmountOff[p], promotions)})

-----------------------------------------------------------------------------
(* The opening of a checkout *)

EmptyAllowed(c) == TRUE
HasItems(c) == cart[c].quantity > 0

\* The cart and its line are read and priced anew.
BeginOpen(w, c) ==
    /\ cart[c].status = "active"
    /\ session[c].status = "none"
    /\ HasItems(c)
    /\ Enter(w, [op |-> "open", cart |-> c, step |-> "read",
                 quantity |-> cart[c].quantity, subtotal |-> price * cart[c].quantity,
                 limits |-> {}, redeemed |-> {}, discount |-> 0])

Step(w, change) ==
    /\ shopping' = [shopping EXCEPT ![w] = change]
    /\ UNCHANGED <<price, promo, cart, session, orders>>

At(w, step) == Serves(w, "open") /\ shopping[w].step = step

\* A cart has one session for ever: a second request waits for the first.
UniqueSession(w, c) ==
    /\ session[c].status = "none"
    /\ \A v \in Shoppers \ {w} : Serves(v, "open") /\ shopping[v].cart = c => shopping[v].step = "read"

InsertSession(w) ==
    /\ At(w, "read")
    /\ UniqueSession(w, shopping[w].cart)
    /\ Step(w, [shopping[w] EXCEPT !.step = "inserted", !.limits = Active])

\* The listed promotions are locked, which waits for others that locked them.
LimitsFree(w) == \A p \in shopping[w].limits : Free(w, p)

LockLimits(w) ==
    /\ At(w, "inserted")
    /\ LimitsFree(w)
    /\ Step(w, [shopping[w] EXCEPT !.step = "locked"])

\* The cart is read a second time, with the prices stored in it, and the
\* promotions that are active by now.
Evaluate(w) ==
    LET line == cart[shopping[w].cart]
        subtotal == line.quantity * line.unit
    IN /\ At(w, "locked")
       /\ line.status # "abandoned"
       /\ Step(w, [shopping[w] EXCEPT !.step = "evaluated", !.redeemed = Applied(subtotal),
                                !.discount = Discount(Applied(subtotal), subtotal)])

\* A redemption refers to its promotion, and waits for those who locked it.
CommitOpen(w) ==
    /\ At(w, "evaluated")
    /\ \A p \in shopping[w].redeemed : Free(w, p)
    /\ session' = [session EXCEPT ![shopping[w].cart] =
          [status |-> "active", quantity |-> shopping[w].quantity, subtotal |-> shopping[w].subtotal,
           discount |-> shopping[w].discount, redeemed |-> shopping[w].redeemed,
           limits |-> shopping[w].limits]]
    /\ Leave(w)
    /\ UNCHANGED <<cart, orders>>

-----------------------------------------------------------------------------
(* The end of a session, and its order *)

BeginFinish(w, c, op) ==
    /\ session[c].status = "active"
    /\ Enter(w, [op |-> op, cart |-> c])

\* The version of the session is the one that was read.
StillOpen(c) == session[c].status \in Open

\* The cart is read again, and need only be active and not empty by now.
EmptyToo(c) == cart[c].status = "active"
CartReady(c) == cart[c].status = "active" /\ cart[c].quantity > 0

LeaveCart(c) == UNCHANGED cart
CheckOut(c) == cart' = [cart EXCEPT ![c].status = "checked_out"]

CommitConfirm(w) ==
    LET c == shopping[w].cart IN
    /\ Serves(w, "confirm")
    /\ StillOpen(c)
    /\ CartReady(c)
    /\ session' = [session EXCEPT ![c].status = "confirmed"]
    /\ CheckOut(c)
    /\ Leave(w)
    /\ UNCHANGED orders

CommitCancel(w) ==
    LET c == shopping[w].cart IN
    /\ Serves(w, "cancel")
    /\ StillOpen(c)
    /\ session' = [session EXCEPT ![c].status = "cancelled"]
    /\ Leave(w)
    /\ UNCHANGED <<cart, orders>>

\* Whoever looks at an overdue session expires it.
Expire(c) ==
    /\ session[c].status = "overdue"
    /\ session' = [session EXCEPT ![c].status = "expired"]
    /\ UNCHANGED <<price, promo, cart, orders, shopping>>

BeginOrder(w, c) ==
    /\ session[c].status = "confirmed"
    /\ orders[c] = 0
    /\ Enter(w, [op |-> "order", cart |-> c])

OrderAnyway(c) == TRUE
UniqueOrder(c) == orders[c] = 0

CommitOrder(w) ==
    /\ Serves(w, "order")
    /\ UniqueOrder(shopping[w].cart)
    /\ orders' = [orders EXCEPT ![shopping[w].cart] = @ + 1]
    /\ Leave(w)
    /\ UNCHANGED <<cart, session>>

\* A conflict, an exception or a crash: nothing is written.
AbandonCheckout(w) ==
    /\ shopping[w] # NotShopping
    /\ Leave(w)
    /\ UNCHANGED <<cart, session, orders>>

-----------------------------------------------------------------------------
(* The store, and time *)

SetPrice(p) ==
    /\ price' = p
    /\ UNCHANGED <<promo, cart, session, orders, shopping>>

\* A promotion's row is not written while a checkout has locked it.
Unlocked(p) == \A v \in Shoppers : ~LockedBy(v, p)

SetStatus(p, status) ==
    /\ Unlocked(p)
    /\ promo' = [promo EXCEPT ![p] = status]
    /\ UNCHANGED <<price, cart, session, orders, shopping>>

Activate(p) == promo[p] = "draft" /\ SetStatus(p, "active")
Archive(p) == promo[p] # "archived" /\ SetStatus(p, "archived")

Overdue(c) ==
    /\ \/ /\ cart[c].status = "active"
          /\ cart' = [cart EXCEPT ![c].status = "overdue"]
          /\ UNCHANGED session
       \/ /\ session[c].status = "active"
          /\ session' = [session EXCEPT ![c].status = "overdue"]
          /\ UNCHANGED cart
    /\ UNCHANGED <<price, promo, orders, shopping>>

Shop(w, c) ==
    \/ \E q \in 0..MaxQuantity : BeginEdit(w, c, q)
    \/ BeginOpen(w, c)
    \/ \E op \in {"confirm", "cancel"} : BeginFinish(w, c, op)
    \/ BeginOrder(w, c)

Progress(w) ==
    \/ CommitEdit(w)
    \/ InsertSession(w) \/ LockLimits(w) \/ Evaluate(w) \/ CommitOpen(w)
    \/ CommitConfirm(w) \/ CommitCancel(w) \/ CommitOrder(w)
    \/ AbandonCheckout(w)

CheckoutNext ==
    \/ \E w \in Shoppers : Progress(w) \/ \E c \in Carts : Shop(w, c)
    \/ \E c \in Carts : CreateCart(c) \/ DeleteCart(c) \/ Expire(c) \/ Overdue(c)
    \/ \E p \in Prices : SetPrice(p)
    \/ \E p \in Promotions : Activate(p) \/ Archive(p)

CheckoutSpec == CheckoutInit /\ [][CheckoutNext]_checkoutVars

-----------------------------------------------------------------------------
(* Properties *)

\* Rows and requests are well formed; no session is stored without a line.
CheckoutTypeOK ==
    /\ price \in Prices
    /\ promo \in [Promotions -> PromoStatus]
    /\ \A c \in Carts :
          /\ cart[c].status \in CartStatus
          /\ cart[c].version \in 1..MaxVersion
          /\ cart[c].quantity \in 0..MaxQuantity
          /\ session[c].status \in SessionStatus
          /\ session[c].status # "none" => session[c].quantity > 0
          /\ session[c].redeemed \cup session[c].limits \subseteq Promotions
          /\ orders[c] \in Nat
    /\ \A w \in Shoppers : shopping[w] # NotShopping => shopping[w].cart \in Carts

\* A session is confirmed exactly when its cart is checked out, although
\* confirmations race with edits, deletion and expiry of the cart.
ConfirmedTogether ==
    \A c \in Carts : session[c].status = "confirmed" <=> cart[c].status = "checked_out"

\* No cart is checked out empty, although it may be edited until then.
CheckedOutNotEmpty == \A c \in Carts : cart[c].status = "checked_out" => cart[c].quantity > 0

\* Checkouts that locked a promotion before they counted its uses never use it
\* beyond its limit, however many are opened at once.
LockedWithinLimit ==
    \A p \in Promotions :
        Cardinality({c \in Redemptions(p) : p \in session[c].limits}) <= UsageLimit[p]

\* What a session froze stays frozen, a finished session stays finished, and a
\* closed cart keeps its lines, whatever requests are still on their way.
FrozenForever ==
    [][\A c \in Carts :
          /\ session[c].status # "none" =>
                [session'[c] EXCEPT !.status = "none"] = [session[c] EXCEPT !.status = "none"]
          /\ session[c].status \in Finished => session'[c].status = session[c].status
          /\ cart[c].status \in {"checked_out", "abandoned"} => cart'[c] = cart[c]]_checkoutVars

\* A session has one order, and only if it was confirmed.
OneOrderPerSession ==
    \A c \in Carts : /\ orders[c] <= 1
                     /\ orders[c] > 0 => session[c].status = "confirmed"
=============================================================================

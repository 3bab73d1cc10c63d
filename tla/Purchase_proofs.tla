--------------------------- MODULE Purchase_proofs ---------------------------
(***************************************************************************)
(* Proofs of the properties of Checkout and of Payments, for any carts,    *)
(* promotions, orders and keys, and any number of concurrent requests.     *)
(***************************************************************************)
EXTENDS Checkout, Payments, FiniteSetTheorems, WellFoundedInduction, TLAPS

-----------------------------------------------------------------------------
(* Checkout: rows and requests, with the types of all their fields.          *)
Discounts == {0} \cup {Discount(P, s) : P \in SUBSET Promotions, s \in Nat}

CartRow ==
    [status : CartStatus, version : 1..MaxVersion, quantity : 0..MaxQuantity, unit : Nat]

SessionRow ==
    [status : SessionStatus, quantity : 0..MaxQuantity, subtotal : Nat,
     discount : Discounts, redeemed : SUBSET Promotions, limits : SUBSET Promotions]

Edits == [op : {"edit"}, cart : Carts, seen : 1..MaxVersion, quantity : 0..MaxQuantity,
          unit : Nat]
Openings == [op : {"open"}, cart : Carts, step : {"read", "inserted", "locked", "evaluated"},
             quantity : 1..MaxQuantity, subtotal : Nat, limits : SUBSET Promotions,
             redeemed : SUBSET Promotions, discount : Discounts]
Others == [op : {"confirm", "cancel", "order"}, cart : Carts]
Requests == {NotShopping} \cup Edits \cup Openings \cup Others

Types ==
    /\ price \in Prices
    /\ promo \in [Promotions -> PromoStatus]
    /\ cart \in [Carts -> CartRow]
    /\ session \in [Carts -> SessionRow]
    /\ \A c \in Carts : session[c].status # "none" => session[c].quantity > 0
    /\ orders \in [Carts -> Nat]
    /\ shopping \in [Shoppers -> Requests]

\* An opening past its insert is the only one of its cart, which has no session.
OpensAlone ==
    \A w \in Shoppers : Serves(w, "open") /\ shopping[w].step # "read" =>
        /\ session[shopping[w].cart].status = "none"
        /\ \A v \in Shoppers \ {w} :
              Serves(v, "open") /\ shopping[v].cart = shopping[w].cart => shopping[v].step = "read"

\* Only confirmed sessions are being ordered.
OrdersConfirmed ==
    \A w \in Shoppers : Serves(w, "order") => session[shopping[w].cart].status = "confirmed"

\* The uses of a promotion by sessions that had locked it.
LockedUses(p) == {c \in Redemptions(p) : p \in session[c].limits}

\* A promotion is locked by one opening, which counted its uses under the lock.
LimitsLocked ==
    \A w \in Shoppers, p \in Promotions :
        LockedBy(w, p) =>
            /\ Free(w, p)
            /\ shopping[w].step = "evaluated" /\ p \in shopping[w].redeemed =>
                  Cardinality(LockedUses(p)) < UsageLimit[p]

CheckoutInv ==
    /\ Types
    /\ OpensAlone
    /\ OrdersConfirmed
    /\ LimitsLocked
    /\ ConfirmedTogether
    /\ CheckedOutNotEmpty
    /\ LockedWithinLimit
    /\ OneOrderPerSession

-----------------------------------------------------------------------------
(* Types *)

\* A non-empty set of natural numbers has a least one.
LEMMA MinIsMember ==
    ASSUME NEW S \in SUBSET Nat, S # {}
    PROVE  Min(S) \in S
<1>1. IsWellFoundedOn(OpToRel(<, Nat), Nat)
  BY NatLessThanWellFounded
<1>2. PICK x \in S : \A y \in S : ~ (<<y, x>> \in OpToRel(<, Nat))
  BY <1>1, WFMin
<1>3. \A y \in S : x =< y
  <2> SUFFICES ASSUME NEW y \in S, y < x PROVE FALSE
    OBVIOUS
  <2>1. <<y, x>> \in OpToRel(<, Nat)
    BY DEF OpToRel
  <2> QED BY <1>2, <2>1
<1> QED BY <1>3 DEF Min

\* The least of two numbers is one of them and exceeds neither.
LEMMA MinOfTwo ==
    ASSUME NEW a \in Nat, NEW b \in Nat
    PROVE  Min({a, b}) \in {a, b} /\ Min({a, b}) =< a /\ Min({a, b}) =< b
<1>1. PICK x \in {a, b} : x =< a /\ x =< b
  <2>1. CASE a =< b
    BY <2>1
  <2>2. CASE ~ (a =< b)
    BY <2>2
  <2> QED BY <2>1, <2>2
<1>2. \A y \in {a, b} : x =< y
  BY <1>1
<1>3. Min({a, b}) \in {a, b} /\ \A y \in {a, b} : Min({a, b}) =< y
  BY <1>2 DEF Min
<1> QED BY <1>3

\* Stacking selects some of the candidates.
LEMMA SelectedAreCandidates ==
    ASSUME NEW candidates \in SUBSET Promotions
    PROVE  Selected(candidates) \subseteq candidates
<1>1. Promotions \subseteq Nat
  BY PromotionsAssumption DEF Promotions
<1>2. CASE candidates \cap Exclusive # {}
  <2>1. Min(candidates \cap Exclusive) \in candidates \cap Exclusive
    BY <1>1, <1>2, MinIsMember
  <2>2. Selected(candidates) = {Min(candidates \cap Exclusive)}
    BY <1>2 DEF Selected
  <2> QED BY <2>1, <2>2
<1>3. CASE candidates \cap Exclusive = {}
  BY <1>3 DEF Selected
<1> QED BY <1>2, <1>3

\* What applies to a cart is active and has uses left.
LEMMA AppliedAreEligible ==
    ASSUME NEW subtotal \in Nat
    PROVE  /\ Applied(subtotal) \subseteq Eligible
           /\ Applied(subtotal) \subseteq Promotions
<1>1. Eligible \in SUBSET Promotions
  BY DEF Eligible, Active
<1> QED BY <1>1, SelectedAreCandidates DEF Applied

\* The fields of a request.
LEMMA RequestFields ==
    ASSUME Types, NEW w \in Shoppers
    PROVE  /\ Serves(w, "edit") => shopping[w] \in Edits
           /\ Serves(w, "open") => shopping[w] \in Openings
           /\ Serves(w, "confirm") \/ Serves(w, "cancel") \/ Serves(w, "order")
                 => shopping[w] \in Others
           /\ shopping[w] # NotShopping => shopping[w].cart \in Carts
<1>1. shopping[w] \in Requests
  BY DEF Types
<1>2. CASE shopping[w] = NotShopping
  BY <1>2 DEF NotShopping, Serves
<1>3. CASE shopping[w] \in Edits
  BY <1>3 DEF Edits, Serves
<1>4. CASE shopping[w] \in Openings
  BY <1>4 DEF Openings, Serves
<1>5. CASE shopping[w] \in Others
  BY <1>5 DEF Others, Serves
<1> QED BY <1>1, <1>2, <1>3, <1>4, <1>5 DEF Requests

-----------------------------------------------------------------------------
(* The parts of a transition *)

\* The initial state satisfies the invariant.
LEMMA CheckoutInitInv == CheckoutInit => CheckoutInv
<1> SUFFICES ASSUME CheckoutInit PROVE CheckoutInv
  OBVIOUS
<1>1. Types
  <2>1. NoCart \in CartRow
    BY PricesAssumption DEF NoCart, CartRow, CartStatus, Open
  <2>2. NoSession \in SessionRow
    BY PricesAssumption DEF NoSession, SessionRow, SessionStatus, Discounts
  <2> QED BY <2>1, <2>2 DEF CheckoutInit, Types, PromoStatus, Requests, NoSession
<1>2. OpensAlone /\ OrdersConfirmed /\ LimitsLocked
  BY DEF CheckoutInit, OpensAlone, OrdersConfirmed, LimitsLocked, LockedBy, Serves, NotShopping
<1>3. ConfirmedTogether /\ CheckedOutNotEmpty /\ OneOrderPerSession
  BY DEF CheckoutInit, ConfirmedTogether, CheckedOutNotEmpty, OneOrderPerSession, NoCart, NoSession
<1>4. LockedWithinLimit
  <2>1. ASSUME NEW p \in Promotions
        PROVE  {c \in Redemptions(p) : p \in session[c].limits} = {}
    BY DEF CheckoutInit, NoSession, Redemptions
  <2>2. Cardinality({}) = 0 /\ \A p \in Promotions : 0 <= UsageLimit[p]
    BY FS_EmptySet, PromotionsAssumption
  <2> QED BY <2>1, <2>2 DEF LockedWithinLimit
<1> QED BY <1>1, <1>2, <1>3, <1>4 DEF CheckoutInv

\* Sets of carts are finite, and a smaller one has no more elements.
LEMMA Uses ==
    ASSUME NEW p \in Promotions
    PROVE  /\ IsFiniteSet(Redemptions(p))
           /\ IsFiniteSet(LockedUses(p))
           /\ Cardinality(LockedUses(p)) \in Nat
           /\ Cardinality(Redemptions(p)) \in Nat
           /\ Cardinality(LockedUses(p)) <= Cardinality(Redemptions(p))
           /\ UsageLimit[p] \in Nat
<1>1. Redemptions(p) \in SUBSET Carts /\ LockedUses(p) \in SUBSET Redemptions(p)
  BY DEF Redemptions, LockedUses
<1>2. IsFiniteSet(Redemptions(p))
  BY <1>1, CartsAssumption, FS_Subset
<1>3. IsFiniteSet(LockedUses(p)) /\ Cardinality(LockedUses(p)) <= Cardinality(Redemptions(p))
  BY <1>1, <1>2, FS_Subset
<1> QED BY <1>2, <1>3, FS_CardinalityType, PromotionsAssumption

\* A request that begins: it has locked nothing yet.
LEMMA CheckoutBeginInv ==
    ASSUME CheckoutInv, NEW w \in Shoppers, NEW r \in Requests, Enter(w, r),
           r.op = "open" => r.step = "read",
           r.op = "order" => session[r.cart].status = "confirmed"
    PROVE  CheckoutInv'
<1>1. /\ shopping' = [shopping EXCEPT ![w] = r] /\ shopping' \in [Shoppers -> Requests]
      /\ UNCHANGED <<price, promo, cart, session, orders>>
  BY DEF Enter, CheckoutInv, Types
<1>2. Types'
  BY <1>1 DEF CheckoutInv, Types
<1>3. OpensAlone'
  BY <1>1 DEF CheckoutInv, Types, OpensAlone, Serves
<1>4. OrdersConfirmed'
  BY <1>1 DEF CheckoutInv, Types, OrdersConfirmed, Serves
<1>5. LimitsLocked'
  <2>1. \A v \in Shoppers, p \in Promotions :
           LockedBy(v, p)' => v # w /\ LockedBy(v, p) /\ shopping'[v] = shopping[v]
    BY <1>1 DEF CheckoutInv, Types, LockedBy, Serves
  <2>2. \A p \in Promotions : LockedUses(p)' = LockedUses(p)
    BY <1>1 DEF LockedUses, Redemptions
  <2> QED BY <2>1, <2>2 DEF CheckoutInv, LimitsLocked, Free
<1>6. LockedWithinLimit'
  BY <1>1 DEF CheckoutInv, LockedWithinLimit, Redemptions
<1> QED
  BY <1>1, <1>2, <1>3, <1>4, <1>5, <1>6
     DEF CheckoutInv, ConfirmedTogether, CheckedOutNotEmpty, OneOrderPerSession

\* A step that ends requests, stores no session anew, and leaves confirmed ones
\* confirmed and what sessions use as it is, keeps what is said of requests.
LEMMA Kept ==
    ASSUME CheckoutInv,
           \A w \in Shoppers : shopping'[w] \in {shopping[w], NotShopping},
           \A c \in Carts : /\ session'[c].redeemed = session[c].redeemed
                            /\ session'[c].limits = session[c].limits
                            /\ session[c].status = "none" => session'[c].status = "none"
                            /\ session[c].status = "confirmed"
                                  => session'[c].status = "confirmed"
    PROVE  OpensAlone' /\ OrdersConfirmed' /\ LimitsLocked' /\ LockedWithinLimit'
<1>1. ASSUME NEW w \in Shoppers, Serves(w, "open")' \/ Serves(w, "order")'
      PROVE  shopping'[w] = shopping[w] /\ shopping[w].cart \in Carts
  BY <1>1, RequestFields DEF CheckoutInv, Serves, NotShopping
<1>2. OpensAlone'
  BY <1>1 DEF CheckoutInv, OpensAlone, Serves
<1>3. OrdersConfirmed'
  BY <1>1 DEF CheckoutInv, OrdersConfirmed, Serves
<1>4. \A v \in Shoppers, p \in Promotions :
         LockedBy(v, p)' => LockedBy(v, p) /\ shopping'[v] = shopping[v]
  BY <1>1 DEF LockedBy, Serves
<1>5. \A p \in Promotions : LockedUses(p)' = LockedUses(p)
  BY DEF LockedUses, Redemptions
<1>6. LimitsLocked'
  BY <1>4, <1>5 DEF CheckoutInv, LimitsLocked, Free
<1>7. LockedWithinLimit'
  BY <1>5 DEF CheckoutInv, LockedWithinLimit, LockedUses
<1> QED BY <1>2, <1>3, <1>6, <1>7

-----------------------------------------------------------------------------
(* The actions *)

\* An opening moves on: it keeps its cart and writes no row.
LEMMA StepTypes ==
    ASSUME CheckoutInv, NEW w \in Shoppers, Serves(w, "open"),
           NEW r \in Openings, Step(w, r)
    PROVE  /\ Types'
           /\ shopping' = [shopping EXCEPT ![w] = r]
           /\ OrdersConfirmed' /\ LockedWithinLimit'
           /\ ConfirmedTogether' /\ CheckedOutNotEmpty' /\ OneOrderPerSession'
           /\ \A p \in Promotions : LockedUses(p)' = LockedUses(p)
<1>1. /\ shopping' = [shopping EXCEPT ![w] = r]
      /\ UNCHANGED <<price, promo, cart, session, orders>>
  BY DEF Step
<1>2. Types'
  BY <1>1 DEF CheckoutInv, Types, Requests
<1>3. OrdersConfirmed'
  BY <1>1 DEF CheckoutInv, Types, OrdersConfirmed, Serves, Openings
<1> QED
  BY <1>1, <1>2, <1>3 DEF CheckoutInv, LockedWithinLimit, ConfirmedTogether, CheckedOutNotEmpty,
     OneOrderPerSession, LockedUses, Redemptions

\* The unique index admits one insert of a cart at a time.
LEMMA InsertSessionInv ==
    ASSUME CheckoutInv, NEW w \in Shoppers, InsertSession(w)
    PROVE  CheckoutInv'
<1> DEFINE r == [shopping[w] EXCEPT !.step = "inserted", !.limits = Active]
<1>1. Serves(w, "open") /\ shopping[w] \in Openings /\ Step(w, r) /\ session' = session
  BY RequestFields DEF CheckoutInv, InsertSession, At, Step
<1>2. /\ r \in Openings /\ r.op = "open" /\ r.cart = shopping[w].cart /\ r.step = "inserted"
      /\ shopping[w].op = "open"
  BY <1>1 DEF Openings, Active
<1>3. shopping' = [shopping EXCEPT ![w] = r]
  BY <1>1, <1>2, StepTypes
<1>4. OpensAlone'
  BY <1>1, <1>2, <1>3 DEF CheckoutInv, Types, OpensAlone, InsertSession, UniqueSession, Serves
<1>5. LimitsLocked'
  <2>1. \A v \in Shoppers, p \in Promotions :
           LockedBy(v, p)' => LockedBy(v, p) /\ shopping'[v] = shopping[v]
    BY <1>2, <1>3 DEF CheckoutInv, Types, LockedBy, Serves
  <2> QED BY <1>1, <1>2, <2>1, StepTypes DEF CheckoutInv, LimitsLocked, Free
<1> QED BY <1>1, <1>2, <1>4, <1>5, StepTypes DEF CheckoutInv

\* The limits are locked when nobody else has locked them.
LEMMA LockLimitsInv ==
    ASSUME CheckoutInv, NEW w \in Shoppers, LockLimits(w)
    PROVE  CheckoutInv'
<1> DEFINE r == [shopping[w] EXCEPT !.step = "locked"]
<1>1. /\ Serves(w, "open") /\ shopping[w] \in Openings /\ Step(w, r) /\ session' = session
      /\ shopping[w].step = "inserted" /\ LimitsFree(w)
  BY RequestFields DEF CheckoutInv, LockLimits, At, Step
<1>2. /\ r \in Openings /\ r.op = "open" /\ r.cart = shopping[w].cart /\ r.step = "locked"
      /\ r.limits = shopping[w].limits /\ r.redeemed = shopping[w].redeemed /\ shopping[w].op = "open"
  BY <1>1 DEF Openings
<1>3. shopping' = [shopping EXCEPT ![w] = r]
  BY <1>1, <1>2, StepTypes
<1> HIDE DEF r
<1>4. OpensAlone'
  BY <1>1, <1>2, <1>3 DEF CheckoutInv, Types, OpensAlone, Serves
<1>5. LimitsLocked'
  <2>1. ASSUME NEW v \in Shoppers, NEW p \in Promotions, LockedBy(v, p)'
        PROVE  /\ v = w => p \in shopping[w].limits /\ shopping'[v].step = "locked"
               /\ v # w => LockedBy(v, p) /\ shopping'[v] = shopping[v] /\ p \notin shopping[w].limits
    <3>1. CASE v = w
      BY <1>2, <1>3, <2>1, <3>1 DEF CheckoutInv, Types, LockedBy
    <3>2. CASE v # w
      <4>1. shopping'[v] = shopping[v] /\ LockedBy(v, p)
        BY <1>3, <2>1, <3>2 DEF CheckoutInv, Types, LockedBy, Serves
      <4> QED BY <1>1, <3>2, <4>1 DEF LimitsFree, Free
    <3> QED BY <3>1, <3>2
  <2>2. \A v \in Shoppers, p \in Promotions :
           LockedBy(v, p)' => \A u \in Shoppers \ {v} : ~LockedBy(u, p)'
    BY <2>1, <1>1 DEF CheckoutInv, LimitsLocked, LimitsFree, Free
  <2> QED BY <1>1, <1>2, <2>1, <2>2, StepTypes DEF CheckoutInv, LimitsLocked, Free
<1> QED BY <1>1, <1>2, <1>4, <1>5, StepTypes DEF CheckoutInv

\* What is redeemed was eligible, so its locked uses are below the limit.
LEMMA EvaluateInv ==
    ASSUME CheckoutInv, NEW w \in Shoppers, Evaluate(w)
    PROVE  CheckoutInv'
<1> DEFINE line == cart[shopping[w].cart]
           subtotal == line.quantity * line.unit
           r == [shopping[w] EXCEPT !.step = "evaluated", !.redeemed = Applied(subtotal),
                              !.discount = Discount(Applied(subtotal), subtotal)]
<1>1. /\ Serves(w, "open") /\ shopping[w] \in Openings /\ Step(w, r) /\ session' = session
      /\ shopping[w].step = "locked"
  BY RequestFields DEF CheckoutInv, Evaluate, At, Step
<1>2. subtotal \in Nat
  <2>1. line \in CartRow
    BY <1>1 DEF CheckoutInv, Types, Openings
  <2>2. line.quantity \in Nat /\ line.unit \in Nat
    BY <2>1, PricesAssumption DEF CartRow
  <2> HIDE DEF line
  <2> QED BY <2>2
<1>3. /\ Applied(subtotal) \in SUBSET Promotions
      /\ Discount(Applied(subtotal), subtotal) \in Discounts
      /\ \A p \in Applied(subtotal) : Cardinality(Redemptions(p)) < UsageLimit[p]
  BY <1>2, AppliedAreEligible DEF Discounts, Eligible
<1>4. /\ r \in Openings /\ r.op = "open" /\ r.cart = shopping[w].cart /\ r.step = "evaluated"
      /\ r.limits = shopping[w].limits /\ r.redeemed = Applied(subtotal) /\ shopping[w].op = "open"
  BY <1>1, <1>3 DEF Openings
<1>5. shopping' = [shopping EXCEPT ![w] = r]
  BY <1>1, <1>4, StepTypes
<1> HIDE DEF r, subtotal
<1>6. OpensAlone'
  BY <1>1, <1>4, <1>5 DEF CheckoutInv, Types, OpensAlone, Serves
<1>7. LimitsLocked'
  <2>1. \A v \in Shoppers, p \in Promotions :
           /\ LockedBy(v, p)' <=> LockedBy(v, p)
           /\ v # w => shopping'[v] = shopping[v]
    BY <1>1, <1>4, <1>5 DEF CheckoutInv, Types, LockedBy, Serves
  <2>2. \A p \in Applied(subtotal) : Cardinality(LockedUses(p)) < UsageLimit[p]
    BY <1>3, Uses
  <2>3. shopping'[w] = r
    BY <1>5 DEF CheckoutInv, Types
  <2> QED BY <1>1, <1>4, <2>1, <2>2, <2>3, StepTypes DEF CheckoutInv, LimitsLocked, Free
<1> QED BY <1>1, <1>4, <1>6, <1>7, StepTypes DEF CheckoutInv

\* The session is stored: its promotions were locked by this opening alone.
LEMMA CommitOpenInv ==
    ASSUME CheckoutInv, NEW w \in Shoppers, CommitOpen(w)
    PROVE  CheckoutInv' /\ session[shopping[w].cart].status = "none"
<1> DEFINE c == shopping[w].cart
           row == [status |-> "active", quantity |-> shopping[w].quantity,
                   subtotal |-> shopping[w].subtotal, discount |-> shopping[w].discount,
                   redeemed |-> shopping[w].redeemed, limits |-> shopping[w].limits]
<1>1. /\ Serves(w, "open") /\ shopping[w] \in Openings /\ shopping[w].step = "evaluated"
      /\ shopping' = [shopping EXCEPT ![w] = NotShopping] /\ session' = [session EXCEPT ![c] = row]
      /\ UNCHANGED <<price, promo, cart, orders>>
  BY RequestFields DEF CheckoutInv, CommitOpen, At, Leave
<1>2. /\ c \in Carts /\ row \in SessionRow /\ row.status = "active" /\ row.quantity > 0
      /\ row.redeemed = shopping[w].redeemed /\ row.limits = shopping[w].limits
  BY <1>1, PricesAssumption DEF Openings, SessionRow, SessionStatus, Open
<1> HIDE DEF row
<1>3. session[c].status = "none"
  BY <1>1 DEF CheckoutInv, OpensAlone
<1>4. /\ session'[c] = row
      /\ \A d \in Carts : d # c => session'[d] = session[d]
      /\ shopping'[w] = NotShopping
      /\ \A v \in Shoppers : v # w => shopping'[v] = shopping[v]
  BY <1>1, <1>2 DEF CheckoutInv, Types
<1>5. Types'
  BY <1>1, <1>2, <1>4 DEF CheckoutInv, Types, Requests
<1>6. OpensAlone'
  <2> SUFFICES ASSUME NEW v \in Shoppers, Serves(v, "open")', shopping'[v].step # "read"
               PROVE  /\ session'[shopping'[v].cart].status = "none"
                      /\ \A u \in Shoppers \ {v} :
                            Serves(u, "open")' /\ shopping'[u].cart = shopping'[v].cart
                               => shopping'[u].step = "read"
    BY DEF OpensAlone
  <2>1. v # w /\ shopping'[v] = shopping[v] /\ Serves(v, "open") /\ shopping[v].cart \in Carts
    BY <1>4, RequestFields DEF CheckoutInv, Serves, NotShopping
  <2>2. shopping[v].cart # c
    BY <1>1, <2>1 DEF CheckoutInv, OpensAlone
  <2>3. \A u \in Shoppers : Serves(u, "open")' => shopping'[u] = shopping[u] /\ Serves(u, "open")
    BY <1>4 DEF Serves, NotShopping
  <2> QED BY <1>4, <2>1, <2>2, <2>3 DEF CheckoutInv, OpensAlone
<1>7. OrdersConfirmed'
  BY <1>3, <1>4, RequestFields DEF CheckoutInv, OrdersConfirmed, Serves, NotShopping
<1>8. ASSUME NEW p \in Promotions
      PROVE  /\ p \in shopping[w].redeemed \cap shopping[w].limits
                   => LockedUses(p)' = LockedUses(p) \cup {c}
             /\ p \notin shopping[w].redeemed \cap shopping[w].limits => LockedUses(p)' \subseteq LockedUses(p)
  BY <1>2, <1>4 DEF LockedUses, Redemptions
<1>9. LimitsLocked'
  <2>1. \A v \in Shoppers, p \in Promotions :
           LockedBy(v, p)' => v # w /\ LockedBy(v, p) /\ shopping'[v] = shopping[v]
    BY <1>4 DEF LockedBy, Serves, NotShopping
  <2>2. ASSUME NEW v \in Shoppers, NEW p \in Promotions, LockedBy(v, p)'
        PROVE  IsFiniteSet(LockedUses(p)) /\ LockedUses(p)' \subseteq LockedUses(p)
    <3>1. p \notin shopping[w].limits
      BY <1>1, <2>1, <2>2 DEF CheckoutInv, LimitsLocked, Free, LockedBy
    <3> QED BY <1>8, <3>1, Uses
  <2>3. ASSUME NEW v \in Shoppers, NEW p \in Promotions, LockedBy(v, p)',
               Cardinality(LockedUses(p)) < UsageLimit[p]
        PROVE  Cardinality(LockedUses(p)') < UsageLimit[p]
    <3>1. /\ Cardinality(LockedUses(p)') <= Cardinality(LockedUses(p))
          /\ IsFiniteSet(LockedUses(p)')
      BY <2>2, <2>3, FS_Subset
    <3>2. Cardinality(LockedUses(p)') \in Nat
      BY <3>1, FS_CardinalityType
    <3> QED BY <2>3, <3>1, <3>2, Uses
  <2> QED BY <2>1, <2>3 DEF CheckoutInv, LimitsLocked, Free
<1>10. LockedWithinLimit'
  <2> SUFFICES ASSUME NEW p \in Promotions
               PROVE  Cardinality(LockedUses(p)') <= UsageLimit[p]
    BY DEF LockedWithinLimit, LockedUses
  <2>1. Cardinality(LockedUses(p)) <= UsageLimit[p]
    BY DEF CheckoutInv, LockedWithinLimit, LockedUses
  <2>2. CASE p \in shopping[w].redeemed \cap shopping[w].limits
    <3>1. Cardinality(LockedUses(p)) < UsageLimit[p]
      BY <1>1, <2>2 DEF CheckoutInv, LimitsLocked, LockedBy
    <3>2. Cardinality(LockedUses(p)') <= Cardinality(LockedUses(p)) + 1
      <4>1. Cardinality(LockedUses(p) \cup {c}) <= Cardinality(LockedUses(p)) + 1
        <5>1. IsFiniteSet(LockedUses(p)) /\ Cardinality(LockedUses(p)) \in Nat
          BY Uses
        <5>2. Cardinality(LockedUses(p) \cup {c}) =
                 IF c \in LockedUses(p) THEN Cardinality(LockedUses(p))
                 ELSE Cardinality(LockedUses(p)) + 1
          BY <5>1, FS_AddElement
        <5> QED BY <5>1, <5>2
      <4> QED BY <1>8, <2>2, <4>1
    <3>3. Cardinality(LockedUses(p)') \in Nat
      <4>1. Cardinality(LockedUses(p) \cup {c}) \in Nat
        BY Uses, FS_AddElement, FS_CardinalityType
      <4> QED BY <1>8, <2>2, <4>1
    <3> QED BY <3>1, <3>2, <3>3, Uses
  <2>3. CASE p \notin shopping[w].redeemed \cap shopping[w].limits
    <3>1. /\ Cardinality(LockedUses(p)') <= Cardinality(LockedUses(p))
          /\ IsFiniteSet(LockedUses(p)')
      BY <1>8, <2>3, Uses, FS_Subset
    <3>2. Cardinality(LockedUses(p)') \in Nat
      BY <3>1, FS_CardinalityType
    <3> QED BY <2>1, <3>1, <3>2, Uses
  <2> QED BY <2>2, <2>3
<1>11. ConfirmedTogether' /\ CheckedOutNotEmpty' /\ OneOrderPerSession'
  BY <1>1, <1>2, <1>3, <1>4
     DEF CheckoutInv, ConfirmedTogether, CheckedOutNotEmpty, OneOrderPerSession
<1> QED BY <1>3, <1>5, <1>6, <1>7, <1>9, <1>10, <1>11 DEF CheckoutInv

\* A line is written to a cart that is still open.
LEMMA CommitEditInv ==
    ASSUME CheckoutInv, NEW w \in Shoppers, CommitEdit(w)
    PROVE  /\ CheckoutInv'
           /\ \A c \in Carts : cart[c].status \in {"checked_out", "abandoned"} => cart'[c] = cart[c]
<1> DEFINE c == shopping[w].cart
           version == Min({cart[c].version + 1, MaxVersion})
           row == [cart[c] EXCEPT !.version = version,
                                  !.quantity = shopping[w].quantity, !.unit = shopping[w].unit]
<1>1. /\ shopping[w] \in Edits /\ cart[c].status \in Open
      /\ cart' = [cart EXCEPT ![c] = row]
      /\ shopping' = [shopping EXCEPT ![w] = NotShopping]
      /\ UNCHANGED <<price, promo, session, orders>>
  BY RequestFields DEF CheckoutInv, CommitEdit, Touch, Leave
<1>2. cart[c].version + 1 \in Nat /\ MaxVersion \in Nat /\ cart[c].version \in 1..MaxVersion
  BY <1>1, PricesAssumption DEF CheckoutInv, Types, Edits, CartRow
<1>3. version \in 1..MaxVersion
  BY <1>2, MinOfTwo
<1>4. c \in Carts /\ row \in CartRow /\ row.status = cart[c].status
  <2>1. cart[c] \in CartRow
    BY <1>1 DEF CheckoutInv, Types, Edits
  <2> QED BY <1>1, <1>3, <2>1 DEF CartRow, Edits
<1> HIDE DEF row
<1>5. Types'
  BY <1>1, <1>4 DEF CheckoutInv, Types, Requests
<1>6. OpensAlone' /\ OrdersConfirmed' /\ LimitsLocked' /\ LockedWithinLimit'
  BY <1>1, Kept DEF CheckoutInv, Types
<1>7. ConfirmedTogether' /\ CheckedOutNotEmpty' /\ OneOrderPerSession'
  BY <1>1, <1>4 DEF CheckoutInv, Types, ConfirmedTogether, CheckedOutNotEmpty, OneOrderPerSession, Open
<1> QED BY <1>1, <1>4, <1>5, <1>6, <1>7 DEF CheckoutInv, Types, Open

\* A session and its cart are confirmed together, while both are open.
LEMMA CommitConfirmInv ==
    ASSUME CheckoutInv, NEW w \in Shoppers, CommitConfirm(w)
    PROVE  /\ CheckoutInv'
           /\ shopping[w].cart \in Carts
           /\ session[shopping[w].cart].status \in Open
           /\ cart[shopping[w].cart].status = "active"
<1> DEFINE c == shopping[w].cart
<1>1. /\ c \in Carts /\ session[c].status \in Open
      /\ cart[c].status = "active" /\ cart[c].quantity > 0
      /\ session' = [session EXCEPT ![c].status = "confirmed"]
      /\ cart' = [cart EXCEPT ![c].status = "checked_out"]
      /\ shopping' = [shopping EXCEPT ![w] = NotShopping]
      /\ UNCHANGED <<price, promo, orders>>
  BY RequestFields DEF CheckoutInv, CommitConfirm, StillOpen, CartReady, CheckOut, Leave, NotShopping, Serves
<1>2. /\ [session[c] EXCEPT !.status = "confirmed"] \in SessionRow
      /\ [cart[c] EXCEPT !.status = "checked_out"] \in CartRow
  <2>1. session[c] \in SessionRow /\ cart[c] \in CartRow
    BY <1>1 DEF CheckoutInv, Types
  <2>2. [session[c] EXCEPT !.status = "confirmed"] \in SessionRow
    BY <2>1 DEF SessionRow, SessionStatus, Finished
  <2>3. [cart[c] EXCEPT !.status = "checked_out"] \in CartRow
    BY <2>1 DEF CartRow, CartStatus
  <2> QED BY <2>2, <2>3
<1>3. Types'
  BY <1>1, <1>2 DEF CheckoutInv, Types, Requests, SessionRow, Open
<1>4. OpensAlone' /\ OrdersConfirmed' /\ LimitsLocked' /\ LockedWithinLimit'
  BY <1>1, Kept DEF CheckoutInv, Types, SessionRow, Open
<1>5. ConfirmedTogether' /\ CheckedOutNotEmpty' /\ OneOrderPerSession'
  BY <1>1 DEF CheckoutInv, Types, SessionRow, CartRow, ConfirmedTogether, CheckedOutNotEmpty,
     OneOrderPerSession
<1> QED BY <1>1, <1>3, <1>4, <1>5 DEF CheckoutInv

\* A session that was not confirmed gets another status that is not.
LEMMA SessionStatusInv ==
    ASSUME CheckoutInv, NEW c \in Carts, NEW status \in SessionStatus \ {"none", "confirmed"},
           session[c].status \in Open,
           session' = [session EXCEPT ![c].status = status],
           \A w \in Shoppers : shopping'[w] \in {shopping[w], NotShopping}, shopping' \in [Shoppers -> Requests],
           UNCHANGED <<price, promo, cart, orders>>
    PROVE  CheckoutInv'
<1>1. [session[c] EXCEPT !.status = status] \in SessionRow
  BY DEF CheckoutInv, Types, SessionRow
<1>2. Types'
  BY <1>1 DEF CheckoutInv, Types, SessionRow, Open
<1>3. OpensAlone' /\ OrdersConfirmed' /\ LimitsLocked' /\ LockedWithinLimit'
  BY Kept DEF CheckoutInv, Types, SessionRow, Open
<1>4. ConfirmedTogether' /\ CheckedOutNotEmpty' /\ OneOrderPerSession'
  BY DEF CheckoutInv, Types, SessionRow, ConfirmedTogether, CheckedOutNotEmpty, OneOrderPerSession, Open
<1> QED BY <1>2, <1>3, <1>4 DEF CheckoutInv

\* A session is cancelled while it is open.
LEMMA CommitCancelInv ==
    ASSUME CheckoutInv, NEW w \in Shoppers, CommitCancel(w)
    PROVE  CheckoutInv' /\ shopping[w].cart \in Carts /\ session[shopping[w].cart].status \in Open
<1>1. /\ shopping[w].cart \in Carts /\ session[shopping[w].cart].status \in Open
      /\ session' = [session EXCEPT ![shopping[w].cart].status = "cancelled"]
      /\ shopping' = [shopping EXCEPT ![w] = NotShopping]
      /\ UNCHANGED <<price, promo, cart, orders>>
  BY RequestFields DEF CheckoutInv, CommitCancel, StillOpen, Leave, NotShopping, Serves
<1>2. shopping' \in [Shoppers -> Requests] /\ \A v \in Shoppers : shopping'[v] \in {shopping[v], NotShopping}
  BY <1>1 DEF CheckoutInv, Types, Requests
<1>3. "cancelled" \in SessionStatus \ {"none", "confirmed"}
  BY DEF SessionStatus, Finished
<1> QED BY <1>1, <1>2, <1>3, SessionStatusInv

\* The unique index admits one order of a session.
LEMMA CommitOrderInv ==
    ASSUME CheckoutInv, NEW w \in Shoppers, CommitOrder(w)
    PROVE  CheckoutInv'
<1> DEFINE c == shopping[w].cart
<1>1. /\ c \in Carts /\ orders[c] = 0 /\ session[c].status = "confirmed"
      /\ orders' = [orders EXCEPT ![c] = @ + 1]
      /\ shopping' = [shopping EXCEPT ![w] = NotShopping]
      /\ UNCHANGED <<price, promo, cart, session>>
  BY RequestFields DEF CheckoutInv, CommitOrder, UniqueOrder, OrdersConfirmed, Leave, NotShopping, Serves
<1>2. Types'
  BY <1>1 DEF CheckoutInv, Types, Requests
<1>3. OpensAlone' /\ OrdersConfirmed' /\ LimitsLocked' /\ LockedWithinLimit'
  BY <1>1, Kept DEF CheckoutInv, Types
<1>4. ConfirmedTogether' /\ CheckedOutNotEmpty' /\ OneOrderPerSession'
  BY <1>1 DEF CheckoutInv, Types, ConfirmedTogether, CheckedOutNotEmpty, OneOrderPerSession
<1> QED BY <1>2, <1>3, <1>4 DEF CheckoutInv

\* Nothing is written when a request fails.
LEMMA RollbackInv ==
    ASSUME CheckoutInv, NEW w \in Shoppers, AbandonCheckout(w)
    PROVE  CheckoutInv'
<1>1. shopping' = [shopping EXCEPT ![w] = NotShopping] /\ UNCHANGED <<price, promo, cart, session, orders>>
  BY DEF AbandonCheckout, Leave
<1>2. Types'
  BY <1>1 DEF CheckoutInv, Types, Requests
<1>3. OpensAlone' /\ OrdersConfirmed' /\ LimitsLocked' /\ LockedWithinLimit'
  BY <1>1, Kept DEF CheckoutInv, Types
<1> QED BY <1>1, <1>2, <1>3
        DEF CheckoutInv, ConfirmedTogether, CheckedOutNotEmpty, OneOrderPerSession

\* A cart that was not checked out gets another status that is not.
LEMMA CartStatusInv ==
    ASSUME CheckoutInv, NEW c \in Carts, NEW row \in CartRow,
           cart[c].status # "checked_out", row.status # "checked_out",
           cart' = [cart EXCEPT ![c] = row],
           UNCHANGED <<price, promo, session, orders, shopping>>
    PROVE  CheckoutInv'
<1>1. Types'
  BY DEF CheckoutInv, Types
<1>2. OpensAlone' /\ OrdersConfirmed' /\ LimitsLocked' /\ LockedWithinLimit'
  BY Kept DEF CheckoutInv, Types
<1>3. ConfirmedTogether' /\ CheckedOutNotEmpty' /\ OneOrderPerSession'
  BY DEF CheckoutInv, Types, ConfirmedTogether, CheckedOutNotEmpty, OneOrderPerSession
<1> QED BY <1>1, <1>2, <1>3 DEF CheckoutInv

\* Carts are created and deleted, sessions expire, time passes.
LEMMA CartStepInv ==
    ASSUME CheckoutInv, NEW c \in Carts, CreateCart(c) \/ DeleteCart(c) \/ Expire(c) \/ Overdue(c)
    PROVE  CheckoutInv'
<1>1. CASE CreateCart(c)
  <2>1. [cart[c] EXCEPT !.status = "active"] \in CartRow
    BY DEF CheckoutInv, Types, CartRow, CartStatus, Open
  <2> QED BY <1>1, <2>1, CartStatusInv DEF CreateCart, CartRow, CheckoutInv, Types
<1>2. CASE DeleteCart(c)
  <2>1. [cart[c] EXCEPT !.status = "abandoned", !.quantity = 0] \in CartRow
    <3>1. cart[c] \in CartRow /\ 0 \in 0..MaxQuantity
      BY PricesAssumption DEF CheckoutInv, Types
    <3> QED BY <3>1 DEF CartRow, CartStatus
  <2>2. cart' = [cart EXCEPT ![c] = [cart[c] EXCEPT !.status = "abandoned", !.quantity = 0]]
    BY <1>2 DEF DeleteCart
  <2> QED BY <1>2, <2>1, <2>2, CartStatusInv DEF DeleteCart, CartRow, CheckoutInv, Types
<1>3. CASE Expire(c)
  BY <1>3, SessionStatusInv DEF Expire, SessionStatus, Finished, Open, CheckoutInv, Types
<1>4. CASE Overdue(c)
  <2>1. [cart[c] EXCEPT !.status = "overdue"] \in CartRow
    BY DEF CheckoutInv, Types, CartRow, CartStatus, Open
  <2>2. CASE cart[c].status = "active" /\ cart' = [cart EXCEPT ![c].status = "overdue"]
             /\ UNCHANGED session
    BY <1>4, <2>1, <2>2, CartStatusInv DEF Overdue, CartRow, CheckoutInv, Types
  <2>3. CASE session[c].status = "active" /\ UNCHANGED cart
             /\ session' = [session EXCEPT ![c].status = "overdue"]
    BY <1>4, <2>3, SessionStatusInv DEF Overdue, SessionStatus, Open, CheckoutInv, Types
  <2> QED BY <1>4, <2>2, <2>3 DEF Overdue
<1> QED BY <1>1, <1>2, <1>3, <1>4

\* Prices and promotions change without touching carts or sessions.
LEMMA StoreStepInv ==
    ASSUME CheckoutInv, \/ \E p \in Prices : SetPrice(p)
                 \/ \E p \in Promotions : Activate(p) \/ Archive(p)
    PROVE  CheckoutInv'
<1>1. UNCHANGED <<cart, session, orders, shopping>>
  BY DEF SetPrice, Activate, Archive, SetStatus
<1>2. price' \in Prices /\ promo' \in [Promotions -> PromoStatus]
  BY DEF CheckoutInv, Types, SetPrice, Activate, Archive, SetStatus, PromoStatus
<1>3. Types'
  BY <1>1, <1>2 DEF CheckoutInv, Types
<1>4. OpensAlone' /\ OrdersConfirmed' /\ LimitsLocked' /\ LockedWithinLimit'
  BY <1>1, Kept
<1> QED BY <1>1, <1>3, <1>4
        DEF CheckoutInv, ConfirmedTogether, CheckedOutNotEmpty, OneOrderPerSession

-----------------------------------------------------------------------------
(* The theorems *)

\* Each request that begins is one of those of CheckoutBeginInv.
LEMMA ServeInv ==
    ASSUME CheckoutInv, NEW w \in Shoppers, NEW c \in Carts, Shop(w, c)
    PROVE  CheckoutInv'
<1>1. cart[c] \in CartRow /\ price \in Nat
  BY PricesAssumption DEF CheckoutInv, Types
<1>2. ASSUME NEW q \in 0..MaxQuantity, BeginEdit(w, c, q) PROVE CheckoutInv'
  <2> DEFINE r == [op |-> "edit", cart |-> c, seen |-> cart[c].version,
                   quantity |-> q, unit |-> price]
  <2>1. r \in Requests /\ r.op = "edit"
    BY <1>1 DEF Requests, Edits, CartRow
  <2> QED BY <1>2, <2>1, CheckoutBeginInv DEF BeginEdit
<1>3. CASE BeginOpen(w, c)
  <2> DEFINE r == [op |-> "open", cart |-> c, step |-> "read",
                   quantity |-> cart[c].quantity, subtotal |-> price * cart[c].quantity,
                   limits |-> {}, redeemed |-> {}, discount |-> 0]
  <2>1. cart[c].quantity \in 1..MaxQuantity /\ price * cart[c].quantity \in Nat
    BY <1>1, <1>3, PricesAssumption DEF BeginOpen, HasItems, CartRow
  <2>2. r \in Requests /\ r.op = "open" /\ r.step = "read"
    BY <2>1 DEF Requests, Openings, Discounts
  <2> QED BY <1>3, <2>2, CheckoutBeginInv DEF BeginOpen
<1>4. ASSUME NEW op \in {"confirm", "cancel"}, BeginFinish(w, c, op) PROVE CheckoutInv'
  <2> DEFINE r == [op |-> op, cart |-> c]
  <2>1. r \in Requests /\ r.op \in {"confirm", "cancel"}
    BY DEF Requests, Others
  <2> QED BY <1>4, <2>1, CheckoutBeginInv DEF BeginFinish
<1>5. CASE BeginOrder(w, c)
  <2> DEFINE r == [op |-> "order", cart |-> c]
  <2>1. r \in Requests /\ r.op = "order" /\ r.cart = c
    BY DEF Requests, Others
  <2> QED BY <1>5, <2>1, CheckoutBeginInv DEF BeginOrder
<1> QED BY <1>2, <1>3, <1>4, <1>5 DEF Shop

\* Every step preserves the invariant.
LEMMA CheckoutNextInv == CheckoutInv /\ [CheckoutNext]_checkoutVars => CheckoutInv'
<1> SUFFICES ASSUME CheckoutInv, [CheckoutNext]_checkoutVars PROVE CheckoutInv'
  OBVIOUS
<1>1. CASE UNCHANGED checkoutVars
  <2>1. UNCHANGED <<price, promo, cart, session, orders, shopping>>
    BY <1>1 DEF checkoutVars
  <2>2. OpensAlone' /\ OrdersConfirmed' /\ LimitsLocked' /\ LockedWithinLimit'
    BY <2>1, Kept
  <2> QED BY <2>1, <2>2
          DEF CheckoutInv, Types, ConfirmedTogether, CheckedOutNotEmpty, OneOrderPerSession
<1>2. ASSUME NEW w \in Shoppers, Progress(w) PROVE CheckoutInv'
  BY <1>2, CommitEditInv, InsertSessionInv, LockLimitsInv, EvaluateInv, CommitOpenInv,
     CommitConfirmInv, CommitCancelInv, CommitOrderInv, RollbackInv DEF Progress
<1> QED BY <1>1, <1>2, ServeInv, CartStepInv, StoreStepInv DEF CheckoutNext

\* The invariant holds in every reachable state.
THEOREM CheckoutInductive == CheckoutSpec => []CheckoutInv
  BY CheckoutInitInv, CheckoutNextInv, PTL DEF CheckoutSpec

\* Every reachable state is well typed.
THEOREM CheckoutTypeCorrect == CheckoutSpec => []CheckoutTypeOK
<1>1. CheckoutInv => CheckoutTypeOK
  <2> SUFFICES ASSUME CheckoutInv PROVE CheckoutTypeOK
    OBVIOUS
  <2>1. \A c \in Carts : cart[c] \in CartRow /\ session[c] \in SessionRow /\ orders[c] \in Nat
    BY DEF CheckoutInv, Types
  <2> QED BY <2>1, RequestFields DEF CheckoutInv, Types, CheckoutTypeOK, CartRow, SessionRow
<1> QED BY CheckoutInductive, <1>1, PTL

\* A session is confirmed if and only if its cart is checked out.
THEOREM Together == CheckoutSpec => []ConfirmedTogether
  BY CheckoutInductive, PTL DEF CheckoutInv

\* No cart is checked out empty.
THEOREM NotEmpty == CheckoutSpec => []CheckedOutNotEmpty
  BY CheckoutInductive, PTL DEF CheckoutInv

\* Checkouts that locked a promotion never exceed its limit.
THEOREM WithinLimit == CheckoutSpec => []LockedWithinLimit
  BY CheckoutInductive, PTL DEF CheckoutInv

\* A session has at most one order, and only once it is confirmed.
THEOREM OneOrder == CheckoutSpec => []OneOrderPerSession
  BY CheckoutInductive, PTL DEF CheckoutInv

\* What is frozen, finished or closed never changes again.
THEOREM Frozen == CheckoutSpec => FrozenForever
<1> DEFINE KeptSession(c) ==
              /\ session[c].status # "none" =>
                    [session'[c] EXCEPT !.status = "none"] = [session[c] EXCEPT !.status = "none"]
              /\ session[c].status \in Finished => session'[c].status = session[c].status
           KeptCart(c) ==
              cart[c].status \in {"checked_out", "abandoned"} => cart'[c] = cart[c]
           KeptAll == \A c \in Carts : KeptSession(c) /\ KeptCart(c)
           AllKept == \A c \in Carts :
              /\ session[c].status # "none" =>
                    [session'[c] EXCEPT !.status = "none"] = [session[c] EXCEPT !.status = "none"]
              /\ session[c].status \in Finished => session'[c].status = session[c].status
              /\ cart[c].status \in {"checked_out", "abandoned"} => cart'[c] = cart[c]
<1>1. CheckoutInv /\ [CheckoutNext]_checkoutVars => [AllKept]_checkoutVars
  <2> SUFFICES ASSUME CheckoutInv, CheckoutNext PROVE AllKept
    OBVIOUS
  <2>1. cart \in [Carts -> CartRow] /\ session \in [Carts -> SessionRow]
    BY DEF CheckoutInv, Types
  <2>2. ASSUME session' = session PROVE \A c \in Carts : KeptSession(c)
    BY <2>2
  <2>3. ASSUME cart' = cart PROVE \A c \in Carts : KeptCart(c)
    BY <2>3
  <2>4. ASSUME NEW c \in Carts, NEW status, session[c].status \in Open,
               session' = [session EXCEPT ![c].status = status]
        PROVE  \A d \in Carts : KeptSession(d)
    <3>1. ASSUME NEW d \in Carts, d # c PROVE KeptSession(d)
      BY <2>1, <2>4, <3>1
    <3>2. KeptSession(c)
      <4>1. session'[c] = [session[c] EXCEPT !.status = status] /\ session[c] \in SessionRow
        BY <2>1, <2>4
      <4>2. [session'[c] EXCEPT !.status = "none"] = [session[c] EXCEPT !.status = "none"]
        BY <4>1 DEF SessionRow
      <4> QED BY <2>4, <4>2 DEF Open, Finished
    <3> QED BY <3>1, <3>2
  <2>5. ASSUME NEW w \in Shoppers, Progress(w) PROVE KeptAll
    <3>1. CASE CommitEdit(w)
      BY <2>2, <3>1, CommitEditInv DEF CommitEdit
    <3>2. CASE CommitOpen(w)
      <4>1. session' = [session EXCEPT ![shopping[w].cart] = session'[shopping[w].cart]]
            /\ session[shopping[w].cart].status = "none" /\ cart' = cart
        BY <3>2, <2>1, CommitOpenInv DEF CommitOpen
      <4>2. \A c \in Carts : c # shopping[w].cart => session'[c] = session[c]
        BY <2>1, <3>2 DEF CommitOpen
      <4> QED BY <2>3, <4>1, <4>2 DEF Finished
    <3>3. CASE CommitConfirm(w)
      <4>1. \A c \in Carts : KeptSession(c)
        BY <2>4, <3>3, CommitConfirmInv DEF CommitConfirm
      <4> QED BY <2>1, <3>3, <4>1, CommitConfirmInv DEF CommitConfirm, CheckOut
    <3>4. CASE CommitCancel(w)
      BY <2>3, <2>4, <3>4, CommitCancelInv DEF CommitCancel
    <3>5. CASE InsertSession(w) \/ LockLimits(w) \/ Evaluate(w) \/ CommitOrder(w) \/ AbandonCheckout(w)
      BY <2>2, <2>3, <3>5
         DEF InsertSession, LockLimits, Evaluate, Step, CommitOrder, AbandonCheckout
    <3> QED BY <2>5, <3>1, <3>2, <3>3, <3>4, <3>5 DEF Progress
  <2>6. ASSUME NEW w \in Shoppers, NEW c \in Carts, Shop(w, c) PROVE KeptAll
    BY <2>2, <2>3, <2>6 DEF Shop, BeginEdit, BeginOpen, BeginFinish, BeginOrder, Enter
  <2>7. ASSUME NEW c \in Carts, CreateCart(c) \/ DeleteCart(c) \/ Expire(c) \/ Overdue(c)
        PROVE  KeptAll
    <3>1. ASSUME session' = session, NEW row, cart' = [cart EXCEPT ![c] = row],
                 cart[c].status \notin {"checked_out", "abandoned"}
          PROVE  KeptAll
      BY <2>1, <2>2, <3>1
    <3>2. ASSUME cart' = cart, NEW status, session[c].status \in Open,
                 session' = [session EXCEPT ![c].status = status]
          PROVE  KeptAll
      BY <2>3, <2>4, <3>2
    <3>3. CASE CreateCart(c)
      BY <3>1, <3>3 DEF CreateCart
    <3>4. CASE DeleteCart(c)
      <4>1. cart' = [cart EXCEPT ![c] = [cart[c] EXCEPT !.status = "abandoned", !.quantity = 0]]
        BY <3>4 DEF DeleteCart
      <4> QED BY <3>1, <3>4, <4>1 DEF DeleteCart
    <3>5. CASE Expire(c)
      <4>1. session[c].status \in Open
        BY <3>5 DEF Expire, Open
      <4>2. session' = [session EXCEPT ![c].status = "expired"] /\ cart' = cart
        BY <3>5 DEF Expire
      <4> QED BY <3>2, <4>1, <4>2
    <3>6. CASE Overdue(c)
      BY <3>1, <3>2, <3>6 DEF Overdue, Open
    <3> QED BY <2>7, <3>3, <3>4, <3>5, <3>6
  <2>8. ASSUME \/ \E p \in Prices : SetPrice(p)
               \/ \E p \in Promotions : Activate(p) \/ Archive(p)
        PROVE  KeptAll
    BY <2>2, <2>3, <2>8 DEF SetPrice, Activate, Archive, SetStatus
  <2>9. KeptAll
    BY <2>5, <2>6, <2>7, <2>8 DEF CheckoutNext
  <2> QED BY <2>9
<1> QED BY CheckoutInductive, <1>1, PTL DEF CheckoutSpec, FrozenForever

-----------------------------------------------------------------------------
(* Payments                                                                  *)

\* A request on its way was accepted from a status its operation allows, and
\* the answer it holds is the provider's.
RequestsOK ==
    \A w \in Workers : tx[w] # Idle =>
        /\ tx[w].seen \in From(tx[w].op)
        /\ tx[w].answer = "done" => tx[w].op \in provider[tx[w].pay]

\* RowsFollowProvider and, for it to be inductive, what a created row says.
RowsOK ==
    /\ RowsFollowProvider
    /\ \A p \in Payments : payment[p] = "created" => "create" \in provider[p]

PaymentsInv ==
    /\ TypeOK
    /\ RequestsOK
    /\ RowsOK
    /\ OnePaymentPerKey
    /\ CapturedOrderConfirmed
    /\ OneCapturePerOrder

-----------------------------------------------------------------------------
(* The parts of a transition. *)

\* The components of a request on its way.
LEMMA RequestType ==
    ASSUME TypeOK, NEW w \in Workers, tx[w] # Idle
    PROVE  /\ tx[w].op \in Operations
           /\ tx[w].pay \in Payments
           /\ tx[w].seen \in PaymentStatus
           /\ tx[w].answer \in {"none", "done", "refused"}
  BY DEF TypeOK, Request

\* Only an accepted operation on an authorized row captures, and none leads
\* back to an earlier status.
LEMMA ToStatus ==
    ASSUME NEW op \in Operations, NEW answer \in {"none", "done", "refused"}
    PROVE  /\ To(op, answer) \in PaymentStatus \ {"none"}
           /\ To(op, answer) = "created" => op = "create" /\ answer # "refused"
           /\ To(op, answer) = "authorized" => op = "authorize" /\ answer # "refused"
           /\ To(op, answer) = "captured" => op = "capture" /\ answer # "refused"
           /\ To(op, answer) = "cancelled" => op = "cancel" /\ answer # "refused"
  BY DEF To, Operations, PaymentStatus

\* The initial state satisfies the invariant.
LEMMA PaymentsInitInv == Init => PaymentsInv
  BY DEF Init, PaymentsInv, TypeOK, RequestsOK, RowsOK, RowsFollowProvider,
         OnePaymentPerKey, CapturedOrderConfirmed, OneCapturePerOrder, Exists,
         Request, Idle, OrderStatus, PaymentStatus

\* A request that has begun satisfies what is said of requests.
LEMMA PaymentsBeginInv ==
    ASSUME PaymentsInv, NEW w \in Workers, NEW op \in Operations, NEW p \in Payments,
           Begin(w, op, p)
    PROVE  PaymentsInv'
<1>1. TypeOK'
  BY DEF PaymentsInv, TypeOK, Begin, Request, Serving
<1>2. RequestsOK'
  <2> SUFFICES ASSUME NEW v \in Workers, tx'[v] # Idle
               PROVE  /\ tx'[v].seen \in From(tx'[v].op)
                      /\ tx'[v].answer = "done" => tx'[v].op \in provider[tx'[v].pay]
    BY DEF RequestsOK, Begin
  <2>1. CASE v = w
    BY <2>1 DEF PaymentsInv, TypeOK, Begin, Serving
  <2>2. CASE v # w
    BY <2>2 DEF PaymentsInv, TypeOK, RequestsOK, Begin
  <2> QED BY <2>1, <2>2
<1> QED
  BY <1>1, <1>2 DEF PaymentsInv, Begin, RowsOK, RowsFollowProvider, OnePaymentPerKey,
     CapturedOrderConfirmed, OneCapturePerOrder, Exists

\* The answer of the provider is recorded on both sides.
LEMMA CallProviderInv ==
    ASSUME PaymentsInv, NEW w \in Workers, CallProvider(w)
    PROVE  PaymentsInv'
<1> DEFINE op == tx[w].op
           p == tx[w].pay
<1>1. op \in Operations /\ p \in Payments
  BY RequestType DEF PaymentsInv, CallProvider
<1>2. PICK answer \in {"done", "refused"} :
        /\ tx' = [tx EXCEPT ![w] = Serving(op, p, tx[w].seen, answer)]
        /\ provider' = [provider EXCEPT ![p] = IF answer = "done" THEN @ \cup {op} ELSE @]
  BY DEF CallProvider
<1>3. \A q \in Payments : provider[q] \subseteq provider'[q]
  BY <1>1, <1>2 DEF PaymentsInv, TypeOK
<1>4. TypeOK'
  <2>2. Serving(op, p, tx[w].seen, answer) \in Request
    BY <1>1, RequestType DEF PaymentsInv, CallProvider, Serving, Request
  <2>3. tx' \in [Workers -> Request]
    BY <1>2, <2>2 DEF PaymentsInv, TypeOK
  <2>4. provider' \in [Payments -> SUBSET Operations]
    BY <1>1, <1>2 DEF PaymentsInv, TypeOK
  <2> QED BY <2>3, <2>4 DEF PaymentsInv, TypeOK, CallProvider
<1>5. RequestsOK'
  <2> SUFFICES ASSUME NEW v \in Workers, tx'[v] # Idle
               PROVE  /\ tx'[v].seen \in From(tx'[v].op)
                      /\ tx'[v].answer = "done" => tx'[v].op \in provider'[tx'[v].pay]
    BY DEF RequestsOK
  <2>1. CASE v = w
    <3>1. /\ tx'[w].op = op /\ tx'[w].pay = p /\ tx'[w].answer = answer
          /\ tx'[w].seen = tx[w].seen
      BY <1>2 DEF PaymentsInv, TypeOK, Serving
    <3>2. answer = "done" => op \in provider'[p]
      BY <1>1, <1>2 DEF PaymentsInv, TypeOK
    <3> QED BY <2>1, <3>1, <3>2 DEF PaymentsInv, RequestsOK, CallProvider
  <2>2. CASE v # w
    <3>1. tx'[v] = tx[v]
      BY <1>2, <2>2 DEF PaymentsInv, TypeOK
    <3>2. tx[v].pay \in Payments
      BY <3>1, RequestType DEF PaymentsInv
    <3> QED BY <1>3, <3>1, <3>2 DEF PaymentsInv, RequestsOK
  <2> QED BY <2>1, <2>2
<1>6. RowsOK'
  BY <1>3 DEF PaymentsInv, RowsOK, RowsFollowProvider, CallProvider
<1> QED
  BY <1>4, <1>5, <1>6 DEF PaymentsInv, CallProvider, OnePaymentPerKey,
     CapturedOrderConfirmed, OneCapturePerOrder, Exists

\* Ending a request keeps what is said of the others.
LEMMA EndKeepsRequests ==
    ASSUME TypeOK, RequestsOK, NEW w \in Workers, End(w)
    PROVE  /\ RequestsOK'
           /\ provider' = provider
           /\ tx' \in [Workers -> Request]
<1>1. tx' \in [Workers -> Request] /\ provider' = provider
  BY DEF TypeOK, End, Request
<1>2. \A v \in Workers : tx'[v] # Idle => tx'[v] = tx[v]
  BY DEF TypeOK, End
<1> QED BY <1>1, <1>2 DEF RequestsOK

\* A created row: its key is new and its order untouched.
LEMMA CommitCreateInv ==
    ASSUME PaymentsInv, NEW w \in Workers, CommitCreate(w)
    PROVE  PaymentsInv'
<1> DEFINE p == tx[w].pay
<1>1. p \in Payments /\ "create" \in provider[p]
  BY RequestType DEF PaymentsInv, RequestsOK, CommitCreate, Answered
<1>2. payment' = [payment EXCEPT ![p] = "created"] /\ order' = order
  BY DEF CommitCreate
<1>3. RequestsOK' /\ provider' = provider /\ tx' \in [Workers -> Request]
  BY EndKeepsRequests DEF PaymentsInv, CommitCreate
<1>4. TypeOK'
  BY <1>1, <1>2, <1>3 DEF PaymentsInv, TypeOK, PaymentStatus
<1>5. RowsOK'
  BY <1>1, <1>2, <1>3 DEF PaymentsInv, TypeOK, RowsOK, RowsFollowProvider
<1>6. OnePaymentPerKey'
  <2>1. \A q \in Payments : payment[q] # "none" => KeyOf(q) # KeyOf(p)
    BY DEF CommitCreate, UniqueKey, Exists
  <2> QED BY <1>1, <1>2, <2>1 DEF PaymentsInv, TypeOK, OnePaymentPerKey, Exists
<1>7. CapturedOrderConfirmed' /\ OneCapturePerOrder'
  BY <1>1, <1>2 DEF PaymentsInv, TypeOK, CapturedOrderConfirmed, OneCapturePerOrder
<1> QED BY <1>3, <1>4, <1>5, <1>6, <1>7 DEF PaymentsInv

\* What a transition does to its row, whatever it does to the order.
LEMMA TransitionFacts ==
    ASSUME PaymentsInv, NEW w \in Workers, Transition(w)
    PROVE  /\ tx[w].pay \in Payments
           /\ payment[tx[w].pay] \in {"created", "authorized"}
           /\ payment' = [payment EXCEPT ![tx[w].pay] = To(tx[w].op, tx[w].answer)]
           /\ payment' \in [Payments -> PaymentStatus]
           /\ tx' \in [Workers -> Request]
           /\ provider' = provider
           /\ RequestsOK' /\ RowsOK' /\ OnePaymentPerKey'
<1> DEFINE p == tx[w].pay
           op == tx[w].op
           status == To(op, tx[w].answer)
<1>1. /\ p \in Payments /\ op \in {"authorize", "capture", "cancel"}
      /\ tx[w].answer \in {"done", "refused"}
      /\ payment[p] \in From(op)
      /\ tx[w].answer = "done" => op \in provider[p]
  BY RequestType DEF PaymentsInv, RequestsOK, Transition, Answered, SeenIsCurrent, Operations
<1>2. payment[p] \in {"created", "authorized"} /\ (op = "capture" => payment[p] = "authorized")
  BY <1>1 DEF From
<1>3. payment' = [payment EXCEPT ![p] = status]
  BY DEF Transition
<1>4. RequestsOK' /\ provider' = provider /\ tx' \in [Workers -> Request]
  BY EndKeepsRequests DEF PaymentsInv, Transition
<1>5. /\ status \in PaymentStatus \ {"none"}
      /\ status # "created"
      /\ status = "authorized" => "authorize" \in provider[p]
      /\ status = "captured" => "capture" \in provider[p] /\ payment[p] = "authorized"
      /\ status = "cancelled" => "cancel" \in provider[p]
  BY <1>1, <1>2, ToStatus DEF Operations
<1>6. payment' \in [Payments -> PaymentStatus]
  BY <1>1, <1>3, <1>5 DEF PaymentsInv, TypeOK
<1>7. RowsOK'
  <2> SUFFICES ASSUME NEW q \in Payments
               PROVE  /\ payment'[q] = "created" => "create" \in provider[q]
                      /\ payment'[q] = "authorized" =>
                            {"create", "authorize"} \subseteq provider[q]
                      /\ payment'[q] = "captured" =>
                            {"create", "authorize", "capture"} \subseteq provider[q]
                      /\ payment'[q] = "cancelled" => "cancel" \in provider[q]
    BY <1>4 DEF RowsOK, RowsFollowProvider
  <2>1. CASE q = p
    BY <2>1, <1>1, <1>2, <1>3, <1>5 DEF PaymentsInv, TypeOK, RowsOK, RowsFollowProvider
  <2>2. CASE q # p
    BY <2>2, <1>3 DEF PaymentsInv, TypeOK, RowsOK, RowsFollowProvider
  <2> QED BY <2>1, <2>2
<1>8. OnePaymentPerKey'
  BY <1>1, <1>2, <1>3 DEF PaymentsInv, TypeOK, OnePaymentPerKey, Exists
<1> QED BY <1>1, <1>2, <1>3, <1>4, <1>6, <1>7, <1>8

\* A transition other than a capture leaves the orders alone.
LEMMA CommitTransitionInv ==
    ASSUME PaymentsInv, NEW w \in Workers, CommitTransition(w)
    PROVE  PaymentsInv'
<1> DEFINE p == tx[w].pay
           status == To(tx[w].op, tx[w].answer)
<1>1. Transition(w) /\ order' = order
  BY DEF CommitTransition
<1>2. status # "captured"
  BY <1>1, RequestType, ToStatus DEF PaymentsInv, CommitTransition, Transition, Answered
<1>3. \A q \in Payments : payment'[q] = "captured" => payment[q] = "captured"
  BY <1>1, <1>2, TransitionFacts DEF PaymentsInv, TypeOK
<1>4. CapturedOrderConfirmed' /\ OneCapturePerOrder'
  BY <1>1, <1>3 DEF PaymentsInv, CapturedOrderConfirmed, OneCapturePerOrder
<1> QED BY <1>1, <1>4, TransitionFacts DEF PaymentsInv, TypeOK

\* A capture finds its order pending, so no other payment of it is captured.
LEMMA CommitCaptureInv ==
    ASSUME PaymentsInv, NEW w \in Workers, CommitCapture(w)
    PROVE  PaymentsInv'
<1> DEFINE p == tx[w].pay
           o == OrderOf(p)
<1>1. Transition(w) /\ order[o] = "pending" /\ order' = [order EXCEPT ![o] = "confirmed"]
  BY DEF CommitCapture, Confirmable, Confirm
<1>2. p \in Payments /\ o \in Orders
  BY <1>1, TransitionFacts DEF Payments, OrderOf
<1>3. order' \in [Orders -> OrderStatus] /\ order'[o] = "confirmed"
  BY <1>1, <1>2 DEF PaymentsInv, TypeOK, OrderStatus
<1>4. \A q \in Payments : q # p => payment'[q] = payment[q]
  BY <1>1, <1>2, TransitionFacts DEF PaymentsInv, TypeOK
<1>5. \A q \in Payments : OrderOf(q) = o => payment[q] # "captured"
  BY <1>1 DEF PaymentsInv, CapturedOrderConfirmed
<1>6. CapturedOrderConfirmed'
  <2>1. \A q \in Payments : OrderOf(q) \in Orders
    BY DEF Payments, OrderOf
  <2> QED BY <1>1, <1>2, <1>3, <1>4, <2>1 DEF PaymentsInv, TypeOK, CapturedOrderConfirmed
<1>7. OneCapturePerOrder'
  BY <1>4, <1>5 DEF PaymentsInv, OneCapturePerOrder
<1> QED BY <1>1, <1>3, <1>6, <1>7, TransitionFacts DEF PaymentsInv, TypeOK

\* The order endpoints move an order away from pending, never back.
LEMMA OrderStepInv ==
    ASSUME PaymentsInv, NEW o \in Orders, ConfirmOrder(o) \/ CancelOrder(o)
    PROVE  PaymentsInv'
<1>1. /\ order' \in [Orders -> OrderStatus]
      /\ \A x \in Orders : order'[x] = "pending" => order[x] = "pending"
  BY DEF PaymentsInv, TypeOK, ConfirmOrder, CancelOrder, Confirmable, Confirm, OrderStatus
<1>2. \A q \in Payments : OrderOf(q) \in Orders
  BY DEF Payments, OrderOf
<1>3. UNCHANGED <<payment, provider, tx>>
  BY DEF ConfirmOrder, CancelOrder
<1> QED BY <1>1, <1>2, <1>3 DEF PaymentsInv, TypeOK, RequestsOK, RowsOK, RowsFollowProvider,
     OnePaymentPerKey, CapturedOrderConfirmed, OneCapturePerOrder, Exists

\* Every step preserves the invariant.
LEMMA PaymentsNextInv == PaymentsInv /\ [Next]_vars => PaymentsInv'
<1> SUFFICES ASSUME PaymentsInv, [Next]_vars PROVE PaymentsInv'
  OBVIOUS
<1>1. CASE UNCHANGED vars
  BY <1>1 DEF vars, PaymentsInv, TypeOK, RequestsOK, RowsOK, RowsFollowProvider,
     OnePaymentPerKey, CapturedOrderConfirmed, OneCapturePerOrder, Exists
<1>2. ASSUME NEW w \in Workers, NEW p \in Payments, BeginCreate(w, p) PROVE PaymentsInv'
  BY <1>2, PaymentsBeginInv DEF BeginCreate, Operations
<1>3. ASSUME NEW w \in Workers, NEW p \in Payments, NEW op \in Operations,
             BeginTransition(w, op, p)
      PROVE  PaymentsInv'
  BY <1>3, PaymentsBeginInv DEF BeginTransition
<1>4. ASSUME NEW w \in Workers, Rollback(w) PROVE PaymentsInv'
  <2>1. RequestsOK' /\ provider' = provider /\ tx' \in [Workers -> Request]
    BY <1>4, EndKeepsRequests DEF PaymentsInv, Rollback
  <2>2. order' = order /\ payment' = payment
    BY <1>4 DEF Rollback
  <2> QED BY <2>1, <2>2 DEF PaymentsInv, TypeOK, RowsOK, RowsFollowProvider,
       OnePaymentPerKey, CapturedOrderConfirmed, OneCapturePerOrder, Exists
<1> QED
  BY <1>1, <1>2, <1>3, <1>4, CallProviderInv, CommitCreateInv, CommitTransitionInv,
     CommitCaptureInv, OrderStepInv DEF Next, Serve

\* The invariant holds in every reachable state.
THEOREM PaymentsInductive == Spec => []PaymentsInv
  BY PaymentsInitInv, PaymentsNextInv, PTL DEF Spec

-----------------------------------------------------------------------------

\* Every reachable state is well typed.
THEOREM PaymentsTypeCorrect == Spec => []TypeOK
  BY PaymentsInductive, PTL DEF PaymentsInv

\* At most one payment of an order is ever captured.
THEOREM OneCapture == Spec => []OneCapturePerOrder
  BY PaymentsInductive, PTL DEF PaymentsInv

\* No order with a captured payment is pending.
THEOREM CaptureConfirms == Spec => []CapturedOrderConfirmed
  BY PaymentsInductive, PTL DEF PaymentsInv

\* An idempotency key names one payment.
THEOREM OnePayment == Spec => []OnePaymentPerKey
  BY PaymentsInductive, PTL DEF PaymentsInv

\* The rows never run ahead of the provider.
THEOREM RowsFollow == Spec => []RowsFollowProvider
<1>1. PaymentsInv => RowsFollowProvider
  BY DEF PaymentsInv, RowsOK
<1> QED BY PaymentsInductive, <1>1, PTL

\* A terminal payment never changes.
THEOREM Final == Spec => TerminalIsFinal
<1> DEFINE Stays == \A p \in Payments : payment[p] \in {"captured", "failed", "cancelled"}
                                          => payment'[p] = payment[p]
<1>1. PaymentsInv /\ [Next]_vars => [Stays]_vars
  <2> SUFFICES ASSUME PaymentsInv, Next PROVE Stays
    OBVIOUS
  <2>1. ASSUME NEW w \in Workers, Transition(w) PROVE Stays
    BY <2>1, TransitionFacts DEF PaymentsInv, TypeOK
  <2>2. ASSUME NEW w \in Workers, CommitCreate(w) PROVE Stays
    <3>1. tx[w].pay \in Payments /\ payment[tx[w].pay] = "none"
      BY <2>2, RequestType DEF PaymentsInv, CommitCreate, UniqueKey, Exists, Answered
    <3> QED BY <2>2, <3>1 DEF PaymentsInv, TypeOK, CommitCreate
  <2>3. ASSUME payment' = payment PROVE Stays
    BY <2>3
  <2> QED
    BY <2>1, <2>2, <2>3 DEF Next, Serve, BeginCreate, BeginTransition, Begin, CallProvider,
       CommitTransition, CommitCapture, Rollback, ConfirmOrder, CancelOrder
<1> QED BY PaymentsInductive, <1>1, PTL DEF Spec, TerminalIsFinal
=============================================================================

----------------------------- MODULE MCPurchase -----------------------------
(***************************************************************************)
(* From the cart to the money given back: checkouts that become orders,    *)
(* payments of an order, and returns of one with their refunds.  The three *)
(* modules share no state, so one run checks them; `part` says which one a *)
(* behaviour is about.                                                     *)
(***************************************************************************)
EXTENDS Checkout, Payments, Returns, TLC

VARIABLE part

purchaseVars == <<part, checkoutVars, vars, returnVars>>

MCInit == CheckoutInit /\ Init /\ ReturnsInit /\ part \in {"checkout", "payments", "returns"}

MCNext ==
    \/ part = "checkout" /\ CheckoutNext /\ UNCHANGED <<part, vars, returnVars>>
    \/ part = "payments" /\ Next /\ UNCHANGED <<part, checkoutVars, returnVars>>
    \/ part = "returns" /\ ReturnsNext /\ UNCHANGED <<part, checkoutVars, vars>>

MCSpec == MCInit /\ [][MCNext]_purchaseVars

\* The requests of the three are the same model values, and so are the carts
\* and the idempotency keys.
Symmetry == Permutations(Workers) \cup Permutations(Keys)

\* Each cart has its own customer; the promotion may be used once.
MCOwner == [c \in Carts |-> c]
MCAmountOff == [p \in Promotions |-> 2]
MCUsageLimit == [p \in Promotions |-> 1]
MCMaxStack == [p \in Promotions |-> 2]

\* Two lines of one unit, the second twice as dear as the first.
CONSTANTS l1, l2
MCPurchased == [l \in Lines |-> 1]
MCPrice == [l \in Lines |-> IF l = l1 THEN 1 ELSE 2]
=============================================================================

------------------------------- MODULE MCStock -------------------------------
(* Two orders that want one and two units of the same item; and, on their  *)
(* own, two paid orders of one unit each on their way to the customer.     *)
EXTENDS Stock, Fulfilment, TLC

CONSTANTS i1, i2, o1, o2, p1, p2

MCEntries == [onHand: 0..2, reserved: 0..2, status: ItemStatus]

MCDemand == o1 :> (i1 :> 1) @@ o2 :> (i1 :> 2)

\* Two orders compete for the last unit, or one order is reserved twice.
MCBookings == {<<p1, 1>>, <<p1, 2>>, <<p2, 1>>}

\* Which system a behaviour is about; every one is checked on its own.
VARIABLE part

MCInit == Init /\ FulfilmentInit /\ part \in {"stock", "rivals", "retry"}
MCNext ==
    \/ part = "stock" /\ Next /\ UNCHANGED <<fulfilmentVars, part>>
    \/ /\ FulfilmentNext /\ UNCHANGED <<vars, part>>
       /\ \/ part = "rivals" /\ booking'[<<p1, 2>>] = "none"
          \/ part = "retry" /\ purchase'[p2] = purchase[p2]
MCSpec == MCInit /\ [][MCNext]_<<vars, fulfilmentVars, part>>

\* Requests are alike.
MCSymmetry == Permutations(Handlings)

\* Oversubscription is a matter of the first system alone.
MCStockSpec == Init /\ FulfilmentInit /\ part = "stock"
               /\ [][Next /\ UNCHANGED <<fulfilmentVars, part>>]_<<vars, fulfilmentVars, part>>
=============================================================================

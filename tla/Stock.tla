-------------------------------- MODULE Stock --------------------------------
(***************************************************************************)
(* The stock of a store and the holds placed on it: InventoryService and   *)
(* ReservationService seen as one committed transaction per request.  The  *)
(* row locks that make each of them atomic are the subject of StockTx.     *)
(*                                                                         *)
(* A request carrying a stale expected_version is rejected without effect, *)
(* so a step below stands for a request whose version was current.  A      *)
(* request reads the clock once and commits at most MaxLag ticks later.    *)
(***************************************************************************)
EXTENDS Integers, FiniteSets

CONSTANTS
    Items,       \* inventory items, one per product variant
    Orders,      \* paid orders; each carries the lines of one checkout
    Attempts,    \* the reservations an order may go through
    Demand,      \* Demand[o][i]: units of item i in the lines of order o
    MaxDemand,   \* bound: units of one order line
    Entries,     \* quantities and status an operator may submit
    MaxVersion,  \* bound: optimistic version of an inventory row
    MaxTtl,      \* bound: lifetime of a reservation, in clock ticks
    MaxClock,    \* bound: clock ticks
    MaxLag       \* bound: clock ticks between a request's reading and its commit

ASSUME BoundsAssumption ==
    /\ MaxDemand \in Nat /\ MaxVersion \in Nat
    /\ MaxTtl \in Nat /\ MaxClock \in Nat /\ MaxLag \in Nat

ASSUME FiniteAssumption == IsFiniteSet(Orders) /\ IsFiniteSet(Attempts)

\* An order line has a positive quantity; 0 means the item is not ordered.
ASSUME DemandAssumption == Demand \in [Orders -> [Items -> 0..MaxDemand]]

Reservations == Orders \X Attempts
ItemStatus == {"active", "out_of_stock", "discontinued"}
Entry == [onHand: Nat, reserved: Nat, status: ItemStatus]
HoldStatus == {"none", "active", "consumed", "released", "expired"}

ASSUME EntriesAssumption == Entries \subseteq Entry

VARIABLES
    stock,     \* inventory_items: one row per item, version 0 before creation
    ledger,    \* inventory_movements: net quantity delta recorded per item
    snapshot,  \* order_items.inventory_version: 0 before the checkout
    hold,      \* inventory_reservations: lifecycle and expiry
    shipped,   \* orders whose shipment was dispatched
    clock      \* datetime.now(UTC)

vars == <<stock, ledger, snapshot, hold, shipped, clock>>

Row == [onHand: Nat, reserved: Nat, status: ItemStatus,
        version: Nat, deleted: BOOLEAN]
Hold == [status: HoldStatus, expires: Nat]

TypeOK ==
    /\ stock \in [Items -> Row]
    /\ ledger \in [Items -> Int]
    /\ snapshot \in [Orders -> [Items -> Nat]]
    /\ hold \in [Reservations -> Hold]
    /\ shipped \subseteq Orders
    /\ clock \in Nat

-----------------------------------------------------------------------------

Lines(o) == {i \in Items : Demand[o][i] > 0}

\* A row that queries return: created and not soft-deleted.
Visible(i) == stock[i].version > 0 /\ ~stock[i].deleted

\* The quantity_available column, always quantity_on_hand - quantity_reserved.
Available(i) == stock[i].onHand - stock[i].reserved

\* What datetime.now may have returned to a request that commits now.
Readings == {now \in 0..clock : clock <= now + MaxLag}

LiveAt(r, now) == hold[r].status = "active" /\ hold[r].expires > now
Live(r) == LiveAt(r, clock)
Overdue(r) == hold[r].status = "active" /\ hold[r].expires <= clock

\* The units of item i held by the active reservations unexpired at now.
HeldUnits(i, now) ==
    {u \in Reservations \X (1..MaxDemand) :
        LiveAt(u[1], now) /\ u[2] <= Demand[u[1][1]][i]}
HeldAt(i, now) == Cardinality(HeldUnits(i, now))
Held(i) == HeldAt(i, clock)

-----------------------------------------------------------------------------

Init ==
    /\ stock = [i \in Items |-> [onHand |-> 0, reserved |-> 0,
                                 status |-> "active", version |-> 0,
                                 deleted |-> FALSE]]
    /\ ledger = [i \in Items |-> 0]
    /\ snapshot = [o \in Orders |-> [i \in Items |-> 0]]
    /\ hold = [r \in Reservations |-> [status |-> "none", expires |-> 0]]
    /\ shipped = {}
    /\ clock = 0

\* What an operation that sets quantities must leave for the live holds.
IgnoresHolds(i, onHand, reserved) == onHand >= reserved
KeepsHolds(i, onHand, reserved) == onHand - reserved >= Held(i)

\* What the dispatch of n units needs on the shelf.
IgnoresReserved(i, n) == stock[i].onHand >= n
IgnoresStock(i, n) == n > 0
Sufficient(i, n) == Available(i) >= n

\* The quantity_delta of the movement recorded for a new on-hand count.
DeltaOfAvailable(i, onHand) == onHand - Available(i)
Delta(i, onHand) == onHand - stock[i].onHand

\* The row update every repository method performs: new values, version + 1.
Rewrite(i, row) ==
    /\ stock[i].version < MaxVersion
    /\ stock' = [stock EXCEPT ![i] = [row EXCEPT !.version = stock[i].version + 1]]

\* The row after an operator entered quantities and status.
Entered(i, e) == [stock[i] EXCEPT !.onHand = e.onHand, !.reserved = e.reserved,
                                  !.status = e.status]

Create(i, e) ==
    /\ stock[i].version = 0
    /\ e.reserved <= e.onHand
    /\ Rewrite(i, Entered(i, e))
    /\ ledger' = [ledger EXCEPT ![i] = @ + e.onHand]
    /\ UNCHANGED <<snapshot, hold, shipped, clock>>

\* PATCH /inventory/{id}: quantities and status, the holds protected only
\* when a quantity changes.
LegacyUpdate(i, e) ==
    /\ Visible(i)
    /\ e.reserved <= e.onHand
    /\ \/ e.onHand = stock[i].onHand /\ e.reserved = stock[i].reserved
       \/ KeepsHolds(i, e.onHand, e.reserved)
    /\ Rewrite(i, Entered(i, e))
    /\ ledger' = [ledger EXCEPT ![i] = @ + Delta(i, e.onHand)]
    /\ UNCHANGED <<snapshot, hold, shipped, clock>>

\* The row after a new count: its status follows from what is available.
Counted(i, onHand) == [stock[i] EXCEPT !.onHand = onHand,
    !.status = IF onHand = stock[i].reserved THEN "out_of_stock" ELSE "active"]

\* POST /inventory/{id}/adjust and /reconcile: both set a new on-hand count.
ApplyQuantity(i, onHand) ==
    /\ Visible(i)
    /\ stock[i].status # "discontinued"
    /\ onHand >= stock[i].reserved
    /\ KeepsHolds(i, onHand, stock[i].reserved)
    /\ Rewrite(i, Counted(i, onHand))
    /\ ledger' = [ledger EXCEPT ![i] = @ + Delta(i, onHand)]
    /\ UNCHANGED <<snapshot, hold, shipped, clock>>

Archived(i) == [stock[i] EXCEPT !.deleted = TRUE, !.status = "discontinued"]

Archive(i) ==
    /\ Visible(i)
    /\ Rewrite(i, Archived(i))
    /\ UNCHANGED <<ledger, snapshot, hold, shipped, clock>>

-----------------------------------------------------------------------------

\* The checkout reads its lines one by one without locking them, and freezes
\* the version of each; the order made from it copies these versions.
CheckoutLine(o, i) ==
    /\ i \in Lines(o)
    /\ snapshot[o][i] = 0
    /\ Visible(i)
    /\ stock[i].status = "active"
    /\ Available(i) >= Demand[o][i]
    /\ snapshot' = [snapshot EXCEPT ![o][i] = stock[i].version]
    /\ UNCHANGED <<stock, ledger, hold, shipped, clock>>

\* The other reservations of an order when it is reserved anew: an overdue
\* one still active is expired by the same request.
KeptActive(r) == hold[r]
Expired(r) ==
    IF hold[r].status = "active" THEN [hold[r] EXCEPT !.status = "expired"]
                                 ELSE hold[r]

\* An active reservation of the order, unexpired when the request started, is a
\* conflict; the units still held at that time are out of reach.
Reserve(o, a, now, expires) ==
    /\ hold[<<o, a>>].status = "none"
    /\ \A b \in Attempts : ~LiveAt(<<o, b>>, now)
    /\ expires > now
    /\ Lines(o) # {}
    /\ \A i \in Lines(o) : /\ Visible(i)
                           /\ stock[i].status = "active"
                           /\ stock[i].version = snapshot[o][i]
                           /\ Available(i) - HeldAt(i, now) >= Demand[o][i]
    /\ hold' = [r \in Reservations |->
            IF r = <<o, a>> THEN [status |-> "active", expires |-> expires]
            ELSE IF r[1] = o THEN Expired(r) ELSE hold[r]]
    /\ UNCHANGED <<stock, ledger, snapshot, shipped, clock>>

Finish(r, status) ==
    /\ hold' = [hold EXCEPT ![r].status = status]
    /\ UNCHANGED <<stock, ledger, snapshot, shipped, clock>>

Release(r, now) == LiveAt(r, now) /\ Finish(r, "released")
Consume(r, now) == LiveAt(r, now) /\ Finish(r, "consumed")

\* Reading an overdue reservation materialises its expiry.
Expire(r) == Overdue(r) /\ Finish(r, "expired")

\* A shipment is dispatched once, from a consumed reservation.
DispatchableWhileActive(r) ==
    hold[r].status \in {"active", "consumed"} /\ r[1] \notin shipped
Dispatchable(r) == hold[r].status = "consumed" /\ r[1] \notin shipped

\* Dispatch of the order's shipment takes the lines out of stock.  It looks at
\* quantity_available only: holds of other orders are not consulted, and the
\* status of an emptied item stays "active".
Dispatch(r) ==
    LET o == r[1] IN
    /\ Dispatchable(r)
    /\ \A i \in Lines(o) : /\ Visible(i)
                           /\ stock[i].status = "active"
                           /\ Sufficient(i, Demand[o][i])
                           /\ stock[i].version < MaxVersion
    /\ stock' = [i \in Items |->
            IF i \in Lines(o)
            THEN [stock[i] EXCEPT !.onHand = @ - Demand[o][i],
                                  !.version = @ + 1]
            ELSE stock[i]]
    /\ ledger' = [i \in Items |-> ledger[i] - Demand[o][i]]
    /\ shipped' = shipped \cup {o}
    /\ UNCHANGED <<snapshot, hold, clock>>

Tick ==
    /\ clock < MaxClock
    /\ clock' = clock + 1
    /\ UNCHANGED <<stock, ledger, snapshot, hold, shipped>>

-----------------------------------------------------------------------------

Operator ==
    \E i \in Items :
        \/ Archive(i)
        \/ \E e \in Entries :
              Create(i, e) \/ LegacyUpdate(i, e) \/ ApplyQuantity(i, e.onHand)

Customer ==
    \/ \E o \in Orders, i \in Items : CheckoutLine(o, i)
    \/ \E o \in Orders, a \in Attempts, now \in Readings, t \in 1..MaxTtl :
          Reserve(o, a, now, now + t)
    \/ \E r \in Reservations :
          \/ \E now \in Readings : Release(r, now) \/ Consume(r, now)
          \/ Expire(r)
          \/ Dispatch(r)

Next == Operator \/ Customer \/ Tick

Spec == Init /\ [][Next]_vars

-----------------------------------------------------------------------------
(* Properties *)

\* quantity_on_hand never falls below the legacy quantity_reserved column,
\* whatever mix of creations, patches, adjustments and dispatches ran.
AvailableNonNegative == \A i \in Items : Available(i) >= 0

\* The movement ledger accounts for every unit on the shelf: the recorded
\* deltas of an item add up to its quantity_on_hand.
LedgerExact == \A i \in Items : ledger[i] = stock[i].onHand

\* At most one reservation of an order is in status active, the overdue ones
\* not yet materialised as expired included.
OneActivePerOrder ==
    \A o \in Orders : \A a, b \in Attempts :
        hold[<<o, a>>].status = "active" /\ hold[<<o, b>>].status = "active"
            => a = b

\* Stock leaves only for orders that hold a consumed reservation.
ShippedWasConsumed ==
    \A o \in shipped : \E a \in Attempts : hold[<<o, a>>].status = "consumed"

\* The unexpired holds on an item fit into what is available of it.
Covered(i) == Held(i) <= Available(i)
HoldsCovered == \A i \in Items : Covered(i)

\* Creating, patching, adjusting, archiving, reserving, releasing, consuming,
\* expiring and the passing of time never push the holds of an item above its
\* availability: only the dispatch of a shipment can.
OnlyDispatchUncovers ==
    [][shipped' = shipped => \A i \in Items : Covered(i) => Covered(i)']_vars
=============================================================================

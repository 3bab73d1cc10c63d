----------------------------- MODULE Fulfilment -----------------------------
(***************************************************************************)
(* What becomes of a paid order: units of the item are reserved for it,    *)
(* the reservation is consumed, a shipment is made of it, packed and sent. *)
(* Order, reservation, shipment and stock are rows of four services; a     *)
(* request reads some, may ask the carrier for something, and then writes. *)
(* Every order is for one unit of one item; Stock has the quantities.      *)
(***************************************************************************)
EXTENDS Integers, FiniteSets

CONSTANTS Purchases,   \* the orders
          Bookings,    \* the reservations they may go through: pairs of an order and a number
          Handlings,   \* concurrent requests
          InStock,     \* units on the shelf when the orders were checked out
          MaxRestock   \* bound: units the store adds later

ASSUME FulfilmentAssumption ==
    InStock \in Nat /\ MaxRestock \in Nat /\ Bookings \subseteq Purchases \X Nat

VARIABLES
    purchase,  \* orders: status, and whether its payment is captured
    booking,   \* inventory_reservations; an active one past its expires_at is overdue
    parcel,    \* shipments: the one an order may ever have
    shelf,     \* the inventory item: units and version
    taken,     \* inventory_movements: the units dispatched for each order
    carrier,   \* what the carrier was told about each shipment
    handling   \* the request each worker serves

fulfilmentVars == <<purchase, booking, parcel, shelf, taken, carrier, handling>>

BookingStatus == {"none", "active", "overdue", "consumed", "released", "expired"}
ParcelStatus == {"none", "ready_for_fulfillment", "packed", "shipped", "delivered", "cancelled"}
BookingsOf(o) == {b \in Bookings : b[1] = o}

FulfilmentTypeOK ==
    /\ purchase \in [Purchases -> [status : {"pending", "confirmed", "cancelled"}, paid : BOOLEAN]]
    /\ booking \in [Bookings -> BookingStatus]
    /\ parcel \in [Purchases -> [status : ParcelStatus, version : Nat]]
    /\ shelf \in [onHand : Nat, version : Nat]
    /\ taken \in [Purchases -> Nat]
    /\ carrier \in [Purchases -> SUBSET {"label", "void", "manifest"}]

NotHandling == [op |-> "none"]
NoParcel == [status |-> "none", version |-> 0]

\* The checkout of every order has frozen the first version of the item.
FulfilmentInit ==
    /\ purchase = [o \in Purchases |-> [status |-> "pending", paid |-> FALSE]]
    /\ booking = [b \in Bookings |-> "none"]
    /\ parcel = [o \in Purchases |-> NoParcel]
    /\ shelf = [onHand |-> InStock, version |-> 1]
    /\ taken = [o \in Purchases |-> 0]
    /\ carrier = [o \in Purchases |-> {}]
    /\ handling = [h \in Handlings |-> NotHandling]

Handle(h, what) == handling[h] = NotHandling /\ handling' = [handling EXCEPT ![h] = what]
Handled(h) == handling' = [handling EXCEPT ![h] = NotHandling]
Serving(h, op) == handling[h].op = op

\* A request that holds the lock of the item's row.
ItemLocked == \E h \in Handlings : Serving(h, "taking")

\* Refused or rolled back.  What the carrier was told stays.
AbandonHandling(h) ==
    /\ handling[h] # NotHandling /\ Handled(h)
    /\ UNCHANGED <<purchase, booking, parcel, shelf, taken, carrier>>

-----------------------------------------------------------------------------
(* Orders, and the shelf                                                     *)

\* A capture confirms the order it pays; Payments shows how.
Pay(o) ==
    /\ purchase[o].status = "pending"
    /\ purchase' = [purchase EXCEPT ![o] = [status |-> "confirmed", paid |-> TRUE]]
    /\ UNCHANGED <<booking, parcel, shelf, taken, carrier, handling>>

\* The customer may confirm an order himself; a confirmed order takes no payment.
ConfirmPurchase(o) ==
    /\ purchase[o].status = "pending"
    /\ purchase' = [purchase EXCEPT ![o].status = "confirmed"]
    /\ UNCHANGED <<booking, parcel, shelf, taken, carrier, handling>>

\* Whatever is reserved or sent for it.
CancelPurchase(o) ==
    /\ purchase[o].status = "confirmed"
    /\ purchase' = [purchase EXCEPT ![o].status = "cancelled"]
    /\ UNCHANGED <<booking, parcel, shelf, taken, carrier, handling>>

Restock ==
    /\ ~ItemLocked /\ shelf.onHand < InStock + MaxRestock
    /\ shelf' = [onHand |-> shelf.onHand + 1, version |-> shelf.version + 1]
    /\ UNCHANGED <<purchase, booking, parcel, taken, carrier, handling>>

-----------------------------------------------------------------------------
(* Reservations                                                              *)

ActiveRow(b) == booking[b] \in {"active", "overdue"}
UnitsHeld == Cardinality({b \in Bookings : booking[b] = "active"})

JustConfirmed(o) == purchase[o].status = "confirmed"
PaidAndConfirmed(o) == purchase[o].paid /\ purchase[o].status = "confirmed"

BeginBook(h, b) ==
    /\ booking[b] = "none" /\ PaidAndConfirmed(b[1])
    /\ \A c \in BookingsOf(b[1]) : booking[c] # "active"
    /\ Handle(h, [op |-> "book", booking |-> b,
                  lapsed |-> {c \in BookingsOf(b[1]) : booking[c] = "overdue"}])
    /\ UNCHANGED <<purchase, booking, parcel, shelf, taken, carrier>>

\* Under the lock of the item: its version is the one frozen at checkout.  The
\* index allows one active reservation of an order; the overdue one this request
\* has found expires with it, unless another request was faster.
Book(h) ==
    LET b == handling[h].booking
        lapsed == handling[h].lapsed
    IN
    /\ Serving(h, "book") /\ ~ItemLocked /\ booking[b] = "none"
    /\ shelf.version = 1 /\ shelf.onHand - UnitsHeld >= 1
    /\ \A c \in lapsed : ActiveRow(c)
    /\ \A c \in BookingsOf(b[1]) : ActiveRow(c) => c \in lapsed
    /\ booking' = [c \in Bookings |->
         IF c = b THEN "active" ELSE IF c \in lapsed THEN "expired" ELSE booking[c]]
    /\ Handled(h)
    /\ UNCHANGED <<purchase, parcel, shelf, taken, carrier>>

Lapse(b) ==
    /\ booking[b] = "active" /\ booking' = [booking EXCEPT ![b] = "overdue"]
    /\ UNCHANGED <<purchase, parcel, shelf, taken, carrier, handling>>

BeginFinishBooking(h, b, status) ==
    /\ booking[b] = "active"
    /\ Handle(h, [op |-> "finish", booking |-> b, status |-> status])
    /\ UNCHANGED <<purchase, booking, parcel, shelf, taken, carrier>>

\* Its version, which is to say its status, is the one read; the time of its
\* expiry may have passed since.
FinishBooking(h) ==
    /\ Serving(h, "finish") /\ ActiveRow(handling[h].booking)
    /\ booking' = [booking EXCEPT ![handling[h].booking] = handling[h].status]
    /\ Handled(h)
    /\ UNCHANGED <<purchase, parcel, shelf, taken, carrier>>

\* Reading an overdue reservation.
ExpireBooking(b) ==
    /\ booking[b] = "overdue"
    /\ booking' = [booking EXCEPT ![b] = "expired"]
    /\ UNCHANGED <<purchase, parcel, shelf, taken, carrier, handling>>

-----------------------------------------------------------------------------
(* Shipments                                                                 *)

\* An order that had a shipment, cancelled or not, gets no other.
BeginShipment(h, b) ==
    /\ PaidAndConfirmed(b[1]) /\ booking[b] = "consumed" /\ parcel[b[1]] = NoParcel
    /\ Handle(h, [op |-> "create", order |-> b[1]])
    /\ UNCHANGED <<purchase, booking, parcel, shelf, taken, carrier>>

\* Created and made ready: two versions of the row.
CreateShipment(h) ==
    /\ Serving(h, "create") /\ parcel[handling[h].order] = NoParcel
    /\ parcel' = [parcel EXCEPT ![handling[h].order] =
         [status |-> "ready_for_fulfillment", version |-> 2]]
    /\ Handled(h)
    /\ UNCHANGED <<purchase, booking, shelf, taken, carrier>>

\* The carrier does what it is asked at once, whether the request commits or not.
Tell(o, what) == carrier' = [carrier EXCEPT ![o] = @ \cup {what}]

BeginPack(h, o) ==
    /\ parcel[o].status = "ready_for_fulfillment"
    /\ Handle(h, [op |-> "pack", order |-> o, version |-> parcel[o].version])
    /\ Tell(o, "label")
    /\ UNCHANGED <<purchase, booking, parcel, shelf, taken>>

BeginCancelShipment(h, o) ==
    /\ parcel[o].status = "packed"
    /\ Handle(h, [op |-> "cancel", order |-> o, version |-> parcel[o].version])
    /\ Tell(o, "void")
    /\ UNCHANGED <<purchase, booking, parcel, shelf, taken>>

BeginDeliver(h, o) ==
    /\ parcel[o].status = "shipped"
    /\ Handle(h, [op |-> "deliver", order |-> o, version |-> parcel[o].version])
    /\ UNCHANGED <<purchase, booking, parcel, shelf, taken, carrier>>

\* A dispatch reads the shipment and its reservation first.
BeginDispatch(h, o) ==
    /\ parcel[o].status = "packed" /\ \E b \in BookingsOf(o) : booking[b] = "consumed"
    /\ Handle(h, [op |-> "ship", order |-> o, version |-> parcel[o].version])
    /\ UNCHANGED <<purchase, booking, parcel, shelf, taken, carrier>>

\* InventoryService.consume_reservation locks the row until the request ends;
\* then the carrier gets the manifest.
TakeUnits(h) ==
    /\ Serving(h, "ship") /\ ~ItemLocked /\ shelf.onHand >= 1
    /\ handling' = [handling EXCEPT ![h].op = "taking"]
    /\ Tell(handling[h].order, "manifest")
    /\ UNCHANGED <<purchase, booking, parcel, shelf, taken>>

\* The shipment is written last, if it has the version the request has read.
StillThere(h) == parcel[handling[h].order].status # "cancelled"
StillAsRead(h) == parcel[handling[h].order].version = handling[h].version

Advance(h, status, versions) ==
    /\ StillAsRead(h)
    /\ parcel' = [parcel EXCEPT ![handling[h].order] =
         [status |-> status, version |-> @.version + versions]]
    /\ Handled(h)

Pack(h) ==
    /\ Serving(h, "pack") /\ Advance(h, "packed", 1)
    /\ UNCHANGED <<purchase, booking, shelf, taken, carrier>>

CancelShipment(h) ==
    /\ Serving(h, "cancel") /\ Advance(h, "cancelled", 1)
    /\ UNCHANGED <<purchase, booking, shelf, taken, carrier>>

\* Out for delivery and delivered in one transaction.
Deliver(h) ==
    /\ Serving(h, "deliver") /\ Advance(h, "delivered", 2)
    /\ UNCHANGED <<purchase, booking, shelf, taken, carrier>>

Ship(h) ==
    /\ Serving(h, "taking") /\ Advance(h, "shipped", 1)
    /\ shelf' = [onHand |-> shelf.onHand - 1, version |-> shelf.version + 1]
    /\ taken' = [taken EXCEPT ![handling[h].order] = @ + 1]
    /\ UNCHANGED <<purchase, booking, carrier>>

FulfilmentNext ==
    \/ \E o \in Purchases : Pay(o) \/ ConfirmPurchase(o) \/ CancelPurchase(o)
    \/ Restock
    \/ \E b \in Bookings : Lapse(b) \/ ExpireBooking(b)
    \/ \E h \in Handlings :
         \/ \E b \in Bookings :
              \/ BeginBook(h, b) \/ BeginShipment(h, b)
              \/ \E s \in {"consumed", "released"} : BeginFinishBooking(h, b, s)
         \/ \E o \in Purchases :
              BeginPack(h, o) \/ BeginCancelShipment(h, o) \/ BeginDeliver(h, o) \/ BeginDispatch(h, o)
         \/ Book(h) \/ FinishBooking(h) \/ CreateShipment(h) \/ Pack(h) \/ CancelShipment(h)
         \/ Deliver(h) \/ TakeUnits(h) \/ Ship(h) \/ AbandonHandling(h)

FulfilmentSpec == FulfilmentInit /\ [][FulfilmentNext]_fulfilmentVars

-----------------------------------------------------------------------------
(* The units of an order leave the shelf once if its shipment has left, and
   never otherwise, however many requests dispatch, cancel and restock: two
   dispatches of one shipment take its units once. *)
LeavesOnce ==
    \A o \in Purchases :
        taken[o] = IF parcel[o].status \in {"shipped", "delivered"} THEN 1 ELSE 0

(* A shipment has a captured payment and a consumed reservation behind it, and
   the carrier has the label of every packed one and the manifest of every one
   that has left, although payment, reservation, shipment and carrier are told
   in different requests and some of them roll back. *)
ShipmentBacked ==
    \A o \in Purchases :
        /\ parcel[o] # NoParcel =>
             purchase[o].paid /\ \E b \in BookingsOf(o) : booking[b] = "consumed"
        /\ parcel[o].status \in {"packed", "shipped", "delivered"} => "label" \in carrier[o]
        /\ parcel[o].status \in {"shipped", "delivered"} => "manifest" \in carrier[o]
=============================================================================

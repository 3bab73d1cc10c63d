----------------------------- MODULE Stock_proofs -----------------------------
(***************************************************************************)
(* Proofs about Stock for every set of items, orders and attempts, every   *)
(* demand and every bound.  The hard part is counting: HeldUnits is a set  *)
(* of (reservation, unit) pairs, so "no more is held" is set inclusion and *)
(* "one more hold of n units" is the union with n more pairs.              *)
(* The second part proves that every commit of the transactions of StockTx *)
(* is one such step, the third part is about Fulfilment.                   *)
(***************************************************************************)
EXTENDS StockTx, Fulfilment, FiniteSetTheorems, TLAPS

USE BoundsAssumption, DemandAssumption, EntriesAssumption

\* The steps that take a reservation out of status active.
FinishesHold(r) ==
    \/ \E now \in Readings : Release(r, now) \/ Consume(r, now)
    \/ Expire(r)

-----------------------------------------------------------------------------
(* Type correctness *)

\* Rewriting a row with a row of the same type keeps the table's type.
LEMMA RewriteType ==
    ASSUME TypeOK, NEW i \in Items, NEW row \in Row, Rewrite(i, row)
    PROVE  stock' \in [Items -> Row]
<1>1. [row EXCEPT !.version = stock[i].version + 1] \in Row
  BY DEF TypeOK, Row
<1> QED BY <1>1 DEF Rewrite, TypeOK

\* Archiving keeps the quantities of a row.
LEMMA ArchivedRow ==
    ASSUME TypeOK, NEW i \in Items
    PROVE  /\ Archived(i) \in Row
           /\ Archived(i).onHand = stock[i].onHand
           /\ Archived(i).reserved = stock[i].reserved
<1>1. stock[i] \in Row /\ "discontinued" \in ItemStatus
  BY DEF TypeOK, ItemStatus
<1> QED BY <1>1 DEF Archived, Row

\* The rows an operator's request writes, and what they hold.
LEMMA OperatorRows ==
    ASSUME TypeOK, NEW i \in Items, NEW e \in Entries
    PROVE  /\ Entered(i, e) \in Row
           /\ Entered(i, e).onHand = e.onHand
           /\ Entered(i, e).reserved = e.reserved
           /\ Counted(i, e.onHand) \in Row
           /\ Counted(i, e.onHand).onHand = e.onHand
           /\ Counted(i, e.onHand).reserved = stock[i].reserved
           /\ e.onHand \in Nat /\ e.reserved \in Nat
           /\ stock[i].onHand \in Nat /\ stock[i].reserved \in Nat
           /\ stock[i].version \in Nat
<1>1. stock[i] \in Row /\ e \in Entry
  BY DEF TypeOK
<1>2. /\ e.onHand \in Nat /\ e.reserved \in Nat /\ e.status \in ItemStatus
      /\ stock[i].onHand \in Nat /\ stock[i].reserved \in Nat
      /\ stock[i].version \in Nat
  BY <1>1 DEF Entry, Row
<1>3. \A s \in {"active", "out_of_stock", "discontinued"} : s \in ItemStatus
  BY DEF ItemStatus
<1>4. /\ Entered(i, e) \in Row
      /\ Entered(i, e).onHand = e.onHand /\ Entered(i, e).reserved = e.reserved
  BY <1>1, <1>2 DEF Entered, Row
<1>5. \A s \in ItemStatus :
        LET row == [stock[i] EXCEPT !.onHand = e.onHand, !.status = s]
        IN  row \in Row /\ row.onHand = e.onHand /\ row.reserved = stock[i].reserved
  BY <1>1, <1>2 DEF Row
<1>6. /\ Counted(i, e.onHand) \in Row
      /\ Counted(i, e.onHand).onHand = e.onHand
      /\ Counted(i, e.onHand).reserved = stock[i].reserved
  <2> DEFINE s == IF e.onHand = stock[i].reserved THEN "out_of_stock" ELSE "active"
  <2>1. s \in ItemStatus
    BY <1>3
  <2>2. Counted(i, e.onHand) = [stock[i] EXCEPT !.onHand = e.onHand, !.status = s]
    BY DEF Counted
  <2> HIDE DEF s
  <2> QED BY <1>5, <2>1, <2>2
<1> QED BY <1>2, <1>4, <1>6

\* Dispatching n units of what is available leaves a row.
LEMMA DispatchedRow ==
    ASSUME NEW row \in Row, NEW n \in Nat, row.onHand - row.reserved >= n
    PROVE  [row EXCEPT !.onHand = @ - n, !.version = @ + 1] \in Row
<1>1. row.onHand \in Nat /\ row.reserved \in Nat /\ row.version \in Nat
  BY DEF Row
<1>2. row.onHand - n \in Nat /\ row.version + 1 \in Nat
  BY <1>1
<1>3. \A k, v \in Nat : [row EXCEPT !.onHand = k, !.version = v] \in Row
  BY DEF Row
<1> QED BY <1>2, <1>3

\* No step spoils a type.
LEMMA TypeStep ==
    ASSUME TypeOK, [Next]_vars
    PROVE  TypeOK'
<1>1. ASSUME NEW i \in Items, NEW e \in Entries,
             Create(i, e) \/ LegacyUpdate(i, e) \/ ApplyQuantity(i, e.onHand)
      PROVE  TypeOK'
  <2>1. stock' \in [Items -> Row]
    BY <1>1, OperatorRows, RewriteType DEF Create, LegacyUpdate, ApplyQuantity
  <2>2. ledger' \in [Items -> Int]
    BY <1>1, OperatorRows
       DEF Create, LegacyUpdate, ApplyQuantity, Delta, TypeOK
  <2> QED BY <1>1, <2>1, <2>2
          DEF TypeOK, Create, LegacyUpdate, ApplyQuantity
<1>2. ASSUME NEW i \in Items, Archive(i) PROVE TypeOK'
  <2>1. stock' \in [Items -> Row]
    BY <1>2, ArchivedRow, RewriteType DEF Archive
  <2> QED BY <1>2, <2>1 DEF TypeOK, Archive
<1>5. ASSUME NEW o \in Orders, NEW i \in Items, CheckoutLine(o, i) PROVE TypeOK'
  BY <1>5 DEF TypeOK, CheckoutLine, Row
<1>6. ASSUME NEW o \in Orders, NEW a \in Attempts, NEW now \in Readings,
             NEW t \in 1..MaxTtl, Reserve(o, a, now, now + t)
      PROVE  TypeOK'
  <2>1. hold' \in [Reservations -> Hold]
    <3>1. now + t \in Nat /\ "active" \in HoldStatus /\ "expired" \in HoldStatus
      BY DEF TypeOK, HoldStatus, Readings
    <3>2. \A r \in Reservations : hold[r] \in Hold /\ Expired(r) \in Hold
      BY <3>1 DEF TypeOK, Expired, Hold
    <3>3. [status |-> "active", expires |-> now + t] \in Hold
      BY <3>1 DEF Hold
    <3> QED BY <1>6, <3>2, <3>3 DEF Reserve
  <2> QED BY <1>6, <2>1 DEF TypeOK, Reserve
<1>7. ASSUME NEW r \in Reservations, NEW s \in HoldStatus, Finish(r, s)
      PROVE  TypeOK'
  BY <1>7 DEF TypeOK, Finish, Hold
<1>8. ASSUME NEW r \in Reservations, FinishesHold(r)
      PROVE  TypeOK'
  BY <1>7, <1>8 DEF FinishesHold, Release, Consume, Expire, HoldStatus
<1>9. ASSUME NEW r \in Reservations, Dispatch(r) PROVE TypeOK'
  <2> DEFINE o == r[1]
  <2>0. o \in Orders
    BY DEF Reservations
  <2>1. ASSUME NEW i \in Lines(o)
        PROVE  [stock[i] EXCEPT !.onHand = @ - Demand[o][i],
                                !.version = @ + 1] \in Row
    <3>1. i \in Items /\ Demand[o][i] \in Nat /\ stock[i] \in Row
      BY <2>0, <2>1 DEF Lines, TypeOK
    <3>2. stock[i].onHand - stock[i].reserved >= Demand[o][i]
      BY <1>9, <2>1 DEF Dispatch, Sufficient, Available
    <3> QED BY <3>1, <3>2, DispatchedRow
  <2>2. stock' \in [Items -> Row]
    BY <1>9, <2>1 DEF Dispatch, TypeOK
  <2>3. ledger' \in [Items -> Int]
    <3>1. \A i \in Items : ledger[i] \in Int /\ Demand[o][i] \in Int
      BY <2>0 DEF TypeOK
    <3>2. ledger' = [i \in Items |-> ledger[i] - Demand[o][i]]
      BY <1>9 DEF Dispatch
    <3> QED BY <3>1, <3>2
  <2> QED BY <1>9, <2>0, <2>2, <2>3 DEF Dispatch, TypeOK
<1>10. CASE Tick
  BY <1>10 DEF Tick, TypeOK
<1>11. CASE UNCHANGED vars
  BY <1>11 DEF vars, TypeOK
<1> QED
  BY <1>1, <1>2, <1>5, <1>6, <1>8, <1>9, <1>10, <1>11
     DEF Next, Operator, Customer, FinishesHold

\* Every stored quantity, version, status and timestamp keeps its type, under
\* every operation of the two services: in particular no dispatch makes
\* quantity_on_hand negative.
THEOREM TypeCorrect == Spec => []TypeOK
<1>1. Init => TypeOK
  BY DEF Init, TypeOK, Row, Hold, ItemStatus, HoldStatus, Reservations
<1>2. TypeOK /\ [Next]_vars => TypeOK'
  BY TypeStep
<1> QED BY <1>1, <1>2, PTL DEF Spec

-----------------------------------------------------------------------------
(* The safety invariants *)

\* Nothing is on the shelf or reserved before the inventory row exists.
UncreatedEmpty ==
    \A i \in Items : stock[i].version = 0 =>
        stock[i].onHand = 0 /\ stock[i].reserved = 0

IInv == /\ TypeOK
        /\ UncreatedEmpty
        /\ AvailableNonNegative
        /\ LedgerExact
        /\ OneActivePerOrder
        /\ ShippedWasConsumed

\* The parts of IInv that speak of quantities.
Quantities == UncreatedEmpty /\ AvailableNonNegative /\ LedgerExact

\* The parts of IInv that speak of reservations.
Lifecycle == OneActivePerOrder /\ ShippedWasConsumed

\* Rewriting one row keeps the quantities consistent when the new row does not
\* reserve more than it has and the ledger moves by the change on hand.
LEMMA RewriteQuantities ==
    ASSUME TypeOK, Quantities, NEW i \in Items, NEW row \in Row,
           Rewrite(i, row),
           row.onHand >= row.reserved,
           ledger' = [ledger EXCEPT ![i] = @ + (row.onHand - stock[i].onHand)]
    PROVE  Quantities'
<1>1. \A j \in Items : stock'[j] = IF j = i
                THEN [row EXCEPT !.version = stock[i].version + 1] ELSE stock[j]
  BY DEF Rewrite, TypeOK
<1>2. /\ stock'[i].onHand = row.onHand
      /\ stock'[i].reserved = row.reserved
      /\ stock'[i].version = stock[i].version + 1
  BY <1>1 DEF Row
<1>3. /\ stock[i].version \in Nat /\ stock[i].onHand \in Nat
      /\ row.onHand \in Nat /\ row.reserved \in Nat
  BY DEF TypeOK, Row
<1>4. UncreatedEmpty'
  BY <1>1, <1>2, <1>3 DEF UncreatedEmpty, Quantities
<1>5. AvailableNonNegative'
  BY <1>1, <1>2, <1>3 DEF AvailableNonNegative, Available, Quantities
<1>6. LedgerExact'
  BY <1>1, <1>2, <1>3 DEF LedgerExact, Quantities, TypeOK
<1> QED BY <1>4, <1>5, <1>6 DEF Quantities

\* Archiving keeps the quantities consistent.
LEMMA ArchiveQuantities ==
    ASSUME TypeOK, Quantities, NEW i \in Items, Archive(i)
    PROVE  Quantities'
<1>1. stock[i] \in Row /\ Archived(i) \in Row
  BY ArchivedRow DEF TypeOK
<1>2. stock[i].onHand >= stock[i].reserved /\ ledger \in [Items -> Int]
  BY <1>1 DEF Quantities, AvailableNonNegative, Available, TypeOK, Row
<1>3. ledger' = [ledger EXCEPT ![i] = @ + (Archived(i).onHand - stock[i].onHand)]
  BY <1>1, <1>2, ArchivedRow DEF Archive, Row
<1> QED BY <1>1, <1>2, <1>3, ArchivedRow, RewriteQuantities DEF Archive

\* Operators' counts and patches keep the quantities consistent.
LEMMA OperatorQuantities ==
    ASSUME TypeOK, Quantities, NEW i \in Items, NEW e \in Entries,
           Create(i, e) \/ LegacyUpdate(i, e) \/ ApplyQuantity(i, e.onHand)
    PROVE  Quantities'
<1>2. CASE ApplyQuantity(i, e.onHand)
  BY <1>2, OperatorRows, RewriteQuantities DEF ApplyQuantity, Delta
<1>3. CASE Create(i, e)
  <2>1. stock[i].onHand = 0
    BY <1>3 DEF Create, Quantities, UncreatedEmpty
  <2>2. e.onHand - stock[i].onHand = e.onHand
    BY <2>1, OperatorRows
  <2> QED BY <1>3, <2>2, OperatorRows, RewriteQuantities DEF Create
<1>4. CASE LegacyUpdate(i, e)
  BY <1>4, OperatorRows, RewriteQuantities DEF LegacyUpdate, Delta
<1> QED BY <1>2, <1>3, <1>4

\* Dispatch keeps the quantities consistent.
LEMMA DispatchQuantities ==
    ASSUME TypeOK, Quantities, NEW r \in Reservations, Dispatch(r)
    PROVE  Quantities'
<1> DEFINE o == r[1]
<1>1. o \in Orders
  BY DEF Reservations
<1>2. ASSUME NEW i \in Items
      PROVE  /\ stock'[i].onHand = stock[i].onHand - Demand[o][i]
             /\ stock'[i].reserved = stock[i].reserved
             /\ stock[i].onHand - stock[i].reserved >= Demand[o][i]
             /\ ledger'[i] = ledger[i] - Demand[o][i]
             /\ i \notin Lines(o) => stock'[i] = stock[i]
             /\ i \in Lines(o) => stock'[i].version = stock[i].version + 1
  <2>1. stock[i] \in Row /\ Demand[o][i] \in Nat /\ ledger[i] \in Int
    BY <1>1 DEF TypeOK
  <2>2. ledger'[i] = ledger[i] - Demand[o][i]
    BY DEF Dispatch
  <2>3. CASE i \in Lines(o)
    <3>1. stock'[i] = [stock[i] EXCEPT !.onHand = @ - Demand[o][i],
                                       !.version = @ + 1]
      BY <2>3 DEF Dispatch
    <3>2. stock[i].onHand - stock[i].reserved >= Demand[o][i]
      BY <2>3 DEF Dispatch, Sufficient, Available
    <3> QED BY <2>1, <2>2, <2>3, <3>1, <3>2 DEF Row
  <2>4. CASE i \notin Lines(o)
    <3>1. stock'[i] = stock[i]
      BY <2>4 DEF Dispatch
    <3>2. Demand[o][i] = 0
      BY <1>1, <2>4 DEF Lines
    <3>3. stock[i].onHand \in Nat /\ stock[i].reserved \in Nat
      BY <2>1 DEF Row
    <3>4. stock[i].onHand - stock[i].reserved >= 0
      BY DEF Quantities, AvailableNonNegative, Available
    <3> QED BY <2>1, <2>2, <2>4, <3>1, <3>2, <3>3, <3>4
  <2> QED BY <2>3, <2>4
<1>3. \A i \in Items : /\ stock[i].onHand \in Nat /\ stock[i].reserved \in Nat
                       /\ stock[i].version \in Nat /\ Demand[o][i] \in Nat
  BY <1>1 DEF TypeOK, Row
<1>4. UncreatedEmpty'
  BY <1>2, <1>3 DEF UncreatedEmpty, Quantities
<1>5. AvailableNonNegative'
  BY <1>2, <1>3 DEF AvailableNonNegative, Available, Quantities
<1>6. LedgerExact'
  BY <1>2, <1>3 DEF LedgerExact, Quantities
<1> QED BY <1>4, <1>5, <1>6 DEF Quantities

\* Every step keeps the quantities consistent.
LEMMA QuantitiesStep ==
    ASSUME TypeOK, Quantities, [Next]_vars
    PROVE  Quantities'
<1>1. CASE Operator
  <2>1. ASSUME NEW i \in Items, Archive(i) PROVE Quantities'
    BY <2>1, ArchiveQuantities
  <2> QED BY <1>1, <2>1, OperatorQuantities DEF Operator
<1>2. CASE UNCHANGED <<stock, ledger>>
  BY <1>2 DEF Quantities, UncreatedEmpty, AvailableNonNegative, Available,
              LedgerExact
<1>3. CASE Customer
  <2>1. CASE \E r \in Reservations : Dispatch(r)
    BY <2>1, DispatchQuantities
  <2>2. CASE UNCHANGED <<stock, ledger>>
    BY <1>2, <2>2
  <2> QED BY <1>3, <2>1, <2>2
       DEF Customer, CheckoutLine, Reserve, Release, Consume, Expire, Finish
<1>4. CASE Tick \/ UNCHANGED vars
  BY <1>2, <1>4 DEF Tick, vars
<1> QED BY <1>1, <1>3, <1>4 DEF Next

\* Every step keeps at most one active reservation per order, and consumed
\* reservations stay consumed.
LEMMA LifecycleStep ==
    ASSUME TypeOK, Lifecycle, [Next]_vars
    PROVE  Lifecycle'
<1>1. CASE UNCHANGED <<hold, shipped>>
  BY <1>1 DEF Lifecycle, OneActivePerOrder, ShippedWasConsumed
<1>2. ASSUME NEW r \in Reservations, NEW s \in HoldStatus \ {"active"},
             hold[r].status = "active", Finish(r, s)
      PROVE  Lifecycle'
  <2>1. \A q \in Reservations : hold'[q].status =
            IF q = r THEN s ELSE hold[q].status
    BY <1>2 DEF Finish, TypeOK, Hold
  <2>2. \A o \in Orders, a \in Attempts : <<o, a>> \in Reservations
    BY DEF Reservations
  <2>3. OneActivePerOrder'
    BY <2>1, <2>2, <1>2 DEF Lifecycle, OneActivePerOrder
  <2>4. ShippedWasConsumed'
    BY <2>1, <2>2, <1>2 DEF Lifecycle, ShippedWasConsumed, Finish, TypeOK
  <2> QED BY <2>3, <2>4 DEF Lifecycle
<1>3. ASSUME NEW r \in Reservations, FinishesHold(r)
      PROVE  Lifecycle'
  BY <1>2, <1>3 DEF FinishesHold, Release, Consume, Expire, Overdue, Live, LiveAt, HoldStatus
<1>4. ASSUME NEW o \in Orders, NEW a \in Attempts, NEW now \in Readings,
             NEW t \in 1..MaxTtl, Reserve(o, a, now, now + t)
      PROVE  Lifecycle'
  <2>1. \A p \in Orders, b \in Attempts : <<p, b>> \in Reservations
    BY DEF Reservations
  <2>2. \A b \in Attempts : b # a => hold'[<<o, b>>].status # "active"
    BY <1>4, <2>1 DEF Reserve, Expired, TypeOK, Hold
  <2>3. \A p \in Orders, b \in Attempts :
            p # o => hold'[<<p, b>>] = hold[<<p, b>>]
    BY <1>4, <2>1 DEF Reserve
  <2>4. \A b \in Attempts : hold[<<o, b>>].status = "consumed"
                            => hold'[<<o, b>>].status = "consumed"
    BY <1>4, <2>1 DEF Reserve, Expired
  <2>5. OneActivePerOrder'
    BY <2>2, <2>3 DEF OneActivePerOrder, Lifecycle
  <2>6. shipped' = shipped /\ shipped \subseteq Orders
    BY <1>4 DEF Reserve, TypeOK
  <2>7. ShippedWasConsumed'
    BY <2>3, <2>4, <2>6 DEF ShippedWasConsumed, Lifecycle
  <2> QED BY <2>5, <2>7 DEF Lifecycle
<1>5. ASSUME NEW r \in Reservations, Dispatch(r)
      PROVE  Lifecycle'
  <2>1. PICK o \in Orders, a \in Attempts : r = <<o, a>>
    BY DEF Reservations
  <2>2. hold' = hold /\ shipped' = shipped \cup {o}
    BY <1>5, <2>1 DEF Dispatch
  <2>3. hold[<<o, a>>].status = "consumed"
    BY <1>5, <2>1 DEF Dispatch, Dispatchable
  <2>4. ShippedWasConsumed'
    BY <2>2, <2>3 DEF ShippedWasConsumed, Lifecycle
  <2>5. OneActivePerOrder'
    BY <2>2 DEF OneActivePerOrder, Lifecycle
  <2> QED BY <2>4, <2>5 DEF Lifecycle
<1>6. CASE Operator \/ Tick \/ UNCHANGED vars \/ \E o \in Orders, i \in Items : CheckoutLine(o, i)
  <2>1. Operator => UNCHANGED <<hold, shipped>>
    <3>1. \A i \in Items : Archive(i) => UNCHANGED <<hold, shipped>>
      BY DEF Archive
    <3>2. \A i \in Items, e \in Entries :
              Create(i, e) \/ LegacyUpdate(i, e) \/ ApplyQuantity(i, e.onHand)
                => UNCHANGED <<hold, shipped>>
      BY DEF Create, LegacyUpdate, ApplyQuantity
    <3> QED BY <3>1, <3>2 DEF Operator
  <2>2. Tick \/ UNCHANGED vars => UNCHANGED <<hold, shipped>>
    BY DEF Tick, vars
  <2>3. (\E o \in Orders, i \in Items : CheckoutLine(o, i)) => UNCHANGED <<hold, shipped>>
    BY DEF CheckoutLine
  <2> QED BY <1>1, <1>6, <2>1, <2>2, <2>3
<1> QED BY <1>3, <1>4, <1>5, <1>6 DEF Next, Customer, FinishesHold

\* IInv is an inductive invariant of every instance.
THEOREM Inductive == Spec => []IInv
<1>1. Init => UncreatedEmpty /\ AvailableNonNegative /\ LedgerExact
              /\ OneActivePerOrder /\ ShippedWasConsumed
  BY DEF Init, UncreatedEmpty, AvailableNonNegative, Available, LedgerExact,
         OneActivePerOrder, ShippedWasConsumed, Reservations
<1>2. TypeOK /\ Quantities /\ Lifecycle /\ [Next]_vars => (Quantities /\ Lifecycle)'
  BY QuantitiesStep, LifecycleStep
<1>3. IInv <=> TypeOK /\ Quantities /\ Lifecycle
  BY DEF IInv, Quantities, Lifecycle
<1>4. Init => Quantities /\ Lifecycle
  BY <1>1 DEF Quantities, Lifecycle
<1> QED BY <1>2, <1>3, <1>4, TypeCorrect, PTL DEF Spec

\* The patches, adjustments and dispatches of any mix of operators and
\* customers never reserve more of an item than is on hand.
THEOREM AvailabilityHolds == Spec => []AvailableNonNegative
BY Inductive, PTL DEF IInv

\* The audit trail is complete: the recorded movements of an item always add
\* up to the units on its shelf.
THEOREM LedgerHolds == Spec => []LedgerExact
BY Inductive, PTL DEF IInv

\* However often an order is reserved anew, one of its reservations at most is
\* in status active, as the partial unique index demands.
THEOREM OneActiveHolds == Spec => []OneActivePerOrder
BY Inductive, PTL DEF IInv

\* No order is dispatched unless one of its reservations was consumed.
THEOREM ShippedHolds == Spec => []ShippedWasConsumed
BY Inductive, PTL DEF IInv

-----------------------------------------------------------------------------
(* Only a dispatch can leave live holds uncovered *)

\* The held units of an item are finitely many, at any reading of the clock.
LEMMA HeldFinite ==
    ASSUME NEW i \in Items, NEW now \in Nat
    PROVE  IsFiniteSet(HeldUnits(i, now)) /\ HeldAt(i, now) \in Nat
<1>1. IsFiniteSet(Reservations)
  BY FiniteAssumption, FS_Product DEF Reservations
<1>2. IsFiniteSet(1..MaxDemand)
  BY FS_Interval
<1>3. IsFiniteSet(Reservations \X (1..MaxDemand))
  BY <1>1, <1>2, FS_Product
<1>4. HeldUnits(i, now) \subseteq Reservations \X (1..MaxDemand)
  BY DEF HeldUnits
<1> QED BY <1>3, <1>4, FS_Subset, FS_CardinalityType DEF HeldAt

\* What is held now was held at every earlier reading of the clock.
LEMMA HeldEarlier ==
    ASSUME TypeOK, NEW i \in Items, NEW now \in 0..clock
    PROVE  Held(i) <= HeldAt(i, now) /\ Held(i) \in Nat /\ HeldAt(i, now) \in Nat
<1>1. \A r \in Reservations : hold[r].expires \in Nat /\ clock \in Nat
  BY DEF TypeOK, Hold
<1>2. HeldUnits(i, clock) \subseteq HeldUnits(i, now)
  BY <1>1 DEF HeldUnits, LiveAt
<1>3. IsFiniteSet(HeldUnits(i, now)) /\ HeldAt(i, now) \in Nat /\ Held(i) \in Nat
  BY HeldFinite DEF Held, TypeOK
<1> QED BY <1>2, <1>3, FS_Subset DEF Held, HeldAt

\* What is held now is a natural number.
LEMMA HeldNat ==
    ASSUME TypeOK, NEW i \in Items
    PROVE  Held(i) \in Nat
BY HeldFinite DEF Held, TypeOK

\* A step that makes no reservation live holds no more of any item.
LEMMA HeldShrinks ==
    ASSUME TypeOK, NEW i \in Items, \A r \in Reservations : Live(r)' => Live(r)
    PROVE  Held(i)' <= Held(i) /\ Held(i)' \in Nat
<1>1. HeldUnits(i, clock)' \subseteq HeldUnits(i, clock)
  BY DEF HeldUnits, Live
<1>2. IsFiniteSet(HeldUnits(i, clock))
  BY HeldFinite DEF TypeOK
<1> QED BY <1>1, <1>2, FS_Subset, FS_CardinalityType DEF Held, HeldAt

\* A new reservation of order o adds the units of its lines, no more.
LEMMA HeldGrows ==
    ASSUME TypeOK, NEW i \in Items, NEW o \in Orders, NEW a \in Attempts,
           \A r \in Reservations : Live(r)' => Live(r) \/ r = <<o, a>>
    PROVE  Held(i)' <= Held(i) + Demand[o][i] /\ Held(i)' \in Nat
<1> DEFINE n == Demand[o][i]
           new == {<<o, a>>} \X (1..n)
           old == HeldUnits(i, clock)
<1>0. n \in 0..MaxDemand
  OBVIOUS
<1>1. IsFiniteSet({<<o, a>>}) /\ Cardinality({<<o, a>>}) = 1
  BY FS_Singleton
<1>2. IsFiniteSet(1..n) /\ Cardinality(1..n) = n
  <2> HIDE DEF n
  <2>1. n \in Int /\ 1 \in Int
    BY <1>0
  <2>2. Cardinality(1..n) = IF 1 > n THEN 0 ELSE n - 1 + 1
    BY <2>1, FS_Interval
  <2> QED BY <1>0, <2>1, <2>2, FS_Interval
<1>3. IsFiniteSet(new) /\ Cardinality(new) = n
  <2>1. IsFiniteSet(new) /\ Cardinality(new) = 1 * Cardinality(1..n)
    BY <1>1, <1>2, FS_Product
  <2> QED BY <2>1, <1>2, <1>0
<1>4. HeldUnits(i, clock)' \subseteq old \cup new
  <2> SUFFICES ASSUME NEW u \in HeldUnits(i, clock)' PROVE u \in old \cup new
    OBVIOUS
  <2>1. /\ u \in Reservations \X (1..MaxDemand)
        /\ Live(u[1])' /\ u[2] <= Demand[u[1][1]][i]
    BY DEF HeldUnits, Live
  <2>2. CASE Live(u[1])
    BY <2>1, <2>2 DEF HeldUnits, Live
  <2>3. CASE u[1] = <<o, a>>
    BY <2>1, <2>3, <1>0
  <2> QED BY <2>1, <2>2, <2>3
<1>5. IsFiniteSet(old) /\ Cardinality(old) \in Nat /\ Held(i) = Cardinality(old)
  BY HeldFinite DEF Held, HeldAt, TypeOK
<1> HIDE DEF old, new, n
<1>6. /\ IsFiniteSet(old \cup new)
      /\ Cardinality(old \cup new) = Cardinality(old) + n - Cardinality(old \cap new)
  BY <1>3, <1>5, FS_Union
<1>7. Cardinality(old \cap new) \in Nat
  BY <1>3, <1>5, FS_Intersection, FS_CardinalityType
<1>8. Held(i)' <= Cardinality(old \cup new) /\ Held(i)' \in Nat
  BY <1>4, <1>6, FS_Subset, FS_CardinalityType DEF Held, HeldAt
<1> QED BY <1>0, <1>5, <1>6, <1>7, <1>8 DEF n

\* A step that rewrites one row and leaves its availability above the holds
\* keeps every item covered.
LEMMA RewriteCovers ==
    ASSUME TypeOK, NEW i \in Items, NEW row \in Row, Rewrite(i, row),
           UNCHANGED <<hold, clock>>,
           NEW j \in Items, Covered(j),
           Held(i) <= row.onHand - row.reserved
               \/ Available(i) = row.onHand - row.reserved
    PROVE  Covered(j)'
<1>1. Held(j)' = Held(j)
  BY DEF Held, HeldAt, HeldUnits, LiveAt
<1>2. CASE j # i
  <2>1. stock'[j] = stock[j]
    BY <1>2 DEF Rewrite, TypeOK
  <2> QED BY <1>1, <2>1 DEF Covered, Available
<1>3. CASE j = i
  <2>1. stock'[i] = [row EXCEPT !.version = stock[i].version + 1]
    BY DEF Rewrite, TypeOK
  <2>2. Available(i)' = row.onHand - row.reserved
    BY <2>1 DEF Available, Row
  <2> QED BY <1>1, <1>3, <2>2 DEF Covered
<1> QED BY <1>2, <1>3

\* Operators of a store never take away what live reservations hold.
LEMMA OperatorCovers ==
    ASSUME IInv, Operator, NEW j \in Items, Covered(j)
    PROVE  Covered(j)'
<1>1. ASSUME NEW i \in Items, Archive(i) PROVE Covered(j)'
  BY <1>1, ArchivedRow, RewriteCovers DEF Archive, IInv, Available
<1>2. ASSUME NEW i \in Items, NEW e \in Entries, ApplyQuantity(i, e.onHand)
      PROVE  Covered(j)'
  <2>1. Held(i) <= Counted(i, e.onHand).onHand - Counted(i, e.onHand).reserved
    BY <1>2, OperatorRows, HeldNat DEF ApplyQuantity, KeepsHolds, IInv
  <2> QED BY <1>2, <2>1, OperatorRows, RewriteCovers DEF ApplyQuantity, IInv
<1>3. ASSUME NEW i \in Items, NEW e \in Entries, LegacyUpdate(i, e)
      PROVE  Covered(j)'
  <2>1. \/ Held(i) <= Entered(i, e).onHand - Entered(i, e).reserved
        \/ Available(i) = Entered(i, e).onHand - Entered(i, e).reserved
    BY <1>3, OperatorRows, HeldNat DEF LegacyUpdate, KeepsHolds, Available, IInv
  <2> QED BY <1>3, <2>1, OperatorRows, RewriteCovers DEF LegacyUpdate, IInv
<1>4. ASSUME NEW i \in Items, NEW e \in Entries, Create(i, e)
      PROVE  Covered(j)'
  <2>1. Rewrite(i, Entered(i, e)) /\ UNCHANGED <<hold, clock>>
    BY <1>4 DEF Create
  <2>2. CASE i = j
    <3>1. Available(i) = 0
      BY <1>4, OperatorRows DEF Create, UncreatedEmpty, Available, IInv
    <3>2. e.reserved <= e.onHand
      BY <1>4 DEF Create
    <3>3. Held(i) <= Entered(i, e).onHand - Entered(i, e).reserved
      BY <2>2, <3>1, <3>2, OperatorRows, HeldNat DEF Covered, IInv
    <3> QED BY <2>1, <3>3, OperatorRows, RewriteCovers DEF IInv
  <2>3. CASE i # j
    <3>1. stock'[j] = stock[j]
      BY <2>1, <2>3 DEF Rewrite, IInv, TypeOK
    <3>2. Held(j)' = Held(j)
      BY <2>1 DEF Held, HeldAt, HeldUnits, LiveAt
    <3> QED BY <3>1, <3>2 DEF Covered, Available
  <2> QED BY <2>2, <2>3
<1> QED BY <1>1, <1>2, <1>3, <1>4 DEF Operator

\* Reservations are granted only within what other holds leave available.
LEMMA ReserveCovers ==
    ASSUME IInv, NEW o \in Orders, NEW a \in Attempts, NEW now \in Readings,
           NEW t \in 1..MaxTtl, Reserve(o, a, now, now + t), NEW j \in Items, Covered(j)
    PROVE  Covered(j)'
<1>1. \A r \in Reservations : Live(r)' => Live(r) \/ r = <<o, a>>
  BY DEF Reserve, Live, LiveAt, Expired, IInv, TypeOK, Hold
<1>2. Held(j)' <= Held(j) + Demand[o][j] /\ Held(j)' \in Nat /\ Held(j) \in Nat
  BY <1>1, HeldGrows, HeldNat DEF IInv
<1>3. Available(j)' = Available(j) /\ Available(j) \in Int
  BY DEF Reserve, Available, IInv, TypeOK, Row
<1>4. CASE j \in Lines(o)
  <2>1. Available(j) - HeldAt(j, now) >= Demand[o][j] /\ Demand[o][j] \in Nat
    BY <1>4 DEF Reserve
  <2>2. Held(j) <= HeldAt(j, now) /\ HeldAt(j, now) \in Nat
    BY HeldEarlier DEF IInv, Readings
  <2> QED BY <1>2, <1>3, <2>1, <2>2 DEF Covered
<1>5. CASE j \notin Lines(o)
  <2>1. Demand[o][j] = 0
    BY <1>5 DEF Lines
  <2> QED BY <1>2, <1>3, <2>1 DEF Covered
<1> QED BY <1>4, <1>5

\* Nothing but the dispatch of a shipment can leave live reservations without
\* the stock that backs them: the promise of phase 5.4 holds step by step for
\* every other operation, for any number of items, orders and units.
THEOREM OnlyDispatchUncoversHolds == Spec => OnlyDispatchUncovers
<1>1. ASSUME IInv, [Next]_vars, shipped' = shipped, NEW j \in Items, Covered(j)
      PROVE  Covered(j)'
  <2>1. CASE Operator
    BY <1>1, <2>1, OperatorCovers
  <2>2. ASSUME NEW o \in Orders, NEW a \in Attempts, NEW now \in Readings,
               NEW t \in 1..MaxTtl, Reserve(o, a, now, now + t)
        PROVE  Covered(j)'
    BY <1>1, <2>2, ReserveCovers
  <2>3. ASSUME stock' = stock, \A r \in Reservations : Live(r)' => Live(r)
        PROVE  Covered(j)'
    <3>1. Held(j)' <= Held(j) /\ Held(j)' \in Nat /\ Held(j) \in Nat
      BY <1>1, <2>3, HeldShrinks, HeldNat DEF IInv
    <3>2. Available(j)' = Available(j) /\ Available(j) \in Int
      BY <1>1, <2>3 DEF Available, IInv, TypeOK, Row
    <3> QED BY <1>1, <3>1, <3>2 DEF Covered
  <2>4. ASSUME NEW r \in Reservations, FinishesHold(r)
        PROVE  Covered(j)'
    BY <1>1, <2>3, <2>4
       DEF FinishesHold, Release, Consume, Expire, Finish, Live, LiveAt, Overdue, IInv, TypeOK,
           Hold
  <2>5. CASE Tick
    BY <1>1, <2>3, <2>5 DEF Tick, Live, LiveAt, IInv, TypeOK, Hold
  <2>6. CASE UNCHANGED vars \/ \E o \in Orders, i \in Items : CheckoutLine(o, i)
    BY <2>3, <2>6 DEF vars, CheckoutLine, Live, LiveAt
  <2>7. ASSUME NEW r \in Reservations, Dispatch(r) PROVE FALSE
    BY <1>1, <2>7 DEF Dispatch, Dispatchable
  <2> QED BY <1>1, <2>1, <2>2, <2>4, <2>5, <2>6, <2>7 DEF Next, Customer, FinishesHold
<1>2. IInv /\ [Next]_vars =>
        [shipped' = shipped => \A i \in Items : Covered(i) => Covered(i)']_vars
  BY <1>1
<1> QED BY <1>2, Inductive, PTL DEF Spec, OnlyDispatchUncovers

-----------------------------------------------------------------------------
(* Transactions.  Every commit is one step of Stock, for any workers,      *)
(* items and orders.  What a transaction has checked under a row lock      *)
(* lasts until it ends (CheckedStaysTrue), and what it read before the     *)
(* locks either cannot change or is checked again by its commit.           *)

TxTypes == tx \in [Workers -> Request]

\* Transactions lock rows they need, and no two the same.
LocksApart ==
    \A w \in Workers : /\ tx[w].got \subseteq Rows(w)
                       /\ \A v \in Workers : v # w => tx[w].got \cap tx[v].got = {}

Recent(now) == now <= clock /\ clock <= now + MaxLag

StillRecent(now) == now <= clock' /\ clock' <= now + MaxLag

\* What a transaction has read without a lock, and what is left of it: an expiry
\* once set does not move, a consumed reservation stays consumed.
ReadsLast ==
    \A w \in Workers :
        /\ tx[w].op = "reserve" =>
             /\ Lines(tx[w].order) # {} /\ Recent(tx[w].now)
             /\ \A b \in tx[w].old : /\ hold[<<tx[w].order, b>>].status # "none"
                                     /\ hold[<<tx[w].order, b>>].expires <= tx[w].now
        /\ tx[w].op = "ship" => hold[tx[w].rsv].status = "consumed"
        /\ tx[w].op \in {"adjust", "patch"} => tx[w].entry \in Entries
        /\ tx[w].op \in {"released", "consumed"} =>
             /\ Recent(tx[w].now)
             /\ hold[tx[w].rsv].status # "none" /\ hold[tx[w].rsv].expires > tx[w].now

TxInv == TypeOK /\ TxTypes /\ LocksApart /\ ReadsLast /\ CheckedStaysTrue

\* The fields a transaction of each kind has.
LEMMA RequestFields ==
    ASSUME TxTypes, NEW w \in Workers
    PROVE  /\ tx[w].op \in {"idle", "reserve", "ship", "adjust", "patch", "released", "consumed"}
           /\ tx[w].got \in SUBSET Items
           /\ tx[w].op = "idle" => tx[w] = Idle
           /\ tx[w].op = "reserve" => /\ tx[w].order \in Orders /\ tx[w].now \in Nat
                                      /\ tx[w].ttl \in 1..MaxTtl /\ tx[w].old \in SUBSET Attempts
           /\ tx[w].op = "ship" => tx[w].rsv \in Reservations
           /\ tx[w].op \in {"adjust", "patch"} =>
                tx[w].item \in Items /\ tx[w].seen \in Nat /\ tx[w].entry \in Entry
           /\ tx[w].op \in {"released", "consumed"} => tx[w].rsv \in Reservations /\ tx[w].now \in Nat
<1>1. tx[w] \in Request
  BY DEF TxTypes
<1>2. CASE tx[w] = Idle BY <1>2 DEF Idle
<1>3. CASE tx[w] \in [op : {"reserve"}, order : Orders, now : Nat, ttl : 1..MaxTtl,
                      old : SUBSET Attempts, got : SUBSET Items]
  BY <1>3
<1>4. CASE tx[w] \in [op : {"ship"}, rsv : Reservations, got : SUBSET Items]
  BY <1>4
<1>5. CASE tx[w] \in [op : {"adjust", "patch"}, item : Items, seen : Nat, entry : Entry,
                      got : SUBSET Items]
  BY <1>5
<1>6. CASE tx[w] \in [op : {"released", "consumed"}, rsv : Reservations, now : Nat,
                      got : SUBSET Items]
  BY <1>6
<1> QED BY <1>1, <1>2, <1>3, <1>4, <1>5, <1>6 DEF Request

-----------------------------------------------------------------------------
(* A commit is a step of Stock *)

LEMMA ReserveIsAtomic ==
    ASSUME TxInv, NEW w \in Workers, NEW a \in Attempts, CommitReserve(w, a)
    PROVE  Next
<1> DEFINE o == tx[w].order
           now == tx[w].now
           ttl == tx[w].ttl
<1>1. tx[w].op = "reserve" /\ o \in Orders /\ now \in Nat /\ ttl \in 1..MaxTtl
  BY RequestFields DEF CommitReserve, TxInv
<1>2. now \in Readings
  BY <1>1 DEF TxInv, ReadsLast, Recent, Readings, TypeOK
<1>3. \A b \in Attempts : ~LiveAt(<<o, b>>, now)
  <2>1. {b \in Attempts : hold[<<o, b>>].status = "active"} = tx[w].old
    BY <1>1 DEF CommitReserve, Commit, Commits, ReserveCommits
  <2>2. \A b \in tx[w].old : hold[<<o, b>>].expires <= now /\ hold[<<o, b>>].expires \in Nat
    BY <1>1, <2>1 DEF TxInv, ReadsLast, TypeOK, Hold, Reservations
  <2> QED BY <1>1, <2>1, <2>2 DEF LiveAt
<1>4. \A i \in Lines(o) : /\ Visible(i)
                          /\ stock[i].status = "active"
                          /\ stock[i].version = snapshot[o][i]
                          /\ Available(i) - HeldAt(i, now) >= Demand[o][i]
  <2>1. tx[w].got = Lines(o)
    BY <1>1 DEF CommitReserve, Commit, Rows
  <2> QED BY <1>1, <2>1 DEF TxInv, CheckedStaysTrue, RowCheck, ReserveCheck
<1>5. Reserve(o, a, now, now + ttl)
  <2>1. Lines(o) # {} /\ now + ttl > now
    BY <1>1 DEF TxInv, ReadsLast
  <2> QED BY <1>3, <1>4, <2>1 DEF CommitReserve, Reserve
<1> QED BY <1>1, <1>2, <1>5 DEF Next, Customer

LEMMA ShipIsAtomic ==
    ASSUME TxInv, NEW w \in Workers, CommitShip(w)
    PROVE  Next
<1> DEFINE r == tx[w].rsv
<1>1. tx[w].op = "ship" /\ r \in Reservations
  BY RequestFields DEF CommitShip, TxInv
<1>2. tx[w].got = Lines(r[1])
  BY <1>1 DEF CommitShip, Commit, Rows
<1>3. \A i \in Lines(r[1]) : Visible(i) /\ stock[i].status = "active" /\ Sufficient(i, Demand[r[1]][i])
  BY <1>1, <1>2 DEF TxInv, CheckedStaysTrue, RowCheck, ShipCheck
<1>4. Dispatchable(r)
  BY <1>1 DEF TxInv, ReadsLast, CommitShip, Commit, Commits, ShipCommits, Dispatchable
<1>5. Dispatch(r)
  BY <1>3, <1>4 DEF CommitShip, Dispatch
<1> QED BY <1>1, <1>5 DEF Next, Customer

LEMMA EntryIsAtomic ==
    ASSUME TxInv, NEW w \in Workers, CommitEntry(w)
    PROVE  Next
<1> DEFINE i == tx[w].item
           e == tx[w].entry
<1>1. tx[w].op \in {"adjust", "patch"} /\ i \in Items /\ e \in Entries
  BY RequestFields DEF CommitEntry, TxInv, ReadsLast
<1>2. i \in tx[w].got
  BY <1>1 DEF CommitEntry, Commit, Rows
<1>3. RowCheck(w, i)
  BY <1>2 DEF TxInv, CheckedStaysTrue
<1>4. ApplyQuantity(i, e.onHand) \/ LegacyUpdate(i, e)
  <2>1. CASE tx[w].op = "adjust"
    BY <1>3, <2>1 DEF RowCheck, AdjustCheck, CommitEntry, ApplyQuantity
  <2>2. CASE tx[w].op = "patch"
    BY <1>3, <2>2 DEF RowCheck, PatchCheck, CommitEntry, LegacyUpdate
  <2> QED BY <1>1, <2>1, <2>2
<1> QED BY <1>1, <1>4 DEF Next, Operator

LEMMA FinishIsAtomic ==
    ASSUME TxInv, NEW w \in Workers, CommitFinish(w)
    PROVE  Next
<1> DEFINE r == tx[w].rsv
           now == tx[w].now
<1>1. tx[w].op \in {"released", "consumed"} /\ r \in Reservations /\ now \in Nat
  BY RequestFields DEF CommitFinish, TxInv
<1>2. now \in Readings
  BY <1>1 DEF TxInv, ReadsLast, Recent, Readings, TypeOK
<1>3. LiveAt(r, now)
  BY <1>1 DEF TxInv, ReadsLast, CommitFinish, Commit, Commits, FinishCommits, LiveAt
<1>4. Release(r, now) \/ Consume(r, now)
  BY <1>1, <1>3 DEF CommitFinish, Release, Consume
<1> QED BY <1>1, <1>2, <1>4 DEF Next, Customer

\* The requests that write nothing yet.
Quiet(w) ==
    \/ Start(w) \/ Reject(w) \/ Rollback(w) \/ \E i \in Items : LockRow(w, i)

LEMMA StepOfStock ==
    ASSUME TxInv, [TxNext]_txVars
    PROVE  [Next]_vars
<1>1. ASSUME NEW w \in Workers, Quiet(w) PROVE UNCHANGED vars
  BY <1>1 DEF Quiet, Start, BeginReserve, BeginShip, BeginFinish, BeginEntry, Begin, Reject,
              Rollback, LockRow
<1>2. ASSUME Atomic PROVE Next
  BY <1>2 DEF Atomic, Next, Operator, Customer
<1>3. ASSUME UNCHANGED txVars PROVE UNCHANGED vars
  BY <1>3 DEF txVars, vars
<1> QED
  BY <1>1, <1>2, <1>3, ReserveIsAtomic, ShipIsAtomic, EntryIsAtomic, FinishIsAtomic
     DEF TxNext, Progress, Quiet

-----------------------------------------------------------------------------
(* What lasts through every step of Stock *)

ReservationsLast ==
    \A r \in Reservations : hold[r].status # "none" =>
        /\ hold'[r].status # "none" /\ hold'[r].expires = hold[r].expires
        /\ hold[r].status = "consumed" => hold'[r].status = "consumed"
        /\ hold'[r].status = "active" => hold[r].status = "active"

SnapshotsLast ==
    \A o \in Orders, i \in Items : snapshot[o][i] # 0 => snapshot'[o][i] = snapshot[o][i]

LEMMA StockLasts ==
    ASSUME TypeOK, [Next]_vars
    PROVE  ReservationsLast /\ SnapshotsLast /\ clock' \in {clock, clock + 1}
<1>1. ASSUME Operator \/ Tick \/ UNCHANGED vars
      PROVE  hold' = hold /\ snapshot' = snapshot /\ clock' \in {clock, clock + 1}
  BY <1>1 DEF Operator, Archive, Create, LegacyUpdate, ApplyQuantity, Tick, vars
<1>2. ASSUME NEW o \in Orders, NEW i \in Items, CheckoutLine(o, i)
      PROVE  hold' = hold /\ SnapshotsLast /\ clock' = clock
  BY <1>2 DEF CheckoutLine, SnapshotsLast, TypeOK
<1>3. ASSUME NEW o \in Orders, NEW a \in Attempts, NEW now \in Readings, NEW t \in 1..MaxTtl,
             Reserve(o, a, now, now + t)
      PROVE  ReservationsLast /\ snapshot' = snapshot /\ clock' = clock
  <2>1. ASSUME NEW r \in Reservations, r # <<o, a>>
        PROVE  hold'[r] \in {hold[r], Expired(r)}
    BY <1>3, <2>1 DEF Reserve
  <2>2. \A r \in Reservations : r = <<o, a>> => hold[r].status = "none"
    BY <1>3 DEF Reserve
  <2>3. \A r \in Reservations : hold[r] \in Hold
    BY DEF TypeOK
  <2> QED BY <1>3, <2>1, <2>2, <2>3 DEF ReservationsLast, Reserve, Expired, Hold
<1>4. ASSUME NEW r \in Reservations, FinishesHold(r)
      PROVE  ReservationsLast /\ snapshot' = snapshot /\ clock' = clock
  BY <1>4 DEF FinishesHold, Release, Consume, Expire, Overdue, LiveAt, Finish, ReservationsLast,
              TypeOK, Hold
<1>5. ASSUME NEW r \in Reservations, Dispatch(r)
      PROVE  hold' = hold /\ snapshot' = snapshot /\ clock' = clock
  BY <1>5 DEF Dispatch
<1>6. /\ hold' = hold => ReservationsLast
      /\ snapshot' = snapshot => SnapshotsLast
  BY DEF ReservationsLast, SnapshotsLast
<1> QED
  BY <1>1, <1>2, <1>3, <1>4, <1>5, <1>6 DEF Next, Customer, FinishesHold

\* A step that grants no units of an item to anybody holds no more of it.
LEMMA HeldStays ==
    ASSUME TypeOK, TypeOK', ReservationsLast, NEW i \in Items, NEW n \in Nat, NEW m \in Nat, n <= m,
           \A r \in Reservations : hold[r].status = "none" /\ hold'[r].status = "active"
                                     => Demand[r[1]][i] = 0
    PROVE  HeldAt(i, m)' <= HeldAt(i, n) /\ HeldAt(i, m)' \in Nat /\ HeldAt(i, n) \in Nat
<1>1. HeldUnits(i, m)' \subseteq HeldUnits(i, n)
  <2> SUFFICES ASSUME NEW u \in Reservations \X (1..MaxDemand),
                      hold'[u[1]].status = "active", hold'[u[1]].expires > m,
                      u[2] <= Demand[u[1][1]][i]
               PROVE  u \in HeldUnits(i, n)
    BY DEF HeldUnits, LiveAt
  <2>1. u[1] \in Reservations /\ u[2] \in 1..MaxDemand /\ u[1][1] \in Orders
    BY DEF Reservations
  <2>2. Demand[u[1][1]][i] # 0
    BY <2>1
  <2>3. hold[u[1]].status = "active" /\ hold'[u[1]].expires = hold[u[1]].expires
    BY <2>1, <2>2 DEF ReservationsLast
  <2>4. hold[u[1]].expires > n
    <3>1. hold[u[1]].expires \in Nat
      BY <2>1 DEF TypeOK, Hold
    <3> QED BY <2>3, <3>1
  <2> QED BY <2>3, <2>4 DEF HeldUnits, LiveAt
<1>2. IsFiniteSet(HeldUnits(i, n)) /\ HeldAt(i, n) \in Nat
  BY HeldFinite
<1> QED BY <1>1, <1>2, FS_Subset, FS_CardinalityType DEF HeldAt

-----------------------------------------------------------------------------
(* What lasts for a transaction while others commit *)

\* The rows a transaction has locked are written by no other, and no other
\* reserves units of them.
LEMMA RowsUntouched ==
    ASSUME TxInv, [TxNext]_txVars, NEW w \in Workers, tx'[w] = tx[w], NEW i \in tx[w].got
    PROVE  /\ stock'[i] = stock[i]
           /\ \A r \in Reservations : hold[r].status = "none" /\ hold'[r].status = "active"
                                        => Demand[r[1]][i] = 0
<1>0. i \in Items /\ Visible(i)
  <2>1. i \in Items
    BY RequestFields DEF TxInv
  <2>2. RowCheck(w, i)
    BY DEF TxInv, CheckedStaysTrue
  <2> QED BY <2>1, <2>2 DEF RowCheck, ReserveCheck, ShipCheck, AdjustCheck, PatchCheck
<1>1. \A v \in Workers : Commit(v) => v # w
  BY DEF Commit, Idle, TxInv, TxTypes
<1>2. ASSUME NEW v \in Workers, Quiet(v) \/ UNCHANGED txVars
      PROVE  UNCHANGED <<stock, hold>>
  BY <1>2 DEF Quiet, Start, BeginReserve, BeginShip, BeginFinish, BeginEntry, Begin, Reject,
              Rollback, LockRow, vars, txVars
<1>3. ASSUME NEW v \in Workers, NEW a \in Attempts, CommitReserve(v, a)
      PROVE  /\ stock' = stock
             /\ \A r \in Reservations : hold[r].status = "none" /\ hold'[r].status = "active"
                                          => Demand[r[1]][i] = 0
  <2>1. v # w /\ tx[v].op = "reserve" /\ tx[v].order \in Orders
    BY <1>1, <1>3, RequestFields DEF CommitReserve, TxInv
  <2>2. i \notin Lines(tx[v].order)
    BY <1>3, <2>1 DEF CommitReserve, Commit, Rows, TxInv, LocksApart
  <2>3. Demand[tx[v].order][i] = 0
    BY <1>0, <2>1, <2>2 DEF Lines
  <2>4. ASSUME NEW r \in Reservations, hold[r].status = "none", hold'[r].status = "active"
        PROVE  r[1] = tx[v].order
    BY <1>3, <2>4 DEF CommitReserve, Expired
  <2> QED BY <1>3, <2>3, <2>4 DEF CommitReserve
<1>4. ASSUME NEW v \in Workers, CommitShip(v)
      PROVE  stock'[i] = stock[i] /\ hold' = hold
  <2>1. v # w /\ i \notin Lines(tx[v].rsv[1])
    BY <1>1, <1>4 DEF CommitShip, Commit, Rows, TxInv, LocksApart
  <2> QED BY <1>0, <1>4, <2>1 DEF CommitShip
<1>5. ASSUME NEW v \in Workers, CommitEntry(v)
      PROVE  stock'[i] = stock[i] /\ hold' = hold
  <2>1. v # w /\ tx[v].item \in Items /\ i # tx[v].item
    BY <1>1, <1>5, RequestFields DEF CommitEntry, Commit, Rows, TxInv, LocksApart
  <2> QED BY <1>0, <1>5, <2>1 DEF CommitEntry, Rewrite, TxInv, TypeOK
<1>6. ASSUME NEW v \in Workers, CommitFinish(v)
      PROVE  /\ stock' = stock
             /\ \A r \in Reservations : hold[r].status = "none" => hold'[r].status # "active"
  BY <1>6, RequestFields DEF CommitFinish, Finish, TxInv, TypeOK, Hold
<1>7. ASSUME Atomic
      PROVE  /\ stock'[i] = stock[i]
             /\ \A r \in Reservations : hold[r].status = "none" => hold'[r].status # "active"
  <2>1. ASSUME NEW j \in Items, Unlocked(j), Archive(j)
        PROVE  stock'[i] = stock[i] /\ hold' = hold
    <3>1. i # j
      BY <2>1 DEF Unlocked
    <3> QED BY <1>0, <2>1, <3>1 DEF Archive, Rewrite, TxInv, TypeOK
  <2>2. ASSUME NEW j \in Items, NEW e \in Entries, Create(j, e)
        PROVE  stock'[i] = stock[i] /\ hold' = hold
    <3>1. i # j
      BY <1>0, <2>2 DEF Create, Visible
    <3> QED BY <1>0, <2>2, <3>1 DEF Create, Rewrite, TxInv, TypeOK
  <2>3. ASSUME Tick \/ \E j \in Items, o \in Orders : CheckoutLine(o, j)
        PROVE  stock' = stock /\ hold' = hold
    BY <2>3 DEF Tick, CheckoutLine
  <2>4. ASSUME NEW r \in Reservations, Expire(r)
        PROVE  /\ stock' = stock
               /\ \A q \in Reservations : hold[q].status = "none" => hold'[q].status # "active"
    BY <2>4 DEF Expire, Finish, TxInv, TypeOK, Hold
  <2>5. hold' = hold =>
          \A r \in Reservations : hold[r].status = "none" => hold'[r].status # "active"
    OBVIOUS
  <2> QED BY <1>7, <2>1, <2>2, <2>3, <2>4, <2>5 DEF Atomic
<1> QED
  BY <1>2, <1>3, <1>4, <1>5, <1>6, <1>7 DEF TxNext, Progress, Quiet

\* What a transaction has checked about a row still holds after the step.
LEMMA CheckLasts ==
    ASSUME TxInv, TypeOK', [TxNext]_txVars, NEW w \in Workers, tx'[w] = tx[w], NEW i \in tx[w].got
    PROVE  RowCheck(w, i)'
<1>1. /\ i \in Items /\ RowCheck(w, i) /\ stock'[i] = stock[i]
      /\ stock[i] \in Row
  BY RequestFields, RowsUntouched DEF TxInv, CheckedStaysTrue, TypeOK
<1>2. ReservationsLast /\ SnapshotsLast /\ clock' \in {clock, clock + 1} /\ clock \in Nat
  BY StepOfStock, StockLasts DEF TxInv, TypeOK
<1>3. \A n, m \in Nat : n <= m =>
        HeldAt(i, m)' <= HeldAt(i, n) /\ HeldAt(i, m)' \in Nat /\ HeldAt(i, n) \in Nat
  BY <1>1, <1>2, RowsUntouched, HeldStays DEF TxInv
<1>4. Visible(i)' = Visible(i) /\ Available(i)' = Available(i) /\ Available(i) \in Int
  BY <1>1 DEF Visible, Available, Row
<1>5. Held(i)' <= Held(i) /\ Held(i)' \in Nat /\ Held(i) \in Nat
  BY <1>2, <1>3 DEF Held
<1>6. CASE tx[w].op = "reserve"
  <2>1. tx[w].order \in Orders /\ tx[w].now \in Nat /\ Demand[tx[w].order][i] \in Nat
    BY <1>1, <1>6, RequestFields DEF TxInv
  <2>2. ReserveCheck(w, i)
    BY <1>1, <1>6 DEF RowCheck
  <2>3. snapshot'[tx[w].order][i] = snapshot[tx[w].order][i]
    BY <1>1, <1>2, <2>1, <2>2 DEF ReserveCheck, Visible, SnapshotsLast, Row
  <2>4. HeldAt(i, tx[w].now)' <= HeldAt(i, tx[w].now)
        /\ HeldAt(i, tx[w].now)' \in Nat /\ HeldAt(i, tx[w].now) \in Nat
    <3>1. PICK n \in Nat : n = tx[w].now
      BY <2>1
    <3>2. HeldAt(i, n)' <= HeldAt(i, n) /\ HeldAt(i, n)' \in Nat /\ HeldAt(i, n) \in Nat
      BY <1>3, <3>1
    <3>3. HeldAt(i, tx[w].now)' = HeldAt(i, n)'
      BY <3>1 DEF HeldAt, HeldUnits, LiveAt
    <3> QED BY <3>1, <3>2, <3>3
  <2> QED BY <1>1, <1>4, <1>6, <2>1, <2>2, <2>3, <2>4 DEF RowCheck, ReserveCheck
<1>7. CASE tx[w].op = "ship"
  BY <1>1, <1>4, <1>7 DEF RowCheck, ShipCheck, Sufficient
<1>8. CASE tx[w].op \in {"adjust", "patch"}
  <2>1. tx[w].entry.onHand \in Nat /\ tx[w].entry.reserved \in Nat
    BY <1>8, RequestFields DEF TxInv, Entry
  <2>2. AdjustCheck(w, i) => AdjustCheck(w, i)'
    BY <1>1, <1>4, <1>5, <2>1 DEF AdjustCheck, KeepsHolds, Row
  <2>3. PatchCheck(w, i) => PatchCheck(w, i)'
    BY <1>1, <1>4, <1>5, <2>1 DEF PatchCheck, KeepsHolds, Row
  <2> QED BY <1>1, <1>8, <2>2, <2>3 DEF RowCheck
<1> QED BY <1>1, <1>6, <1>7, <1>8 DEF RowCheck

\* So does what it read without a lock.
LEMMA ReadLasts ==
    ASSUME TxInv, TypeOK', [TxNext]_txVars, NEW w \in Workers, tx'[w] = tx[w]
    PROVE  /\ tx[w].op = "reserve" =>
                /\ Lines(tx[w].order) # {} /\ StillRecent(tx[w].now)
                /\ \A b \in tx[w].old : /\ hold'[<<tx[w].order, b>>].status # "none"
                                        /\ hold'[<<tx[w].order, b>>].expires <= tx[w].now
           /\ tx[w].op = "ship" => hold'[tx[w].rsv].status = "consumed"
           /\ tx[w].op \in {"adjust", "patch"} => tx[w].entry \in Entries
           /\ tx[w].op \in {"released", "consumed"} =>
                /\ StillRecent(tx[w].now)
                /\ hold'[tx[w].rsv].status # "none" /\ hold'[tx[w].rsv].expires > tx[w].now
<1>1. ReservationsLast /\ clock' \in {clock, clock + 1} /\ clock \in Nat
  BY StepOfStock, StockLasts DEF TxInv, TypeOK
<1>2. tx[w].op \in {"reserve", "released", "consumed"} => StillRecent(tx[w].now)
  <2> SUFFICES ASSUME tx[w].op \in {"reserve", "released", "consumed"} PROVE StillRecent(tx[w].now)
    OBVIOUS
  <2>1. tx[w].now \in Nat /\ Recent(tx[w].now)
    BY RequestFields DEF TxInv, ReadsLast
  <2>2. clock' = clock \/ clock < tx[w].now + MaxLag
    BY DEF TxNext, Atomic, Archive, Create, CheckoutLine, Expire, Finish, Start, BeginReserve,
           BeginShip, BeginFinish, BeginEntry, Begin, Progress, LockRow, Reject, Rollback,
           CommitReserve, CommitShip, CommitEntry, CommitFinish, vars, txVars
  <2> QED BY <1>1, <2>1, <2>2 DEF Recent, StillRecent
<1>3. ASSUME tx[w].op = "reserve"
      PROVE  \A b \in tx[w].old : /\ hold'[<<tx[w].order, b>>].status # "none"
                                  /\ hold'[<<tx[w].order, b>>].expires <= tx[w].now
  <2>1. \A b \in tx[w].old : <<tx[w].order, b>> \in Reservations
    BY <1>3, RequestFields DEF TxInv, Reservations
  <2> QED BY <1>1, <1>3, <2>1 DEF ReservationsLast, TxInv, ReadsLast
<1>4. ASSUME tx[w].op \in {"ship", "released", "consumed"}
      PROVE  tx[w].rsv \in Reservations
  BY <1>4, RequestFields DEF TxInv
<1> QED BY <1>1, <1>2, <1>3, <1>4 DEF ReservationsLast, TxInv, ReadsLast

-----------------------------------------------------------------------------
(* The invariant of the transactions *)

LEMMA TxStart ==
    ASSUME TxInit
    PROVE  TxInv
<1>1. TypeOK
  BY DEF TxInit, Init, TypeOK, Row, Hold, ItemStatus, HoldStatus, Reservations
<1>2. TxTypes
  BY DEF TxInit, TxTypes, Request
<1> QED
  BY <1>1, <1>2 DEF TxInit, TxInv, LocksApart, ReadsLast, CheckedStaysTrue, Idle

\* A transaction that ends, begins or locks one more row leaves the others as they
\* are, and knows itself what it should.
LEMMA OneChanges ==
    ASSUME TxInv, TypeOK', [TxNext]_txVars, NEW w \in Workers, NEW t \in Request,
           tx' = [tx EXCEPT ![w] = t],
           LET ending == t = Idle
               beginning == t.got = {}
               locking == \E i \in Items :
                    /\ t = [tx[w] EXCEPT !.got = @ \cup {i}]
                    /\ i \in Rows(w) /\ Unlocked(i) /\ RowCheck(w, i) /\ UNCHANGED vars
           IN  ending \/ beginning \/ locking,
           t.op = "reserve" =>
             /\ Lines(t.order) # {} /\ StillRecent(t.now)
             /\ \A b \in t.old : /\ hold'[<<t.order, b>>].status # "none"
                                 /\ hold'[<<t.order, b>>].expires <= t.now,
           t.op = "ship" => hold'[t.rsv].status = "consumed",
           t.op \in {"adjust", "patch"} => t.entry \in Entries,
           t.op \in {"released", "consumed"} =>
             /\ StillRecent(t.now)
             /\ hold'[t.rsv].status # "none" /\ hold'[t.rsv].expires > t.now
    PROVE  TxInv'
<1>1. /\ TxTypes' /\ tx'[w] = t
      /\ \A v \in Workers \ {w} : tx'[v] = tx[v]
  BY DEF TxInv, TxTypes
<1>2. ReadsLast'
  <2>1. ASSUME NEW v \in Workers \ {w}, NEW u, u = tx[v]
        PROVE  /\ u.op = "reserve" =>
                    /\ Lines(u.order) # {} /\ StillRecent(u.now)
                    /\ \A b \in u.old : /\ hold'[<<u.order, b>>].status # "none"
                                        /\ hold'[<<u.order, b>>].expires <= u.now
               /\ u.op = "ship" => hold'[u.rsv].status = "consumed"
               /\ u.op \in {"adjust", "patch"} => u.entry \in Entries
               /\ u.op \in {"released", "consumed"} =>
                    /\ StillRecent(u.now)
                    /\ hold'[u.rsv].status # "none" /\ hold'[u.rsv].expires > u.now
    <3>1. tx'[v] = tx[v]
      BY <1>1
    <3> QED BY <2>1, <3>1, ReadLasts DEF Recent, StillRecent
  <2> QED BY <1>1, <2>1 DEF ReadsLast, Lines, Recent, StillRecent
<1>3. CASE t.got = {}
  <2>1. LocksApart'
    BY <1>1, <1>3 DEF TxInv, LocksApart, Rows, Lines
  <2>2. CheckedStaysTrue'
    BY <1>1, <1>3, CheckLasts DEF CheckedStaysTrue
  <2> QED BY <1>1, <1>2, <2>1, <2>2 DEF TxInv
<1>4. ASSUME NEW i \in Items, t = [tx[w] EXCEPT !.got = @ \cup {i}],
             i \in Rows(w), Unlocked(i), RowCheck(w, i), UNCHANGED vars
      PROVE  TxInv'
  <2>1. t.got = tx[w].got \cup {i} /\ \A v \in Workers : i \notin tx[v].got
    BY <1>4, RequestFields DEF TxInv, TxTypes, Unlocked, Request, Idle
  <2>2. LocksApart'
    BY <1>1, <1>4, <2>1 DEF TxInv, LocksApart, Rows, Lines
  <2>3. ASSUME NEW j \in t.got PROVE RowCheck(w, j)'
    <3>1. /\ t.op = tx[w].op
          /\ t.op = "reserve" => t.order = tx[w].order /\ t.now = tx[w].now
          /\ t.op = "ship" => t.rsv = tx[w].rsv
          /\ t.op \in {"adjust", "patch"} => t.seen = tx[w].seen /\ t.entry = tx[w].entry
      <4>1. tx[w] \in Request
        BY DEF TxInv, TxTypes
      <4> QED BY <1>4, <4>1 DEF Request, Idle
    <3>2. RowCheck(w, j)
      BY <1>4, <2>1, <2>3 DEF TxInv, CheckedStaysTrue
    <3>3. /\ Visible(j)' = Visible(j) /\ Available(j)' = Available(j) /\ Held(j)' = Held(j)
          /\ stock' = stock /\ snapshot' = snapshot
      BY <1>4 DEF vars, Visible, Available, Held, HeldAt, HeldUnits, LiveAt
    <3>4. tx[w].op = "reserve" => HeldAt(j, tx[w].now)' = HeldAt(j, tx[w].now)
      BY <1>1, <1>4, <3>1 DEF vars, HeldAt, HeldUnits, LiveAt
    <3>5. ReserveCheck(w, j) /\ t.op = "reserve" => ReserveCheck(w, j)'
      BY <1>1, <3>1, <3>3, <3>4 DEF ReserveCheck
    <3>6. ShipCheck(w, j) /\ t.op = "ship" => ShipCheck(w, j)'
      BY <1>1, <3>1, <3>3 DEF ShipCheck, Sufficient
    <3>7. /\ AdjustCheck(w, j) /\ t.op = "adjust" => AdjustCheck(w, j)'
          /\ PatchCheck(w, j) /\ t.op = "patch" => PatchCheck(w, j)'
      BY <1>1, <3>1, <3>3 DEF AdjustCheck, PatchCheck, KeepsHolds
    <3> QED BY <1>1, <3>1, <3>2, <3>5, <3>6, <3>7 DEF RowCheck
  <2>4. CheckedStaysTrue'
    BY <1>1, <2>3, CheckLasts DEF CheckedStaysTrue
  <2> QED BY <1>1, <1>2, <2>2, <2>4 DEF TxInv
<1> QED BY <1>3, <1>4 DEF Idle

LEMMA TxStep ==
    ASSUME TxInv, [TxNext]_txVars
    PROVE  TxInv'
<1>1. TypeOK'
  BY StepOfStock, TypeStep DEF TxInv
<1>2. ASSUME NEW w \in Workers, tx' = [tx EXCEPT ![w] = Idle]
      PROVE  TxInv'
  <2>1. Idle \in Request
    BY DEF Request
  <2> QED BY <1>1, <1>2, <2>1, OneChanges DEF Idle
<1>3. ASSUME NEW w \in Workers, Start(w) PROVE TxInv'
  <2>1. clock \in Nat /\ MaxLag \in Nat /\ (UNCHANGED vars => StillRecent(clock))
    BY DEF TxInv, TypeOK, Recent, StillRecent, vars
  <2>2. ASSUME NEW o \in Orders, NEW ttl \in 1..MaxTtl, BeginReserve(w, o, ttl)
        PROVE  TxInv'
    <3> DEFINE old == {b \in Attempts : hold[<<o, b>>].status = "active"}
               t == [op |-> "reserve", order |-> o, now |-> clock, ttl |-> ttl,
                     old |-> old, got |-> {}]
    <3>1. t \in Request
      BY <2>1 DEF Request
    <3>2. \A b \in old : hold[<<o, b>>].status # "none" /\ hold[<<o, b>>].expires <= clock
      BY <2>1, <2>2 DEF BeginReserve, Live, LiveAt, Reservations, TxInv, TypeOK, Hold
    <3>3. tx' = [tx EXCEPT ![w] = t] /\ UNCHANGED vars /\ Lines(o) # {}
      BY <2>2 DEF BeginReserve, Begin
    <3>4. \A b \in old : hold'[<<o, b>>].status # "none" /\ hold'[<<o, b>>].expires <= clock
      BY <3>2, <3>3 DEF vars
    <3> QED BY <1>1, <2>1, <3>1, <3>3, <3>4, OneChanges
  <2>3. ASSUME NEW r \in Reservations, BeginShip(w, r) PROVE TxInv'
    <3> DEFINE t == [op |-> "ship", rsv |-> r, got |-> {}]
    <3>1. t \in Request
      BY DEF Request
    <3>2. hold'[r].status = "consumed" /\ tx' = [tx EXCEPT ![w] = t]
      BY <2>3 DEF BeginShip, Begin, Dispatchable, vars
    <3> QED BY <1>1, <3>1, <3>2, OneChanges
  <2>4. ASSUME NEW i \in Items, NEW e \in Entries, NEW op \in {"adjust", "patch"},
               BeginEntry(w, op, i, e)
        PROVE  TxInv'
    <3> DEFINE t == [op |-> op, item |-> i, seen |-> stock[i].version, entry |-> e, got |-> {}]
    <3>1. t \in Request
      BY DEF Request, TxInv, TypeOK, Row
    <3>2. tx' = [tx EXCEPT ![w] = t]
      BY <2>4 DEF BeginEntry, Begin
    <3> QED BY <1>1, <3>1, <3>2, OneChanges
  <2>5. ASSUME NEW r \in Reservations, NEW op \in {"released", "consumed"}, BeginFinish(w, r, op)
        PROVE  TxInv'
    <3> DEFINE t == [op |-> op, rsv |-> r, now |-> clock, got |-> {}]
    <3>1. t \in Request
      BY <2>1 DEF Request
    <3>2. /\ tx' = [tx EXCEPT ![w] = t] /\ UNCHANGED vars
          /\ hold[r].status # "none" /\ hold[r].expires > clock
      BY <2>5 DEF BeginFinish, Begin, Live, LiveAt
    <3>3. hold'[r].status # "none" /\ hold'[r].expires > clock
      BY <3>2 DEF vars
    <3> QED BY <1>1, <2>1, <3>1, <3>2, <3>3, OneChanges
  <2> QED BY <1>3, <2>2, <2>3, <2>4, <2>5 DEF Start
<1>4. ASSUME NEW w \in Workers, NEW i \in Items, LockRow(w, i) PROVE TxInv'
  <2> DEFINE t == [tx[w] EXCEPT !.got = @ \cup {i}]
  <2>1. /\ tx' = [tx EXCEPT ![w] = t] /\ UNCHANGED vars
        /\ i \in Rows(w) /\ Unlocked(i) /\ RowCheck(w, i)
    BY <1>4 DEF LockRow, IsNext, TxInv, TxTypes
  <2>2. /\ t \in Request /\ t.op = tx[w].op
        /\ t.op = "reserve" => t.order = tx[w].order /\ t.now = tx[w].now /\ t.old = tx[w].old
        /\ t.op = "ship" => t.rsv = tx[w].rsv
        /\ t.op \in {"adjust", "patch"} => t.entry = tx[w].entry
        /\ t.op \in {"released", "consumed"} => t.rsv = tx[w].rsv /\ t.now = tx[w].now
    <3>1. tx[w] \in Request /\ tx[w].got \in SUBSET Items
      BY RequestFields DEF TxInv, TxTypes
    <3>2. tx[w].op # "idle"
      BY <2>1 DEF RowCheck
    <3> QED BY <3>1, <3>2 DEF Request, Idle
  <2>3. ReadsLast /\ hold' = hold /\ clock' = clock
    BY <2>1 DEF TxInv, vars
  <2> HIDE DEF t
  <2>4. /\ t.op = "reserve" =>
             /\ Lines(t.order) # {} /\ StillRecent(t.now)
             /\ \A b \in t.old : /\ hold'[<<t.order, b>>].status # "none"
                                 /\ hold'[<<t.order, b>>].expires <= t.now
        /\ t.op = "ship" => hold'[t.rsv].status = "consumed"
        /\ t.op \in {"adjust", "patch"} => t.entry \in Entries
        /\ t.op \in {"released", "consumed"} =>
             /\ StillRecent(t.now)
             /\ hold'[t.rsv].status # "none" /\ hold'[t.rsv].expires > t.now
    BY <2>2, <2>3 DEF ReadsLast, Recent, StillRecent
  <2> QED BY <1>1, <2>1, <2>2, <2>4, OneChanges DEF t
<1>5. ASSUME tx' = tx PROVE TxInv'
  <2>1. \A w \in Workers : tx'[w] = tx[w]
    BY <1>5
  <2>2. TxTypes' /\ LocksApart'
    BY <1>5 DEF TxInv, TxTypes, LocksApart, Rows, Lines
  <2>3. ReadsLast'
    BY <1>1, <1>5, ReadLasts DEF ReadsLast, Recent, StillRecent, Lines
  <2>4. CheckedStaysTrue'
    BY <1>1, <2>1, <1>5, CheckLasts DEF CheckedStaysTrue
  <2> QED BY <1>1, <2>2, <2>3, <2>4 DEF TxInv
<1>6. ASSUME NEW w \in Workers, Progress(w) \/ Rollback(w), ~ \E i \in Items : LockRow(w, i)
      PROVE  TxInv'
  BY <1>2, <1>6 DEF Progress, Rollback, Reject, CommitReserve, CommitShip, CommitEntry, CommitFinish,
                    Commit
<1> QED
  BY <1>3, <1>4, <1>5, <1>6 DEF TxNext, Atomic, Progress, txVars

LEMMA TxInvariant == TxSpec => []TxInv
<1>1. TxInit => TxInv
  BY TxStart
<1>2. TxInv /\ [TxNext]_txVars => TxInv'
  BY TxStep
<1> QED BY <1>1, <1>2, PTL DEF TxSpec

\* What a transaction verified about a row under its lock is true until the
\* transaction ends, whatever the others and the clock do meanwhile.
THEOREM CheckedStaysTrueHolds == TxSpec => []CheckedStaysTrue
<1>1. TxInv => CheckedStaysTrue
  BY DEF TxInv
<1> QED BY <1>1, TxInvariant, PTL

\* The transactions implement the atomic requests of Stock: initial states are
\* initial there, and every step is one request or changes nothing committed.
THEOREM TransactionsImplementStock == TxSpec => ImplementsStock
<1>1. TxInit => Init
  BY DEF TxInit
<1>2. TxInv /\ [TxNext]_txVars => [Next]_vars
  BY StepOfStock
<1> QED BY <1>1, <1>2, TxInvariant, PTL DEF TxSpec, Spec, ImplementsStock

-----------------------------------------------------------------------------
(***************************************************************************)
(* The way of a paid order to its customer, for any orders, reservations   *)
(* and concurrent requests.  A shipment's version tells its status but for *)
(* one case, a shipped and a cancelled shipment; what a request has read   *)
(* therefore still holds when it writes.                                   *)
(***************************************************************************)
USE FulfilmentAssumption

Versioned == {"pack", "cancel", "deliver", "ship", "taking"}

HandlingWork ==
    [op : {"none"}]
    \cup [op : {"book"}, booking : Bookings, lapsed : SUBSET Bookings]
    \cup [op : {"finish"}, booking : Bookings, status : {"consumed", "released"}]
    \cup [op : {"create"}, order : Purchases]
    \cup [op : Versioned, order : Purchases, version : Nat]

FulfilmentTypes ==
    /\ FulfilmentTypeOK
    /\ handling \in [Handlings -> HandlingWork]

\* The version every status of a shipment comes with.
VersionOf(status) ==
    CASE status = "none" -> 0
      [] status = "ready_for_fulfillment" -> 2
      [] status = "packed" -> 3
      [] status \in {"shipped", "cancelled"} -> 4
      [] status = "delivered" -> 6
VersionsTell == \A o \in Purchases : parcel[o].version = VersionOf(parcel[o].status)

Sent(o) == parcel[o].status \in {"shipped", "delivered"}
Backed(o) == purchase[o].paid /\ \E b \in BookingsOf(o) : booking[b] = "consumed"

\* What a request has read, and what it has told the carrier, lasts.
HandlingKnows ==
    \A h \in Handlings :
        LET o == handling[h].order IN
        /\ Serving(h, "create") => Backed(o)
        /\ Serving(h, "pack") => handling[h].version = 2 /\ "label" \in carrier[o]
        /\ Serving(h, "cancel") => handling[h].version = 3
        /\ Serving(h, "ship") => handling[h].version = 3
        /\ Serving(h, "taking") => handling[h].version = 3 /\ "manifest" \in carrier[o]
        /\ Serving(h, "deliver") => handling[h].version = 4 /\ Sent(o)

\* One request at a time holds the item, and it has found a unit there.
ShelfLocked ==
    \A h \in Handlings : Serving(h, "taking") =>
        /\ shelf.onHand >= 1
        /\ \A q \in Handlings : Serving(q, "taking") => q = h

FulfilmentInv ==
    /\ FulfilmentTypes /\ VersionsTell /\ HandlingKnows /\ ShelfLocked
    /\ LeavesOnce /\ ShipmentBacked

LEMMA FulfilmentStart ==
    ASSUME FulfilmentInit
    PROVE  FulfilmentInv
<1>1. FulfilmentTypes
    BY DEF FulfilmentInit, FulfilmentTypes, FulfilmentTypeOK, HandlingWork, NotHandling,
           BookingStatus, ParcelStatus, NoParcel
<1>2. VersionsTell /\ LeavesOnce /\ ShipmentBacked
    BY DEF FulfilmentInit, VersionsTell, VersionOf, LeavesOnce, ShipmentBacked, NoParcel
<1>3. HandlingKnows /\ ShelfLocked
    BY DEF FulfilmentInit, HandlingKnows, ShelfLocked, Serving, NotHandling
<1> QED
    BY <1>1, <1>2, <1>3 DEF FulfilmentInv

-----------------------------------------------------------------------------
(* What lasts: payments, consumed reservations, and what the carrier knows.  *)

Lasting ==
    /\ \A o \in Purchases : /\ purchase[o].paid => purchase'[o].paid
                            /\ carrier[o] \subseteq carrier'[o]
                            /\ Sent(o) => Sent(o)'
    /\ \A b \in Bookings : booking[b] = "consumed" => booking'[b] = "consumed"

LEMMA BackedLasts ==
    ASSUME FulfilmentTypes, Lasting, NEW o \in Purchases, Backed(o)
    PROVE  Backed(o)'
BY DEF Lasting, Backed, BookingsOf

\* What a request has read is still so, and the carrier has not forgotten it.
LEMMA KnowledgeOfOne ==
    ASSUME FulfilmentInv, Lasting, NEW q \in Handlings
    PROVE  /\ Serving(q, "create") \/ handling[q].op \in Versioned => handling[q].order \in Purchases
           /\ \A o \in Purchases : o = handling[q].order =>
                /\ Serving(q, "create") => Backed(o)'
                /\ Serving(q, "pack") => handling[q].version = 2 /\ "label" \in carrier'[o]
                /\ Serving(q, "cancel") => handling[q].version = 3
                /\ Serving(q, "ship") => handling[q].version = 3
                /\ Serving(q, "taking") => handling[q].version = 3 /\ "manifest" \in carrier'[o]
                /\ Serving(q, "deliver") => handling[q].version = 4 /\ Sent(o)'
<1>1. Serving(q, "create") \/ handling[q].op \in Versioned => handling[q].order \in Purchases
    BY DEF FulfilmentInv, FulfilmentTypes, HandlingWork, Serving, Versioned
<1> QED
    BY <1>1, BackedLasts DEF FulfilmentInv, HandlingKnows, Lasting

\* A request that ends, or starts knowing what it must, leaves the others be.
LEMMA KnowledgeLasts ==
    ASSUME FulfilmentInv, Lasting, NEW h \in Handlings, NEW work \in HandlingWork,
           handling' = [handling EXCEPT ![h] = work],
           \/ work.op \in {"none", "book", "finish"}
           \/ work.op = "create" /\ Backed(work.order)'
           \/ work.op = "pack" /\ work.version = 2 /\ "label" \in carrier'[work.order]
           \/ work.op \in {"cancel", "ship"} /\ work.version = 3
           \/ work.op = "taking" /\ work.version = 3 /\ "manifest" \in carrier'[work.order]
           \/ work.op = "deliver" /\ work.version = 4 /\ Sent(work.order)'
    PROVE  handling' \in [Handlings -> HandlingWork] /\ HandlingKnows'
<1>1. /\ handling' \in [Handlings -> HandlingWork] /\ handling'[h] = work
      /\ \A q \in Handlings \ {h} : handling'[q] = handling[q]
    BY DEF FulfilmentInv, FulfilmentTypes
<1>2. HandlingKnows'
  <2>1. ASSUME NEW q \in Handlings \ {h}, handling'[q].op \in Versioned \cup {"create"}
        PROVE  handling'[q] = handling[q] /\ handling[q].order \in Purchases
      BY <1>1, <2>1, KnowledgeOfOne DEF Serving
  <2> QED
      BY <1>1, <2>1, KnowledgeOfOne DEF HandlingKnows, Serving, Versioned
<1> QED
    BY <1>1, <1>2

LEMMA LockLasts ==
    ASSUME FulfilmentInv, NEW h \in Handlings, NEW work \in HandlingWork,
           handling' = [handling EXCEPT ![h] = work],
           \/ work.op # "taking" /\ (shelf' = shelf \/ Serving(h, "taking"))
           \/ ~ItemLocked /\ shelf.onHand >= 1 /\ shelf' = shelf
    PROVE  ShelfLocked'
<1>1. handling'[h] = work /\ \A q \in Handlings \ {h} : handling'[q] = handling[q]
    BY DEF FulfilmentInv, FulfilmentTypes
<1> QED
    BY <1>1 DEF FulfilmentInv, ShelfLocked, Serving, ItemLocked

LEMMA EndingLasts ==
    ASSUME FulfilmentInv, Lasting, NEW h \in Handlings, Handled(h)
    PROVE  /\ handling' \in [Handlings -> HandlingWork] /\ HandlingKnows'
           /\ shelf' = shelf \/ Serving(h, "taking") => ShelfLocked'
<1>1. NotHandling \in HandlingWork /\ NotHandling.op = "none"
    BY DEF NotHandling, HandlingWork
<1>2. handling' = [handling EXCEPT ![h] = NotHandling]
    BY DEF Handled
<1>3. shelf' = shelf \/ Serving(h, "taking") => ShelfLocked'
    BY <1>1, <1>2, LockLasts
<1> QED
    BY <1>1, <1>2, <1>3, KnowledgeLasts

LEMMA NobodyLearns ==
    ASSUME FulfilmentInv, Lasting, handling' = handling
    PROVE  /\ handling' \in [Handlings -> HandlingWork] /\ HandlingKnows'
           /\ shelf' = shelf => ShelfLocked'
<1>1. handling' \in [Handlings -> HandlingWork]
    BY DEF FulfilmentInv, FulfilmentTypes
<1>2. HandlingKnows'
    BY KnowledgeOfOne DEF HandlingKnows, Serving, Versioned
<1>3. shelf' = shelf => ShelfLocked'
    BY DEF FulfilmentInv, ShelfLocked, Serving
<1> QED
    BY <1>1, <1>2, <1>3

\* Where no shipment is written, what the properties say of them stays.
LEMMA ParcelsStay ==
    ASSUME FulfilmentInv, Lasting, parcel' = parcel, taken' = taken
    PROVE  VersionsTell' /\ LeavesOnce' /\ ShipmentBacked'
<1>1. VersionsTell' /\ LeavesOnce'
    BY DEF FulfilmentInv, VersionsTell, LeavesOnce
<1>2. ASSUME NEW o \in Purchases
      PROVE  /\ parcel'[o] # NoParcel => Backed(o)'
             /\ parcel'[o].status \in {"packed", "shipped", "delivered"} => "label" \in carrier'[o]
             /\ parcel'[o].status \in {"shipped", "delivered"} => "manifest" \in carrier'[o]
    BY <1>2, BackedLasts DEF FulfilmentInv, ShipmentBacked, Backed, Lasting
<1>3. ShipmentBacked'
    BY <1>2 DEF ShipmentBacked, Backed, BookingsOf
<1> QED
    BY <1>1, <1>3

-----------------------------------------------------------------------------
(* Orders, shelf and reservations: no shipment is written.                   *)

LEMMA OrdersStep ==
    ASSUME FulfilmentInv, NEW o \in Purchases,
           Pay(o) \/ ConfirmPurchase(o) \/ CancelPurchase(o)
    PROVE  FulfilmentInv'
<1>1. /\ purchase' \in [Purchases -> [status : {"pending", "confirmed", "cancelled"}, paid : BOOLEAN]]
      /\ \A p \in Purchases : purchase[p].paid => purchase'[p].paid
      /\ UNCHANGED <<booking, parcel, shelf, taken, carrier, handling>>
  <2>1. purchase \in [Purchases -> [status : {"pending", "confirmed", "cancelled"}, paid : BOOLEAN]]
      BY DEF FulfilmentInv, FulfilmentTypes, FulfilmentTypeOK
  <2>2. CASE Pay(o)
      BY <2>1, <2>2 DEF Pay
  <2>3. ASSUME NEW s \in {"confirmed", "cancelled"}, purchase' = [purchase EXCEPT ![o].status = s]
        PROVE  /\ purchase' \in [Purchases -> [status : {"pending", "confirmed", "cancelled"}, paid : BOOLEAN]]
               /\ \A p \in Purchases : purchase[p].paid => purchase'[p].paid
      BY <2>1, <2>3
  <2> QED
      BY <2>2, <2>3 DEF ConfirmPurchase, CancelPurchase, Pay
<1>2. Lasting
    BY <1>1 DEF Lasting, Sent
<1>3. handling' \in [Handlings -> HandlingWork] /\ HandlingKnows' /\ ShelfLocked'
    BY <1>1, <1>2, NobodyLearns
<1>4. FulfilmentTypes'
    BY <1>1, <1>3 DEF FulfilmentInv, FulfilmentTypes, FulfilmentTypeOK
<1> QED
    BY <1>1, <1>2, <1>3, <1>4, ParcelsStay DEF FulfilmentInv

LEMMA RestockStep ==
    ASSUME FulfilmentInv, Restock
    PROVE  FulfilmentInv'
<1>1. /\ shelf' \in [onHand : Nat, version : Nat]
      /\ UNCHANGED <<purchase, booking, parcel, taken, carrier, handling>>
    BY DEF FulfilmentInv, FulfilmentTypes, FulfilmentTypeOK, Restock
<1>2. Lasting
    BY <1>1 DEF Lasting, Sent
<1>3. handling' \in [Handlings -> HandlingWork] /\ HandlingKnows'
    BY <1>1, <1>2, NobodyLearns
<1>4. FulfilmentTypes'
    BY <1>1, <1>3 DEF FulfilmentInv, FulfilmentTypes, FulfilmentTypeOK
<1>5. ShelfLocked'
    BY DEF Restock, ItemLocked, ShelfLocked, Serving
<1> QED
    BY <1>1, <1>2, <1>3, <1>4, <1>5, ParcelsStay DEF FulfilmentInv

LEMMA LapseStep ==
    ASSUME FulfilmentInv, NEW b \in Bookings, Lapse(b) \/ ExpireBooking(b)
    PROVE  FulfilmentInv'
<1>1. /\ booking' \in [Bookings -> BookingStatus]
      /\ \A c \in Bookings : booking[c] = "consumed" => booking'[c] = "consumed"
      /\ UNCHANGED <<purchase, parcel, shelf, taken, carrier, handling>>
    BY DEF FulfilmentInv, FulfilmentTypes, FulfilmentTypeOK, Lapse, ExpireBooking, BookingStatus
<1>2. Lasting
    BY <1>1 DEF Lasting, Sent
<1>3. handling' \in [Handlings -> HandlingWork] /\ HandlingKnows' /\ ShelfLocked'
    BY <1>1, <1>2, NobodyLearns
<1>4. FulfilmentTypes'
    BY <1>1, <1>3 DEF FulfilmentInv, FulfilmentTypes, FulfilmentTypeOK
<1> QED
    BY <1>1, <1>2, <1>3, <1>4, ParcelsStay DEF FulfilmentInv

LEMMA BookStep ==
    ASSUME FulfilmentInv, NEW h \in Handlings, Book(h) \/ FinishBooking(h)
    PROVE  FulfilmentInv'
<1>1. handling[h] \in HandlingWork
    BY DEF FulfilmentInv, FulfilmentTypes
<1>2. /\ booking' \in [Bookings -> BookingStatus]
      /\ \A c \in Bookings : booking[c] = "consumed" => booking'[c] = "consumed"
  <2>1. CASE Book(h)
    <3>1. handling[h].lapsed \in SUBSET Bookings
        BY <1>1, <2>1 DEF Book, Serving, HandlingWork, Versioned
    <3> QED
        BY <2>1, <3>1 DEF FulfilmentInv, FulfilmentTypes, FulfilmentTypeOK, Book, ActiveRow, BookingStatus
  <2>2. CASE FinishBooking(h)
    <3>1. handling[h].booking \in Bookings /\ handling[h].status \in {"consumed", "released"}
        BY <1>1, <2>2 DEF FinishBooking, Serving, HandlingWork, Versioned
    <3> QED
        BY <2>2, <3>1 DEF FulfilmentInv, FulfilmentTypes, FulfilmentTypeOK, FinishBooking, ActiveRow,
                          BookingStatus
  <2> QED
      BY <2>1, <2>2
<1>3. UNCHANGED <<purchase, parcel, shelf, taken, carrier>> /\ Handled(h)
    BY DEF Book, FinishBooking
<1>4. Lasting
    BY <1>2, <1>3 DEF Lasting, Sent
<1>5. handling' \in [Handlings -> HandlingWork] /\ HandlingKnows' /\ ShelfLocked'
    BY <1>3, <1>4, EndingLasts
<1>6. FulfilmentTypes'
    BY <1>2, <1>3, <1>5 DEF FulfilmentInv, FulfilmentTypes, FulfilmentTypeOK
<1> QED
    BY <1>3, <1>4, <1>5, <1>6, ParcelsStay DEF FulfilmentInv

-----------------------------------------------------------------------------
(* Requests that begin, and give up.                                         *)

\* A request that starts tells the carrier at most, and knows what it needs.
Starts(h, work) ==
    /\ work \in HandlingWork
    /\ handling' = [handling EXCEPT ![h] = work]
    /\ carrier' \in [Purchases -> SUBSET {"label", "void", "manifest"}]
    /\ \A o \in Purchases : carrier[o] \subseteq carrier'[o]
    /\ UNCHANGED <<purchase, booking, parcel, shelf, taken>>
    /\ work.op = "taking" => ~ItemLocked /\ shelf.onHand >= 1
    /\ \/ work.op \in {"none", "book", "finish"}
       \/ work.op = "create" /\ Backed(work.order)
       \/ work.op = "pack" /\ work.version = 2 /\ "label" \in carrier'[work.order]
       \/ work.op \in {"cancel", "ship"} /\ work.version = 3
       \/ work.op = "taking" /\ work.version = 3 /\ "manifest" \in carrier'[work.order]
       \/ work.op = "deliver" /\ work.version = 4 /\ Sent(work.order)

LEMMA StartsKeeps ==
    ASSUME FulfilmentInv, NEW h \in Handlings, NEW work, Starts(h, work)
    PROVE  FulfilmentInv'
<1>1. Lasting
    BY DEF Starts, Lasting, Sent
<1>2. /\ work.op = "create" /\ Backed(work.order) => Backed(work.order)'
      /\ Sent(work.order) => Sent(work.order)'
    BY DEF Starts, Backed, Sent, BookingsOf
<1>3. handling' \in [Handlings -> HandlingWork] /\ HandlingKnows'
    BY <1>1, <1>2, KnowledgeLasts DEF Starts
<1>4. FulfilmentTypes'
    BY <1>3 DEF FulfilmentInv, FulfilmentTypes, FulfilmentTypeOK, Starts
<1>5. VersionsTell' /\ LeavesOnce' /\ ShipmentBacked'
    BY <1>1, ParcelsStay DEF Starts
<1>6. ShelfLocked'
    BY LockLasts DEF Starts
<1> QED
    BY <1>3, <1>4, <1>5, <1>6 DEF FulfilmentInv

LEMMA BeginBookingStep ==
    ASSUME FulfilmentInv, NEW h \in Handlings, NEW b \in Bookings,
           \/ BeginBook(h, b) \/ BeginShipment(h, b)
           \/ \E s \in {"consumed", "released"} : BeginFinishBooking(h, b, s)
    PROVE  FulfilmentInv'
<1>1. carrier \in [Purchases -> SUBSET {"label", "void", "manifest"}]
    BY DEF FulfilmentInv, FulfilmentTypes, FulfilmentTypeOK
<1>2. CASE BeginBook(h, b)
  <2> DEFINE work == [op |-> "book", booking |-> b,
                      lapsed |-> {c \in BookingsOf(b[1]) : booking[c] = "overdue"}]
  <2>1. {c \in BookingsOf(b[1]) : booking[c] = "overdue"} \in SUBSET Bookings
      BY DEF BookingsOf
  <2>2. work \in HandlingWork
      BY <2>1 DEF HandlingWork
  <2>3. Starts(h, work)
      BY <1>1, <1>2, <2>2 DEF BeginBook, Handle, Starts
  <2> QED
      BY <2>3, StartsKeeps
<1>3. CASE BeginShipment(h, b)
  <2> DEFINE work == [op |-> "create", order |-> b[1]]
  <2>1. work \in HandlingWork
      BY DEF HandlingWork
  <2>2. Backed(b[1])
      BY <1>3 DEF BeginShipment, PaidAndConfirmed, Backed, BookingsOf
  <2>3. Starts(h, work)
      BY <1>1, <1>3, <2>1, <2>2 DEF BeginShipment, Handle, Starts
  <2> QED
      BY <2>3, StartsKeeps
<1>4. ASSUME NEW s \in {"consumed", "released"}, BeginFinishBooking(h, b, s)
      PROVE  FulfilmentInv'
  <2> DEFINE work == [op |-> "finish", booking |-> b, status |-> s]
  <2>1. work \in HandlingWork
      BY DEF HandlingWork
  <2>2. Starts(h, work)
      BY <1>1, <1>4, <2>1 DEF BeginFinishBooking, Handle, Starts
  <2> QED
      BY <2>2, StartsKeeps
<1> QED
    BY <1>2, <1>3, <1>4

LEMMA BeginParcelStep ==
    ASSUME FulfilmentInv, NEW h \in Handlings, NEW o \in Purchases,
           BeginPack(h, o) \/ BeginCancelShipment(h, o) \/ BeginDeliver(h, o) \/ BeginDispatch(h, o)
    PROVE  FulfilmentInv'
<1>1. /\ carrier \in [Purchases -> SUBSET {"label", "void", "manifest"}]
      /\ parcel[o].version = VersionOf(parcel[o].status)
    BY DEF FulfilmentInv, FulfilmentTypes, FulfilmentTypeOK, VersionsTell
<1>2. ASSUME NEW what \in {"label", "void"}, Tell(o, what)
      PROVE  /\ carrier' \in [Purchases -> SUBSET {"label", "void", "manifest"}]
             /\ \A p \in Purchases : carrier[p] \subseteq carrier'[p]
             /\ what \in carrier'[o]
    BY <1>1, <1>2 DEF Tell
<1>3. CASE BeginPack(h, o)
  <2>1. [op |-> "pack", order |-> o, version |-> 2] \in HandlingWork
      BY DEF HandlingWork, Versioned
  <2>2. parcel[o].version = 2
      BY <1>1, <1>3 DEF BeginPack, VersionOf
  <2>3. Starts(h, [op |-> "pack", order |-> o, version |-> 2])
      BY <1>2, <1>3, <2>1, <2>2 DEF BeginPack, Handle, Starts
  <2> QED
      BY <2>3, StartsKeeps
<1>4. CASE BeginCancelShipment(h, o)
  <2>1. [op |-> "cancel", order |-> o, version |-> 3] \in HandlingWork
      BY DEF HandlingWork, Versioned
  <2>2. parcel[o].version = 3
      BY <1>1, <1>4 DEF BeginCancelShipment, VersionOf
  <2>3. Starts(h, [op |-> "cancel", order |-> o, version |-> 3])
      BY <1>2, <1>4, <2>1, <2>2 DEF BeginCancelShipment, Handle, Starts
  <2> QED
      BY <2>3, StartsKeeps
<1>5. CASE BeginDeliver(h, o)
  <2>1. [op |-> "deliver", order |-> o, version |-> 4] \in HandlingWork
      BY DEF HandlingWork, Versioned
  <2>2. parcel[o].version = 4 /\ Sent(o)
      BY <1>1, <1>5 DEF BeginDeliver, VersionOf, Sent
  <2>3. Starts(h, [op |-> "deliver", order |-> o, version |-> 4])
      BY <1>1, <1>5, <2>1, <2>2 DEF BeginDeliver, Handle, Starts
  <2> QED
      BY <2>3, StartsKeeps
<1>6. CASE BeginDispatch(h, o)
  <2>1. [op |-> "ship", order |-> o, version |-> 3] \in HandlingWork
      BY DEF HandlingWork, Versioned
  <2>2. parcel[o].version = 3
      BY <1>1, <1>6 DEF BeginDispatch, VersionOf
  <2>3. Starts(h, [op |-> "ship", order |-> o, version |-> 3])
      BY <1>1, <1>6, <2>1, <2>2 DEF BeginDispatch, Handle, Starts
  <2> QED
      BY <2>3, StartsKeeps
<1> QED
    BY <1>3, <1>4, <1>5, <1>6

LEMMA TakeUnitsStep ==
    ASSUME FulfilmentInv, NEW h \in Handlings, TakeUnits(h)
    PROVE  FulfilmentInv'
<1>1. Serving(h, "ship") /\ handling[h] \in HandlingWork
    BY DEF TakeUnits, FulfilmentInv, FulfilmentTypes
<1>2. PICK o \in Purchases : handling[h] = [op |-> "ship", order |-> o, version |-> 3]
  <2>1. handling[h] \in [op : Versioned, order : Purchases, version : Nat]
      BY <1>1 DEF HandlingWork, Serving
  <2>2. handling[h].version = 3
      BY <1>1 DEF FulfilmentInv, HandlingKnows
  <2> QED
      BY <1>1, <2>1, <2>2 DEF Serving
<1>3. /\ [handling[h] EXCEPT !.op = "taking"] = [op |-> "taking", order |-> o, version |-> 3]
      /\ [op |-> "taking", order |-> o, version |-> 3] \in HandlingWork
    BY <1>2 DEF HandlingWork, Versioned
<1>4. handling' = [handling EXCEPT ![h] = [op |-> "taking", order |-> o, version |-> 3]]
    BY <1>2, <1>3 DEF TakeUnits, FulfilmentInv, FulfilmentTypes
<1>5. /\ carrier' \in [Purchases -> SUBSET {"label", "void", "manifest"}]
      /\ \A p \in Purchases : carrier[p] \subseteq carrier'[p]
      /\ "manifest" \in carrier'[o]
    BY <1>2 DEF TakeUnits, Tell, FulfilmentInv, FulfilmentTypes, FulfilmentTypeOK
<1>6. Starts(h, [op |-> "taking", order |-> o, version |-> 3])
    BY <1>3, <1>4, <1>5 DEF Starts, TakeUnits
<1> QED
    BY <1>6, StartsKeeps

LEMMA AbandonHandlingStep ==
    ASSUME FulfilmentInv, NEW h \in Handlings, AbandonHandling(h)
    PROVE  FulfilmentInv'
<1>1. NotHandling \in HandlingWork /\ NotHandling.op = "none"
    BY DEF NotHandling, HandlingWork
<1>2. Starts(h, NotHandling)
    BY <1>1 DEF AbandonHandling, Handled, Starts, FulfilmentInv, FulfilmentTypes, FulfilmentTypeOK
<1> QED
    BY <1>2, StartsKeeps

-----------------------------------------------------------------------------
(* Shipments written.                                                        *)

\* One shipment gets a new status and the version that comes with it; its units
\* leave the shelf if it is sent, and the carrier knows what it has to.
Writes(h, o, status) ==
    /\ parcel' = [parcel EXCEPT ![o] = [status |-> status, version |-> VersionOf(status)]]
    /\ taken' = [taken EXCEPT ![o] = IF status \in {"shipped", "delivered"} THEN 1 ELSE 0]
    /\ Sent(o) => status \in {"shipped", "delivered"}
    /\ Backed(o)
    /\ status \in {"packed", "shipped", "delivered"} => "label" \in carrier[o]
    /\ status \in {"shipped", "delivered"} => "manifest" \in carrier[o]
    /\ Handled(h)
    /\ shelf' \in [onHand : Nat, version : Nat]
    /\ shelf' = shelf \/ Serving(h, "taking")
    /\ UNCHANGED <<purchase, booking, carrier>>

LEMMA WritesKeeps ==
    ASSUME FulfilmentInv, NEW h \in Handlings, NEW o \in Purchases,
           NEW status \in ParcelStatus \ {"none"}, Writes(h, o, status)
    PROVE  FulfilmentInv'
<1>1. /\ parcel' \in [Purchases -> [status : ParcelStatus, version : Nat]]
      /\ parcel'[o] = [status |-> status, version |-> VersionOf(status)]
      /\ \A p \in Purchases \ {o} : parcel'[p] = parcel[p]
  <2>1. VersionOf(status) \in Nat
      BY DEF VersionOf, ParcelStatus
  <2> QED
      BY <2>1 DEF FulfilmentInv, FulfilmentTypes, FulfilmentTypeOK, Writes
<1>2. /\ taken' \in [Purchases -> Nat]
      /\ taken'[o] = IF status \in {"shipped", "delivered"} THEN 1 ELSE 0
      /\ \A p \in Purchases \ {o} : taken'[p] = taken[p]
    BY DEF FulfilmentInv, FulfilmentTypes, FulfilmentTypeOK, Writes
<1>3. Lasting
    BY <1>1 DEF Writes, Lasting, Sent
<1>4. handling' \in [Handlings -> HandlingWork] /\ HandlingKnows' /\ ShelfLocked'
    BY <1>3, EndingLasts DEF Writes
<1>5. FulfilmentTypes'
    BY <1>1, <1>2, <1>4 DEF FulfilmentInv, FulfilmentTypes, FulfilmentTypeOK, Writes
<1>6. VersionsTell' /\ LeavesOnce'
    BY <1>1, <1>2 DEF FulfilmentInv, VersionsTell, LeavesOnce
<1>7. ShipmentBacked'
  <2>1. ASSUME NEW p \in Purchases
        PROVE  /\ parcel'[p] # NoParcel => purchase[p].paid /\ \E b \in BookingsOf(p) : booking[b] = "consumed"
               /\ parcel'[p].status \in {"packed", "shipped", "delivered"} => "label" \in carrier[p]
               /\ parcel'[p].status \in {"shipped", "delivered"} => "manifest" \in carrier[p]
    <3>1. CASE p = o
        BY <1>1, <3>1 DEF Writes, Backed
    <3>2. CASE p # o
        BY <1>1, <3>2 DEF FulfilmentInv, ShipmentBacked
    <3> QED
        BY <3>1, <3>2
  <2> QED
      BY <2>1 DEF ShipmentBacked, BookingsOf, Writes
<1> QED
    BY <1>4, <1>5, <1>6, <1>7 DEF FulfilmentInv

\* The version a request has read is the version of one status.
LEMMA VersionRead ==
    ASSUME FulfilmentInv, NEW o \in Purchases
    PROVE  /\ parcel[o].version = 2 => parcel[o].status = "ready_for_fulfillment"
           /\ parcel[o].version = 3 => parcel[o].status = "packed"
           /\ parcel[o].version = 4 => parcel[o].status \in {"shipped", "cancelled"}
           /\ parcel[o].status # "none" => Backed(o)
<1>1. parcel[o].status \in ParcelStatus /\ parcel[o].version = VersionOf(parcel[o].status)
    BY DEF FulfilmentInv, FulfilmentTypes, FulfilmentTypeOK, VersionsTell
<1>2. parcel[o].status # "none" => Backed(o)
    BY DEF FulfilmentInv, ShipmentBacked, Backed, NoParcel
<1> QED
    BY <1>1, <1>2 DEF VersionOf, ParcelStatus

LEMMA CreateShipmentStep ==
    ASSUME FulfilmentInv, NEW h \in Handlings, CreateShipment(h)
    PROVE  FulfilmentInv'
<1>1. PICK o \in Purchases : handling[h].order = o /\ Backed(o)
  <2>1. handling[h] \in HandlingWork
      BY DEF FulfilmentInv, FulfilmentTypes
  <2> QED
      BY <2>1 DEF CreateShipment, Serving, HandlingWork, Versioned, FulfilmentInv, HandlingKnows
<1>2. taken[o] = 0 /\ taken \in [Purchases -> Nat] /\ parcel[o].status = "none"
  <2>1. parcel[o].status = "none"
      BY <1>1 DEF CreateShipment, NoParcel
  <2>2. taken \in [Purchases -> Nat]
      BY DEF FulfilmentInv, FulfilmentTypes, FulfilmentTypeOK
  <2> QED
      BY <2>1, <2>2 DEF FulfilmentInv, LeavesOnce
<1>3. Writes(h, o, "ready_for_fulfillment")
    BY <1>1, <1>2 DEF CreateShipment, Writes, VersionOf, Sent, FulfilmentInv, FulfilmentTypes,
                      FulfilmentTypeOK
<1> QED
    BY <1>3, WritesKeeps DEF ParcelStatus

LEMMA AdvanceStep ==
    ASSUME FulfilmentInv, NEW h \in Handlings,
           Pack(h) \/ CancelShipment(h) \/ Deliver(h) \/ Ship(h)
    PROVE  FulfilmentInv'
<1>1. PICK o \in Purchases : handling[h].order = o
  <2>1. handling[h] \in HandlingWork
      BY DEF FulfilmentInv, FulfilmentTypes
  <2> QED
      BY <2>1 DEF Pack, CancelShipment, Deliver, Ship, Serving, HandlingWork, Versioned
<1>2. /\ taken \in [Purchases -> Nat] /\ shelf \in [onHand : Nat, version : Nat]
      /\ parcel \in [Purchases -> [status : ParcelStatus, version : Nat]]
      /\ taken[o] = IF parcel[o].status \in {"shipped", "delivered"} THEN 1 ELSE 0
      /\ parcel[o].status \in {"packed", "shipped", "delivered"} => "label" \in carrier[o]
      /\ parcel[o].status \in {"shipped", "delivered"} => "manifest" \in carrier[o]
    BY DEF FulfilmentInv, LeavesOnce, ShipmentBacked, FulfilmentTypes, FulfilmentTypeOK
<1>3. CASE Pack(h)
  <2>1. parcel[o].version = 2 /\ "label" \in carrier[o]
      BY <1>1, <1>3 DEF Pack, Advance, StillAsRead, FulfilmentInv, HandlingKnows
  <2>2. parcel[o].status = "ready_for_fulfillment" /\ Backed(o)
      BY <2>1, VersionRead
  <2>3. Writes(h, o, "packed")
      BY <1>1, <1>2, <1>3, <2>1, <2>2 DEF Pack, Advance, Writes, VersionOf, Sent
  <2> QED
      BY <2>3, WritesKeeps DEF ParcelStatus
<1>4. CASE CancelShipment(h)
  <2>1. parcel[o].version = 3
      BY <1>1, <1>4 DEF CancelShipment, Advance, StillAsRead, FulfilmentInv, HandlingKnows
  <2>2. parcel[o].status = "packed" /\ Backed(o)
      BY <2>1, VersionRead
  <2>3. Writes(h, o, "cancelled")
      BY <1>1, <1>2, <1>4, <2>1, <2>2 DEF CancelShipment, Advance, Writes, VersionOf, Sent
  <2> QED
      BY <2>3, WritesKeeps DEF ParcelStatus
<1>5. CASE Deliver(h)
  <2>1. parcel[o].version = 4 /\ Sent(o)
      BY <1>1, <1>5 DEF Deliver, Advance, StillAsRead, FulfilmentInv, HandlingKnows
  <2>2. parcel[o].status = "shipped" /\ Backed(o)
      BY <2>1, VersionRead DEF Sent
  <2>3. Writes(h, o, "delivered")
      BY <1>1, <1>2, <1>5, <2>1, <2>2 DEF Deliver, Advance, Writes, VersionOf, Sent
  <2> QED
      BY <2>3, WritesKeeps DEF ParcelStatus
<1>6. CASE Ship(h)
  <2>1. parcel[o].version = 3 /\ "manifest" \in carrier[o]
      BY <1>1, <1>6 DEF Ship, Advance, StillAsRead, FulfilmentInv, HandlingKnows
  <2>2. parcel[o].status = "packed" /\ Backed(o)
      BY <2>1, VersionRead
  <2>3. shelf.onHand >= 1
      BY <1>6 DEF Ship, FulfilmentInv, ShelfLocked
  <2>4. shelf' \in [onHand : Nat, version : Nat]
      BY <1>2, <1>6, <2>3 DEF Ship
  <2>5. Writes(h, o, "shipped")
      BY <1>1, <1>2, <1>6, <2>1, <2>2, <2>4 DEF Ship, Advance, Writes, VersionOf, Sent
  <2> QED
      BY <2>5, WritesKeeps DEF ParcelStatus
<1> QED
    BY <1>3, <1>4, <1>5, <1>6

-----------------------------------------------------------------------------
LEMMA FulfilmentStep ==
    FulfilmentInv /\ [FulfilmentNext]_fulfilmentVars => FulfilmentInv'
<1> SUFFICES ASSUME FulfilmentInv, [FulfilmentNext]_fulfilmentVars
             PROVE  FulfilmentInv'
    OBVIOUS
<1>1. CASE UNCHANGED fulfilmentVars
  <2>1. FulfilmentTypes' /\ VersionsTell' /\ LeavesOnce' /\ ShipmentBacked'
      BY <1>1 DEF fulfilmentVars, FulfilmentInv, FulfilmentTypes, FulfilmentTypeOK, VersionsTell,
                  LeavesOnce, ShipmentBacked
  <2>2. HandlingKnows' /\ ShelfLocked'
      BY <1>1 DEF fulfilmentVars, FulfilmentInv, HandlingKnows, ShelfLocked, Serving, Backed, Sent
  <2> QED
      BY <2>1, <2>2 DEF FulfilmentInv
<1>2. CASE \E o \in Purchases : Pay(o) \/ ConfirmPurchase(o) \/ CancelPurchase(o)
    BY <1>2, OrdersStep
<1>3. CASE Restock
    BY <1>3, RestockStep
<1>4. CASE \E b \in Bookings : Lapse(b) \/ ExpireBooking(b)
    BY <1>4, LapseStep
<1>5. ASSUME NEW h \in Handlings,
             \/ \E b \in Bookings :
                  \/ BeginBook(h, b) \/ BeginShipment(h, b)
                  \/ \E s \in {"consumed", "released"} : BeginFinishBooking(h, b, s)
             \/ \E o \in Purchases :
                  BeginPack(h, o) \/ BeginCancelShipment(h, o) \/ BeginDeliver(h, o) \/ BeginDispatch(h, o)
      PROVE  FulfilmentInv'
    BY <1>5, BeginBookingStep, BeginParcelStep
<1>6. ASSUME NEW h \in Handlings,
             \/ Book(h) \/ FinishBooking(h) \/ CreateShipment(h) \/ Pack(h) \/ CancelShipment(h)
             \/ Deliver(h) \/ TakeUnits(h) \/ Ship(h) \/ AbandonHandling(h)
      PROVE  FulfilmentInv'
    BY <1>6, BookStep, CreateShipmentStep, AdvanceStep, TakeUnitsStep, AbandonHandlingStep
<1> QED
    BY <1>1, <1>2, <1>3, <1>4, <1>5, <1>6 DEF FulfilmentNext

LEMMA FulfilmentInvariant == FulfilmentSpec => []FulfilmentInv
<1>1. FulfilmentInit => FulfilmentInv
    BY FulfilmentStart
<1> QED
    BY <1>1, FulfilmentStep, PTL DEF FulfilmentSpec

(* The units of an order leave the shelf exactly when its shipment does, for
   any orders, reservations and requests: dispatching a shipment twice at once
   takes its units once, since a shipment's version tells what the request that
   holds the item has read of it (ShipmentService, consume_reservation). *)
THEOREM LeavesOnceHolds == FulfilmentSpec => []LeavesOnce
<1>1. FulfilmentInv => LeavesOnce
    BY DEF FulfilmentInv
<1> QED
    BY <1>1, FulfilmentInvariant, PTL

(* Payment, consumed reservation, label and manifest stand behind every
   shipment, although four requests write them and may roll back. *)
THEOREM ShipmentBackedHolds == FulfilmentSpec => []ShipmentBacked
<1>1. FulfilmentInv => ShipmentBacked
    BY DEF FulfilmentInv
<1> QED
    BY <1>1, FulfilmentInvariant, PTL
=============================================================================

------------------------------- MODULE StockTx -------------------------------
(***************************************************************************)
(* The database transactions behind Stock.  Workers serve one request at a *)
(* time; a request reads without locking, then locks the inventory rows it *)
(* needs one by one in identifier order (SELECT ... FOR UPDATE), checks    *)
(* each row under its lock, and commits all its writes at once.  Between   *)
(* any two of its steps other requests commit, time passes, or the request *)
(* is rolled back.  The variables of Stock hold the committed state.       *)
(***************************************************************************)
EXTENDS Stock

CONSTANTS
    Workers,   \* concurrent requests
    Rank       \* Rank[i]: position of item i in the order of identifiers

ASSUME RankAssumption ==
    /\ Rank \in [Items -> Nat]
    /\ \A i, j \in Items : Rank[i] = Rank[j] => i = j

VARIABLE tx    \* the transaction of each worker

txVars == <<stock, ledger, snapshot, hold, shipped, clock, tx>>

Idle == [op |-> "idle", got |-> {}]
Request ==
    {Idle}
    \cup [op : {"reserve"}, order : Orders, now : Nat, ttl : 1..MaxTtl,
          old : SUBSET Attempts, got : SUBSET Items]
    \cup [op : {"ship"}, rsv : Reservations, got : SUBSET Items]
    \cup [op : {"adjust", "patch"}, item : Items, seen : Nat, entry : Entry,
          got : SUBSET Items]
    \cup [op : {"released", "consumed"}, rsv : Reservations, now : Nat,
          got : SUBSET Items]

TxTypeOK == TypeOK /\ tx \in [Workers -> Request]

-----------------------------------------------------------------------------

\* The inventory rows a request locks.
Rows(w) ==
    CASE tx[w].op = "reserve" -> Lines(tx[w].order)
      [] tx[w].op = "ship" -> Lines(tx[w].rsv[1])
      [] tx[w].op \in {"adjust", "patch"} -> {tx[w].item}
      [] OTHER -> {}

\* The next row of a request, in identifier order.
IsNext(w, i) ==
    /\ i \in Rows(w) \ tx[w].got
    /\ \A j \in Rows(w) \ tx[w].got : Rank[i] <= Rank[j]

WithoutRowLock(i) == TRUE
Unlocked(i) == \A w \in Workers : i \notin tx[w].got

\* What each request verifies about a row it has just locked.
ReserveCheck(w, i) ==
    /\ Visible(i)
    /\ stock[i].status = "active"
    /\ stock[i].version = snapshot[tx[w].order][i]
    /\ Available(i) - HeldAt(i, tx[w].now) >= Demand[tx[w].order][i]

ShipCheck(w, i) ==
    /\ Visible(i)
    /\ stock[i].status = "active"
    /\ Sufficient(i, Demand[tx[w].rsv[1]][i])

AdjustCheck(w, i) ==
    /\ Visible(i)
    /\ stock[i].version = tx[w].seen
    /\ stock[i].status # "discontinued"
    /\ tx[w].entry.onHand >= stock[i].reserved
    /\ KeepsHolds(i, tx[w].entry.onHand, stock[i].reserved)

PatchCheck(w, i) ==
    LET e == tx[w].entry IN
    /\ Visible(i)
    /\ stock[i].version = tx[w].seen
    /\ e.reserved <= e.onHand
    /\ \/ e.onHand = stock[i].onHand /\ e.reserved = stock[i].reserved
       \/ KeepsHolds(i, e.onHand, e.reserved)

RowCheck(w, i) ==
    \/ tx[w].op = "reserve" /\ ReserveCheck(w, i)
    \/ tx[w].op = "ship" /\ ShipCheck(w, i)
    \/ tx[w].op = "adjust" /\ AdjustCheck(w, i)
    \/ tx[w].op = "patch" /\ PatchCheck(w, i)

\* What the database or a version check still verifies when it commits: the
\* partial unique index on active reservations and the version of the expired
\* one, the version of the shipment, the version of the reservation.
WithoutIndex(w) == TRUE
ReserveCommits(w) ==
    {b \in Attempts : hold[<<tx[w].order, b>>].status = "active"} = tx[w].old

WithoutShipmentVersion(w) == TRUE
ShipCommits(w) == tx[w].rsv[1] \notin shipped

WithoutReservationVersion(w) == TRUE
FinishCommits(w) == hold[tx[w].rsv].status = "active"

Commits(w) ==
    \/ tx[w].op = "reserve" /\ ReserveCommits(w)
    \/ tx[w].op = "ship" /\ ShipCommits(w)
    \/ tx[w].op \in {"released", "consumed"} /\ FinishCommits(w)
    \/ tx[w].op \in {"adjust", "patch"}

-----------------------------------------------------------------------------

TxInit == Init /\ tx = [w \in Workers |-> Idle]

Begin(w, request) ==
    /\ tx[w] = Idle
    /\ tx' = [tx EXCEPT ![w] = request]
    /\ UNCHANGED vars

\* The request reads the order's active reservation; an overdue one will be
\* expired by the same transaction.
BeginReserve(w, o, ttl) ==
    LET old == {b \in Attempts : hold[<<o, b>>].status = "active"} IN
    /\ Lines(o) # {}
    /\ \A b \in old : ~Live(<<o, b>>)
    /\ Begin(w, [op |-> "reserve", order |-> o, now |-> clock, ttl |-> ttl,
                 old |-> old, got |-> {}])

BeginShip(w, r) ==
    /\ Dispatchable(r)
    /\ Begin(w, [op |-> "ship", rsv |-> r, got |-> {}])

\* An operator submits new quantities with the version of the row it saw.
BeginEntry(w, op, i, e) ==
    /\ Visible(i)
    /\ Begin(w, [op |-> op, item |-> i, seen |-> stock[i].version,
                 entry |-> e, got |-> {}])

BeginFinish(w, r, op) ==
    /\ Live(r)
    /\ Begin(w, [op |-> op, rsv |-> r, now |-> clock, got |-> {}])

LockRow(w, i) ==
    /\ IsNext(w, i)
    /\ Unlocked(i)
    /\ RowCheck(w, i)
    /\ tx' = [tx EXCEPT ![w].got = @ \cup {i}]
    /\ UNCHANGED vars

\* A failed check answers 409 or 404 and rolls the transaction back.
Reject(w) ==
    /\ tx[w] # Idle
    /\ \/ \E i \in Items : IsNext(w, i) /\ Unlocked(i) /\ ~RowCheck(w, i)
       \/ Rows(w) = tx[w].got /\ ~Commits(w)
    /\ tx' = [tx EXCEPT ![w] = Idle]
    /\ UNCHANGED vars

\* A crash, a lost connection or the deadlock detector ends a transaction.
Rollback(w) ==
    /\ tx[w] # Idle
    /\ tx' = [tx EXCEPT ![w] = Idle]
    /\ UNCHANGED vars

\* Writes of the transaction become visible and its locks are released.
Commit(w) ==
    /\ tx[w] # Idle
    /\ Rows(w) = tx[w].got
    /\ Commits(w)
    /\ tx' = [tx EXCEPT ![w] = Idle]

CommitReserve(w, a) ==
    LET o == tx[w].order IN
    /\ tx[w].op = "reserve"
    /\ Commit(w)
    /\ hold[<<o, a>>].status = "none"
    /\ hold' = [r \in Reservations |->
            IF r = <<o, a>>
            THEN [status |-> "active", expires |-> tx[w].now + tx[w].ttl]
            ELSE IF r[1] = o THEN Expired(r) ELSE hold[r]]
    /\ UNCHANGED <<stock, ledger, snapshot, shipped, clock>>

CommitShip(w) ==
    LET o == tx[w].rsv[1] IN
    /\ tx[w].op = "ship"
    /\ Commit(w)
    /\ \A i \in Lines(o) : stock[i].version < MaxVersion
    /\ stock' = [i \in Items |->
            IF i \in Lines(o)
            THEN [stock[i] EXCEPT !.onHand = @ - Demand[o][i], !.version = @ + 1]
            ELSE stock[i]]
    /\ ledger' = [i \in Items |-> ledger[i] - Demand[o][i]]
    /\ shipped' = shipped \cup {o}
    /\ UNCHANGED <<snapshot, hold, clock>>

CommitEntry(w) ==
    LET i == tx[w].item
        e == tx[w].entry IN
    /\ Commit(w)
    /\ \/ tx[w].op = "adjust" /\ Rewrite(i, Counted(i, e.onHand))
       \/ tx[w].op = "patch" /\ Rewrite(i, Entered(i, e))
    /\ ledger' = [ledger EXCEPT ![i] = @ + Delta(i, e.onHand)]
    /\ UNCHANGED <<snapshot, hold, shipped, clock>>

CommitFinish(w) ==
    /\ tx[w].op \in {"released", "consumed"}
    /\ Commit(w)
    /\ Finish(tx[w].rsv, tx[w].op)

\* Requests of a single read or a single statement, and the clock.  A row that
\* a transaction has locked cannot be archived under it, and no request lasts
\* longer than MaxLag.
Atomic ==
    /\ \/ \E i \in Items :
             \/ Unlocked(i) /\ Archive(i)
             \/ \E e \in Entries : Create(i, e)
             \/ \E o \in Orders : CheckoutLine(o, i)
       \/ \E r \in Reservations : Expire(r)
       \/ /\ \A w \in Workers : tx[w].op \in {"reserve", "released", "consumed"}
                                  => clock < tx[w].now + MaxLag
          /\ Tick
    /\ UNCHANGED tx

Start(w) ==
    \/ \E o \in Orders, t \in 1..MaxTtl : BeginReserve(w, o, t)
    \/ \E r \in Reservations :
          BeginShip(w, r) \/ \E op \in {"released", "consumed"} : BeginFinish(w, r, op)
    \/ \E i \in Items, e \in Entries, op \in {"adjust", "patch"} :
          BeginEntry(w, op, i, e)

Progress(w) ==
    \/ \E i \in Items : LockRow(w, i)
    \/ Reject(w)
    \/ \E a \in Attempts : CommitReserve(w, a)
    \/ CommitShip(w) \/ CommitEntry(w) \/ CommitFinish(w)

TxNext == Atomic \/ \E w \in Workers : Start(w) \/ Progress(w) \/ Rollback(w)

TxSpec == TxInit /\ [][TxNext]_txVars

-----------------------------------------------------------------------------
(* Properties *)

\* Every commit is one atomic step of Stock: the unlocked reads, the locks
\* taken row by row and the checks made before the commit leave no room for
\* a lost update, a double dispatch or a hold granted twice.
ImplementsStock == Spec

\* What a transaction verified about a row when it locked it stays true until
\* it ends, although releases, expiries, checkouts and other transactions
\* commit meanwhile.
CheckedStaysTrue ==
    \A w \in Workers : \A i \in tx[w].got : RowCheck(w, i)
=============================================================================

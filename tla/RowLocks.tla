------------------------------ MODULE RowLocks ------------------------------
(***************************************************************************)
(* The row locks the requests of a store take, in the order they take them *)
(* and until their transaction ends.  SELECT ... FOR UPDATE locks a row    *)
(* for update; the insertion of a row that refers to it by a foreign key   *)
(* locks it with KEY SHARE.  The two conflict, KEY SHARE with itself does  *)
(* not.  Only inventory rows and the row of their store are shared by      *)
(* requests of different users.                                            *)
(***************************************************************************)
EXTENDS Integers, FiniteSets, SequencesExt

CONSTANTS
    Requests,  \* concurrent requests
    Items,    \* inventory rows
    Store,    \* the row of their store
    Rank,     \* Rank[i]: position of item i in the order of identifiers
    Kinds     \* the kinds of requests that arrive

ASSUME RowsAssumption == Store \notin Items /\ IsFiniteSet(Items)

ASSUME RankAssumption ==
    /\ Rank \in [Items -> Nat]
    /\ \A i, j \in Items : Rank[i] = Rank[j] => i = j

ASSUME KindsAssumption == Kinds \subseteq {"reserve", "ship", "count", "order", "import", "return"}

VARIABLES
    script,  \* the locks the request of each worker takes, in order
    got      \* how many of them it holds

lockVars == <<script, got>>

-----------------------------------------------------------------------------

ForUpdate(r) == [row |-> r, mode |-> "update"]
KeyShare(r) == [row |-> r, mode |-> "key_share"]
Conflicts(a, b) == a.row = b.row /\ "update" \in {a.mode, b.mode}

Baskets == SUBSET Items \ {{}}
Listings == UNION {SetToSeqs(b) : b \in Baskets}

\* The order of identifiers, and the order in which a request names its lines.
InOrder(l) == \A j, k \in DOMAIN l : j < k => Rank[l[j]] < Rank[l[k]]
AsListed(l) == TRUE

\* One lock for each line and then the store; two locks for each line.
Lines(l, last) == [k \in 1..(Len(l) + 1) |-> IF k <= Len(l) THEN ForUpdate(l[k]) ELSE last]
Pairs(l, second) ==
    [k \in 1..(2 * Len(l)) |-> IF k % 2 = 1 THEN ForUpdate(l[(k + 1) \div 2]) ELSE second]

\* A reservation locks its lines in identifier order, then inserts a row that
\* refers to the store.
ReserveOrder(l) == InOrder(l)
ReserveScript(l) == Lines(l, KeyShare(Store))

\* A dispatch locks its lines in identifier order; the movement inserted for
\* each refers to the store.
ShipOrder(l) == InOrder(l)
ShipScript(l) == Pairs(l, KeyShare(Store))

\* A patch, a count or an archival reads the item joined with its store, FOR
\* UPDATE of both rows.
CountLocks(i) == <<ForUpdate(i), ForUpdate(Store)>>

\* A checkout session or an order is inserted with a reference to the store,
\* then its lines, in the order of the cart, with a reference to their items.
OrderScript(l) == <<KeyShare(Store)>> \o [k \in DOMAIN l |-> KeyShare(l[k])]

\* An import counts the items of its rows one after the other, in the order of
\* the file.
ImportScript(l) == Pairs(l, ForUpdate(Store))

\* A return locks the items of its lines in the order they are requested, then
\* inserts a row that refers to the store.
ReturnScript(l) == Lines(l, KeyShare(Store))

Scripts(kind) ==
    CASE kind = "reserve" -> {ReserveScript(l) : l \in {m \in Listings : ReserveOrder(m)}}
      [] kind = "ship" -> {ShipScript(l) : l \in {m \in Listings : ShipOrder(m)}}
      [] kind = "count" -> {CountLocks(i) : i \in Items}
      [] kind = "order" -> {OrderScript(l) : l \in Listings}
      [] kind = "import" -> {ImportScript(l) : l \in Listings}
      [] kind = "return" -> {ReturnScript(l) : l \in Listings}

Arriving == UNION {Scripts(kind) : kind \in Kinds}

-----------------------------------------------------------------------------

Serving(w) == script[w] # <<>>
Complete(w) == got[w] = Len(script[w])

\* Worker w waits for a row that worker v holds in a conflicting mode.
WaitsFor(w, v) ==
    /\ v # w
    /\ ~Complete(w)
    /\ \E k \in 1..got[v] : Conflicts(script[w][got[w] + 1], script[v][k])

\* Workers that wait for one another: none of them can go on.
Stuck(S) == \A w \in S : \E v \in S : WaitsFor(w, v)

LocksInit ==
    /\ script = [w \in Requests |-> <<>>]
    /\ got = [w \in Requests |-> 0]

Begin(w, s) ==
    /\ ~Serving(w)
    /\ script' = [script EXCEPT ![w] = s]
    /\ UNCHANGED got

Lock(w) ==
    /\ Serving(w)
    /\ ~Complete(w)
    /\ \A v \in Requests : ~WaitsFor(w, v)
    /\ got' = [got EXCEPT ![w] = @ + 1]
    /\ UNCHANGED script

End(w) ==
    /\ script' = [script EXCEPT ![w] = <<>>]
    /\ got' = [got EXCEPT ![w] = 0]

Finish(w) == Serving(w) /\ Complete(w) /\ End(w)

\* The database ends one of the transactions that wait for one another; the
\* request answers 500 and is not retried.
Victim(w) ==
    /\ \E S \in SUBSET Requests : w \in S /\ Stuck(S)
    /\ End(w)

LocksNext ==
    \E w \in Requests :
        \/ \E s \in Arriving : Begin(w, s)
        \/ Lock(w) \/ Finish(w) \/ Victim(w)

LocksSpec == LocksInit /\ [][LocksNext]_lockVars

-----------------------------------------------------------------------------
(* Properties *)

\* The lock table: every worker holds a prefix of its script, and no two hold
\* conflicting locks.
LocksOK ==
    /\ script \in [Requests -> Arriving \cup {<<>>}]
    /\ \A w \in Requests : got[w] \in 0..Len(script[w])
    /\ \A v, w \in Requests : \A j \in 1..got[v], k \in 1..got[w] :
          v # w => ~Conflicts(script[v][j], script[w][k])

\* Reservations and dispatches, which lock in identifier order, never wait for
\* one another in a circle, whatever else runs beside them.
OrderedNeverDeadlock ==
    \A S \in SUBSET Requests :
        S # {} /\ (\A w \in S : script[w] \in Scripts("reserve") \cup Scripts("ship"))
            => ~Stuck(S)
=============================================================================

--------------------------- MODULE Workers_proofs ---------------------------
(***************************************************************************)
(* The two subjects of the workers run, for every value of the constants.  *)
(*                                                                         *)
(* Row locks: among reservations and dispatches the holder of a row that   *)
(* is waited for waits for a row of a higher rank, and there are finitely  *)
(* many rows.                                                              *)
(*                                                                         *)
(* Outbox: an event is claimed by at most one worker and nobody settles it *)
(* meanwhile, so what its worker works on are the committed rows.          *)
(***************************************************************************)
EXTENDS RowLocks, Notifications, FiniteSetTheorems, WellFoundedInduction, TLAPS

-----------------------------------------------------------------------------
(* Row locks.  Whoever waits among reservations and dispatches waits for   *)
(* an item, and its holder in turn for an item of a higher rank.           *)

\* A listing is an enumeration of some items.
LEMMA ListingIsSequence ==
    ASSUME NEW l \in Listings
    PROVE  /\ l \in Seq(Items) /\ Len(l) \in Nat /\ DOMAIN l = 1..Len(l)
           /\ \A k \in 1..Len(l) : l[k] \in Items
<1>1. PICK b \in Baskets : l \in SetToSeqs(b) BY DEF Listings
<1>2. IsFiniteSet(b) /\ b \subseteq Items BY RowsAssumption, FS_Subset DEF Baskets
<1>3. Cardinality(b) \in Nat BY <1>2, FS_CardinalityType
<1>4. l \in [1..Cardinality(b) -> b] BY <1>1 DEF SetToSeqs
<1>5. l \in Seq(Items) BY <1>2, <1>3, <1>4
<1>6. QED BY <1>5

Ascends(s) ==
    \A k \in DOMAIN s :
        \/ s[k] = KeyShare(Store)
        \/ /\ s[k].mode = "update" /\ s[k].row \in Items
           /\ \A j \in DOMAIN s : j < k /\ s[j] # KeyShare(Store) => Rank[s[j].row] < Rank[s[k].row]

LEMMA ReserveAscends ==
    ASSUME NEW l \in Listings, InOrder(l)
    PROVE  Ascends(ReserveScript(l)) /\ DOMAIN ReserveScript(l) = 1..Len(ReserveScript(l)) /\ Len(ReserveScript(l)) \in Nat
<1>1. /\ l \in Seq(Items) /\ Len(l) \in Nat /\ DOMAIN l = 1..Len(l)
      /\ \A k \in 1..Len(l) : l[k] \in Items
  BY ListingIsSequence
<1>2. ReserveScript(l) = [k \in 1..(Len(l) + 1) |-> IF k <= Len(l) THEN ForUpdate(l[k]) ELSE KeyShare(Store)]
  BY DEF ReserveScript, Lines
<1>3. ASSUME NEW k \in 1..(Len(l) + 1), k <= Len(l)
      PROVE  /\ ReserveScript(l)[k].mode = "update" /\ ReserveScript(l)[k].row = l[k] /\ l[k] \in Items
             /\ ReserveScript(l)[k] = ForUpdate(l[k])
  BY <1>1, <1>2, <1>3 DEF ForUpdate
<1>4. Ascends(ReserveScript(l))
  <2>1. ASSUME NEW k \in 1..(Len(l) + 1), k <= Len(l),
               NEW j \in 1..(Len(l) + 1), j < k
        PROVE  Rank[ReserveScript(l)[j].row] < Rank[ReserveScript(l)[k].row]
    BY <1>1, <1>3, <2>1 DEF InOrder
  <2>2. DOMAIN ReserveScript(l) = 1..(Len(l) + 1) BY <1>2
  <2>3. ASSUME NEW k \in 1..(Len(l) + 1), ~(k <= Len(l)) PROVE ReserveScript(l)[k] = KeyShare(Store)
    BY <1>2, <2>3
  <2>4. QED BY <1>1, <1>3, <2>1, <2>2, <2>3 DEF Ascends
<1>5. ReserveScript(l) \in Seq({ForUpdate(i) : i \in Items} \cup {KeyShare(Store)})
  BY <1>1, <1>2
<1>6. QED BY <1>4, <1>5

LEMMA ShipAscends ==
    ASSUME NEW l \in Listings, InOrder(l)
    PROVE  Ascends(ShipScript(l)) /\ DOMAIN ShipScript(l) = 1..Len(ShipScript(l)) /\ Len(ShipScript(l)) \in Nat
<1>1. /\ l \in Seq(Items) /\ Len(l) \in Nat /\ DOMAIN l = 1..Len(l)
      /\ \A k \in 1..Len(l) : l[k] \in Items
  BY ListingIsSequence
<1>2. ShipScript(l) = [k \in 1..(2 * Len(l)) |->
                         IF k % 2 = 1 THEN ForUpdate(l[(k + 1) \div 2]) ELSE KeyShare(Store)]
  BY DEF ShipScript, Pairs
<1>3. ASSUME NEW k \in 1..(2 * Len(l)), k % 2 = 1
      PROVE  /\ (k + 1) \div 2 \in 1..Len(l)
             /\ ShipScript(l)[k].mode = "update" /\ ShipScript(l)[k].row = l[(k + 1) \div 2]
             /\ l[(k + 1) \div 2] \in Items
  <2>1. (k + 1) \div 2 \in 1..Len(l) BY <1>1, <1>3
  <2>2. ShipScript(l)[k] = ForUpdate(l[(k + 1) \div 2]) BY <1>2, <1>3
  <2>3. QED BY <1>1, <2>1, <2>2 DEF ForUpdate
<1>4. ASSUME NEW k \in 1..(2 * Len(l)), ~(k % 2 = 1) PROVE ShipScript(l)[k] = KeyShare(Store)
  BY <1>2, <1>4
<1>5. ASSUME NEW k \in 1..(2 * Len(l)), k % 2 = 1,
             NEW j \in 1..(2 * Len(l)), j % 2 = 1, j < k
      PROVE  Rank[ShipScript(l)[j].row] < Rank[ShipScript(l)[k].row]
  <2>1. (j + 1) \div 2 < (k + 1) \div 2 BY <1>1, <1>5
  <2>2. QED BY <1>1, <1>3, <1>5, <2>1 DEF InOrder
<1>6. DOMAIN ShipScript(l) = 1..(2 * Len(l)) BY <1>2
<1>7. Ascends(ShipScript(l)) BY <1>3, <1>4, <1>5, <1>6 DEF Ascends
<1>8. ShipScript(l) \in Seq({ForUpdate(i) : i \in Items} \cup {KeyShare(Store)})
  <2>1. \A k \in 1..(2 * Len(l)) : ShipScript(l)[k] \in {ForUpdate(i) : i \in Items} \cup {KeyShare(Store)}
    BY <1>2, <1>3, <1>4
  <2>2. QED BY <1>1, <1>2, <2>1
<1>9. QED BY <1>7, <1>8

LEMMA OrderedAscend ==
    ASSUME NEW s \in Scripts("reserve") \cup Scripts("ship")
    PROVE  Ascends(s) /\ DOMAIN s = 1..Len(s) /\ Len(s) \in Nat
BY ReserveAscends, ShipAscends DEF Scripts, ReserveOrder, ShipOrder

\* A worker holds at most the locks of its script.
LocksTyped ==
    /\ got \in [Requests -> Nat] /\ DOMAIN script = Requests
    /\ \A w \in Requests : got[w] <= Len(script[w])

LEMMA LocksTypedHolds == LocksSpec => []LocksTyped
<1>1. LocksInit => LocksTyped BY DEF LocksInit, LocksTyped
<1>2. ASSUME LocksTyped, [LocksNext]_lockVars PROVE LocksTyped'
  <2>1. CASE UNCHANGED lockVars BY <1>2, <2>1 DEF LocksTyped, lockVars
  <2>2. ASSUME NEW w \in Requests, NEW s \in Arriving, Begin(w, s) PROVE LocksTyped'
    <3>1. got[w] = 0 BY <1>2, <2>2 DEF LocksTyped, Begin, Serving
    <3>2. QED BY <1>2, <2>2, <3>1 DEF LocksTyped, Begin
  <2>3. ASSUME NEW w \in Requests, Lock(w) PROVE LocksTyped'
    BY <1>2, <2>3 DEF LocksTyped, Lock, Complete
  <2>4. ASSUME NEW w \in Requests, End(w) PROVE LocksTyped'
    BY <1>2, <2>4 DEF LocksTyped, End
  <2>5. QED BY <1>2, <2>1, <2>2, <2>3, <2>4 DEF LocksNext, Finish, Victim
<1>3. QED BY <1>1, <1>2, PTL DEF LocksSpec

\* The lock a request of several takes next, and the items above it.
Wants(w) == script[w][got[w] + 1]
Above(w) == {j \in Items : Rank[j] > Rank[Wants(w).row]}

\* Among requests that lock in identifier order, the holder of a row that is
\* waited for waits for a row above it.
LEMMA HolderWaitsAbove ==
    ASSUME LocksTyped, NEW S \in SUBSET Requests, Stuck(S),
           \A w \in S : script[w] \in Scripts("reserve") \cup Scripts("ship"),
           NEW w \in S
    PROVE  \E v \in S : /\ Wants(w).row \in Items /\ Wants(v).row \in Items
                        /\ Rank[Wants(w).row] < Rank[Wants(v).row]
<1>1. PICK v \in S : WaitsFor(w, v) BY DEF Stuck
<1>2. PICK u \in S : WaitsFor(v, u) BY DEF Stuck
<1>3. PICK k \in 1..got[v] : Conflicts(Wants(w), script[v][k]) BY <1>1 DEF WaitsFor, Wants
<1>4. PICK m \in 1..got[u] : Conflicts(Wants(v), script[u][m]) BY <1>2 DEF WaitsFor, Wants
<1>5. /\ Ascends(script[w]) /\ DOMAIN script[w] = 1..Len(script[w])
      /\ Ascends(script[v]) /\ DOMAIN script[v] = 1..Len(script[v])
      /\ Ascends(script[u]) /\ DOMAIN script[u] = 1..Len(script[u])
  BY OrderedAscend
<1>6. /\ got[w] \in Nat /\ got[w] <= Len(script[w]) /\ got[w] # Len(script[w])
      /\ got[v] \in Nat /\ got[v] <= Len(script[v]) /\ got[v] # Len(script[v])
      /\ got[u] \in Nat /\ got[u] <= Len(script[u])
  BY <1>1, <1>2 DEF LocksTyped, WaitsFor, Complete
<1>7. Len(script[w]) \in Nat /\ Len(script[v]) \in Nat /\ Len(script[u]) \in Nat
  BY OrderedAscend
<1>8. /\ got[w] + 1 \in DOMAIN script[w] /\ got[v] + 1 \in DOMAIN script[v]
      /\ k \in DOMAIN script[v] /\ m \in DOMAIN script[u] /\ k < got[v] + 1
  BY <1>5, <1>6, <1>7
<1>9. /\ Wants(w) = KeyShare(Store) \/ (Wants(w).mode = "update" /\ Wants(w).row \in Items)
      /\ Wants(v) = KeyShare(Store) \/ (Wants(v).mode = "update" /\ Wants(v).row \in Items)
      /\ script[v][k] = KeyShare(Store) \/ (script[v][k].mode = "update" /\ script[v][k].row \in Items)
      /\ script[u][m] = KeyShare(Store) \/ (script[u][m].mode = "update" /\ script[u][m].row \in Items)
  BY <1>5, <1>8 DEF Ascends, Wants
<1>10. KeyShare(Store).row = Store /\ KeyShare(Store).mode = "key_share" /\ Store \notin Items
  BY RowsAssumption DEF KeyShare
<1>11. /\ Wants(w).row \in Items /\ script[v][k] # KeyShare(Store) /\ script[v][k].row = Wants(w).row
  BY <1>3, <1>9, <1>10 DEF Conflicts
<1>12. Wants(v).row \in Items /\ Wants(v) # KeyShare(Store)
  BY <1>4, <1>9, <1>10 DEF Conflicts
<1>13. Rank[script[v][k].row] < Rank[Wants(v).row]
  BY <1>5, <1>8, <1>11, <1>12 DEF Ascends, Wants
<1>14. QED BY <1>11, <1>12, <1>13

\* An order cannot ascend for ever among finitely many items.
LEMMA NoCircleAmongOrdered ==
    ASSUME LocksTyped, NEW S \in SUBSET Requests, S # {}, Stuck(S),
           \A w \in S : script[w] \in Scripts("reserve") \cup Scripts("ship")
    PROVE  FALSE
<1> DEFINE Sizes == {n \in Nat : \E w \in S : n = Cardinality(Above(w))}
<1>1. ASSUME NEW w \in S
      PROVE  IsFiniteSet(Above(w)) /\ Cardinality(Above(w)) \in Nat
  <2>1. Above(w) \in SUBSET Items BY DEF Above
  <2>2. IsFiniteSet(Above(w)) BY <2>1, RowsAssumption, FS_Subset
  <2>3. QED BY <2>2, FS_CardinalityType
<1>2. Sizes # {} /\ Sizes \subseteq Nat BY <1>1
<1>3. ASSUME NEW n \in Sizes PROVE \E m \in Sizes : m < n
  <2>1. PICK w \in S : n = Cardinality(Above(w)) OBVIOUS
  <2>2. PICK v \in S : /\ Wants(w).row \in Items /\ Wants(v).row \in Items
                       /\ Rank[Wants(w).row] < Rank[Wants(v).row]
    BY HolderWaitsAbove
  <2>3. Rank[Wants(w).row] \in Nat /\ Rank[Wants(v).row] \in Nat /\ \A j \in Items : Rank[j] \in Nat
    BY <2>2, RankAssumption
  <2>4. Above(v) \in SUBSET Above(w) BY <2>2, <2>3 DEF Above
  <2>5. Wants(v).row \in Above(w) /\ Wants(v).row \notin Above(v) BY <2>2, <2>3 DEF Above
  <2>6. IsFiniteSet(Above(w)) /\ Cardinality(Above(w)) \in Nat /\ Cardinality(Above(v)) \in Nat BY <1>1
  <2>7. /\ Cardinality(Above(v)) <= Cardinality(Above(w))
        /\ Cardinality(Above(w)) = Cardinality(Above(v)) => Above(w) = Above(v)
    BY <2>4, <2>6, FS_Subset
  <2>8. Cardinality(Above(v)) < n BY <2>1, <2>5, <2>6, <2>7
  <2>9. QED BY <2>6, <2>8
<1> HIDE DEF Sizes
<1>4. IsWellFoundedOn(OpToRel(<, Nat), Nat) BY NatLessThanWellFounded
<1>5. PICK x \in Sizes : \A y \in Sizes : ~(<<y, x>> \in OpToRel(<, Nat)) BY <1>2, <1>4, WFMin
<1>6. PICK y \in Sizes : y < x BY <1>3
<1>7. <<y, x>> \in OpToRel(<, Nat) BY <1>2, <1>6 DEF OpToRel
<1>8. QED BY <1>5, <1>7

\* Reservations and dispatches, which lock in identifier order, never wait for
\* one another in a circle, whatever else runs beside them.
THEOREM OrderedNeverDeadlockHolds == LocksSpec => []OrderedNeverDeadlock
<1>1. LocksTyped => OrderedNeverDeadlock BY NoCircleAmongOrdered DEF OrderedNeverDeadlock
<1>2. QED BY <1>1, LocksTypedHolds, PTL

-----------------------------------------------------------------------------
(* The outbox.  A worker owns the events it has claimed, and works on the  *)
(* rows of their notifications as they are committed.                      *)

\* Only a notification to be repeated, or one cancelled meanwhile, has a time
\* left to wait for.
Timed(n) == ~n.due => n.status \in {"retrying", "cancelled"}

TxTyped(t) ==
    /\ t = [claimed |-> t.claimed, done |-> t.done, note |-> t.note]
    /\ t.claimed \subseteq Events
    /\ t.done \in [t.claimed -> Outcomes]
    /\ t.note \in [t.claimed -> [Channels -> Note]]

\* What worker w has of an event: nobody settles it meanwhile, the rows are the
\* committed ones until it has processed them, what was over is left alone, and
\* it publishes only what is over.
Owns(w, e) ==
    /\ event[e].status = "pending"
    /\ \A c \in Channels : Timed(tx[w].note[e][c])
    /\ tx[w].done[e] = "waiting" => tx[w].note[e] = note[e]
    /\ \A c \in Channels :
          note[e][c].status \in Terminal => tx[w].note[e][c].status = note[e][c].status
    /\ tx[w].done[e] = "published" => \A c \in Channels : tx[w].note[e][c].status \in Terminal

OutboxRows ==
    /\ event \in [Events -> EventRow]
    /\ note \in [Events -> [Channels -> Note]]
    /\ \A e \in Events, c \in Channels : Timed(note[e][c])
    /\ enabled \subseteq Channels
    /\ gateway \in [Events -> [Channels -> SUBSET (1..MaxKeys)]]

OutboxRuns ==
    /\ tx = [w \in Workers |-> tx[w]]
    /\ \A w \in Workers : tx[w] = NotRunning \/ TxTyped(tx[w])
    /\ \A w \in Workers : \A e \in tx[w].claimed : Owns(w, e)
    /\ \A v, w \in Workers : v # w => tx[v].claimed \cap tx[w].claimed = {}

OutboxInv == OutboxRows /\ OutboxRuns /\ PublishedWhenOver

LEMMA ClaimedAreEvents ==
    ASSUME OutboxRuns, NEW w \in Workers
    PROVE  tx[w].claimed \subseteq Events
BY DEF OutboxRuns, TxTyped, NotRunning

LEMMA RunningTyped ==
    ASSUME OutboxRuns, NEW w \in Workers, Running(w)
    PROVE  TxTyped(tx[w])
BY DEF OutboxRuns, NotRunning, Running

LEMMA LeastOfTwo ==
    ASSUME NEW a \in Nat, NEW b \in Nat
    PROVE  Min({a, b}) \in {a, b} /\ Min({a, b}) =< a /\ Min({a, b}) =< b
<1>1. PICK x \in {a, b} : x =< a /\ x =< b
  <2>1. CASE a =< b BY <2>1
  <2>2. CASE ~(a =< b) BY <2>2
  <2> QED BY <2>1, <2>2
<1>2. \A y \in {a, b} : x =< y BY <1>1
<1>3. \E y \in {a, b} : \A z \in {a, b} : y =< z BY <1>2
<1>4. Min({a, b}) \in {a, b} /\ \A z \in {a, b} : Min({a, b}) =< z BY <1>3 DEF Min
<1> QED BY <1>4

\* A row that is read or created has an identifier, and is otherwise as it was.
LEMMA ExistingRow ==
    ASSUME OutboxRows, NEW e \in Events, NEW c \in Channels, NEW n \in Note
    PROVE  /\ Existing(n, e, c) \in Note
           /\ Existing(n, e, c).key \in 1..MaxKeys
           /\ Existing(n, e, c).status = n.status
           /\ Existing(n, e, c).due = n.due
<1>1. gateway[e][c] \in SUBSET (1..MaxKeys) BY DEF OutboxRows
<1>2. MaxKeys \in Nat \ {0} /\ MaxRetries \in Nat BY NumbersAssumption
<1>3. IsFiniteSet(1..MaxKeys) BY <1>2, FS_Interval
<1>4. IsFiniteSet(gateway[e][c]) BY <1>1, <1>3, FS_Subset
<1>5. Cardinality(gateway[e][c]) \in Nat BY <1>4, FS_CardinalityType
<1>6. Cardinality(gateway[e][c]) + 1 \in Nat /\ MaxKeys \in Nat BY <1>2, <1>5
<1>7. /\ NewKey(e, c) \in {Cardinality(gateway[e][c]) + 1, MaxKeys}
      /\ NewKey(e, c) =< MaxKeys
  BY <1>6, LeastOfTwo DEF NewKey
<1>8. NewKey(e, c) \in 1..MaxKeys BY <1>2, <1>5, <1>7
<1>9. QED BY <1>2, <1>8 DEF Existing, Note

LEMMA AttemptRow ==
    ASSUME NEW n \in Note, NEW status \in NoteStatus, NEW due \in BOOLEAN
    PROVE  /\ Attempt(n, status, due) \in Note
           /\ Attempt(n, status, due).status = status
           /\ Attempt(n, status, due).due = due
<1>1. MaxRetries \in Nat BY NumbersAssumption
<1>2. n.attempts + 1 \in Nat /\ MaxRetries + 1 \in Nat BY <1>1 DEF Note
<1>3. /\ Min({n.attempts + 1, MaxRetries + 1}) \in {n.attempts + 1, MaxRetries + 1}
      /\ Min({n.attempts + 1, MaxRetries + 1}) =< MaxRetries + 1
  BY <1>2, LeastOfTwo
<1>4. Min({n.attempts + 1, MaxRetries + 1}) \in 0..(MaxRetries + 1) BY <1>1, <1>2, <1>3
<1>5. QED BY <1>4 DEF Attempt, Note

\* A visit leaves what is over alone; after it a notification is over or waits.
LEMMA VisitedRow ==
    ASSUME NEW n \in Note, Timed(n), NEW c \in Channels, NEW refused \in SUBSET Channels
    PROVE  /\ Visited(n, c, c \in refused) \in Note
           /\ Timed(Visited(n, c, c \in refused))
           /\ n.status \in Terminal => Visited(n, c, c \in refused) = n
           /\ Visited(n, c, c \in refused).status \in Terminal \cup {"retrying"}
<1>1. CASE c \notin enabled /\ n.status \notin Terminal
  <2>1. Visited(n, c, c \in refused) = [n EXCEPT !.status = "cancelled"] BY <1>1 DEF Visited, Sends
  <2>2. "cancelled" \in NoteStatus BY DEF NoteStatus
  <2>3. [n EXCEPT !.status = "cancelled"] \in Note /\ [n EXCEPT !.status = "cancelled"].status = "cancelled"
    BY <2>2 DEF Note
  <2>4. QED BY <1>1, <2>1, <2>3 DEF Timed, Terminal
<1>2. CASE Sends(n, c) /\ c \notin refused
  <2>1. Visited(n, c, c \in refused) = Attempt(n, "delivered", TRUE) BY <1>2 DEF Visited, Sends
  <2>2. "delivered" \in NoteStatus /\ TRUE \in BOOLEAN BY DEF NoteStatus
  <2>3. /\ Attempt(n, "delivered", TRUE) \in Note
        /\ Attempt(n, "delivered", TRUE).status = "delivered"
        /\ Attempt(n, "delivered", TRUE).due = TRUE
    BY ONLY <2>2, n \in Note, AttemptRow
  <2>4. QED BY <1>2, <2>1, <2>3 DEF Timed, Terminal, Sends
<1>3. CASE Sends(n, c) /\ c \in refused
  <2>1. Visited(n, c, c \in refused) = Refused(n) BY <1>3 DEF Visited, Sends
  <2>2. "retrying" \in NoteStatus /\ "failed" \in NoteStatus BY DEF NoteStatus
  <2>3. CASE MayRetry(n)
    <3>1. Refused(n) = Attempt(n, "retrying", FALSE) BY <2>3 DEF Refused
    <3>2. /\ Attempt(n, "retrying", FALSE) \in Note
          /\ Attempt(n, "retrying", FALSE).status = "retrying"
          /\ Attempt(n, "retrying", FALSE).due = FALSE
      BY ONLY <2>2, n \in Note, AttemptRow
    <3>3. QED BY <1>3, <2>1, <3>1, <3>2 DEF Timed, Terminal, Sends
  <2>4. CASE ~MayRetry(n)
    <3>1. Refused(n) = Attempt(n, "failed", TRUE) BY <2>4 DEF Refused
    <3>2. /\ Attempt(n, "failed", TRUE) \in Note
          /\ Attempt(n, "failed", TRUE).status = "failed"
          /\ Attempt(n, "failed", TRUE).due = TRUE
      BY ONLY <2>2, n \in Note, AttemptRow
    <3>3. QED BY <1>3, <2>1, <3>1, <3>2 DEF Timed, Terminal, Sends
  <2>5. QED BY <2>3, <2>4
<1>4. CASE ~(c \notin enabled /\ n.status \notin Terminal) /\ ~Sends(n, c)
  <2>1. Visited(n, c, c \in refused) = n BY <1>4 DEF Visited
  <2>2. QED BY <1>4, <2>1 DEF Timed, Terminal, Sends
<1>5. QED BY <1>1, <1>2, <1>3, <1>4

\* A worker writes the rows of one event it has claimed and nothing else.
LEMMA WriteTyped ==
    ASSUME OutboxRuns, NEW w \in Workers, NEW e \in tx[w].claimed,
           NEW notes \in [Channels -> Note], NEW outcome \in Outcomes,
           Write(w, e, notes, outcome)
    PROVE  /\ tx' = [v \in Workers |-> tx'[v]]
           /\ \A v \in Workers : v # w => tx'[v] = tx[v]
           /\ TxTyped(tx'[w]) /\ tx'[w].claimed = tx[w].claimed
           /\ tx'[w].note[e] = notes /\ tx'[w].done[e] = outcome
           /\ \A x \in tx[w].claimed : x # e =>
                 tx'[w].note[x] = tx[w].note[x] /\ tx'[w].done[x] = tx[w].done[x]
<1> DEFINE t == tx[w]
           n == [t.note EXCEPT ![e] = notes]
           d == [t.done EXCEPT ![e] = outcome]
<1>1. TxTyped(t) BY RunningTyped DEF Running
<1>2. t = [claimed |-> t.claimed, done |-> t.done, note |-> t.note] BY <1>1 DEF TxTyped
<1>3. tx' = [tx EXCEPT ![w] = [claimed |-> t.claimed, done |-> d, note |-> n]]
  BY DEF Write
<1>4. n \in [t.claimed -> [Channels -> Note]] /\ d \in [t.claimed -> Outcomes] BY <1>1 DEF TxTyped
<1>5. tx = [v \in Workers |-> tx[v]] BY DEF OutboxRuns
<1>6. tx'[w] = [claimed |-> t.claimed, done |-> d, note |-> n] BY <1>3, <1>5
<1>7. TxTyped(tx'[w]) /\ tx'[w].claimed = t.claimed BY <1>1, <1>4, <1>6 DEF TxTyped
<1>8. tx' = [v \in Workers |-> tx'[v]] /\ \A v \in Workers : v # w => tx'[v] = tx[v] BY <1>3, <1>5
<1>9. n[e] = notes /\ d[e] = outcome /\ \A x \in t.claimed : x # e => n[x] = t.note[x] /\ d[x] = t.done[x]
  BY <1>1 DEF TxTyped
<1>10. QED BY <1>6, <1>7, <1>8, <1>9

\* One event handled: the rows its worker writes keep what is over, are over
\* when it publishes, and nobody else has claimed it.
LEMMA HandledKeeps ==
    ASSUME OutboxInv, NEW w \in Workers, NEW e \in tx[w].claimed,
           NEW notes \in [Channels -> Note], NEW outcome \in Outcomes \ {"waiting"},
           Write(w, e, notes, outcome),
           gateway' \in [Events -> [Channels -> SUBSET (1..MaxKeys)]],
           UNCHANGED <<event, note, enabled>>,
           \A c \in Channels : Timed(notes[c]),
           \A c \in Channels : note[e][c].status \in Terminal => notes[c].status = note[e][c].status,
           outcome = "published" => \A c \in Channels : notes[c].status \in Terminal
    PROVE  OutboxInv'
<1>1. /\ tx' = [v \in Workers |-> tx'[v]]
      /\ \A v \in Workers : v # w => tx'[v] = tx[v]
      /\ TxTyped(tx'[w]) /\ tx'[w].claimed = tx[w].claimed
      /\ tx'[w].note[e] = notes /\ tx'[w].done[e] = outcome
      /\ \A x \in tx[w].claimed : x # e =>
            tx'[w].note[x] = tx[w].note[x] /\ tx'[w].done[x] = tx[w].done[x]
  BY WriteTyped DEF OutboxInv
<1>2. OutboxRows' BY DEF OutboxInv, OutboxRows, Timed
<1>3. PublishedWhenOver' BY DEF OutboxInv, PublishedWhenOver
<1>4. \A v \in Workers : tx'[v].claimed = tx[v].claimed BY <1>1
<1>5. ASSUME NEW v \in Workers, NEW x \in tx'[v].claimed PROVE Owns(v, x)'
  <2>1. x \in tx[v].claimed BY <1>4
  <2>2. Owns(v, x) BY <2>1 DEF OutboxInv, OutboxRuns
  <2>3. CASE v # w BY <1>1, <2>2, <2>3 DEF Owns
  <2>4. CASE v = w /\ x # e BY <1>1, <2>1, <2>2, <2>4 DEF Owns
  <2>5. CASE v = w /\ x = e BY <1>1, <2>2, <2>5 DEF Owns
  <2>6. QED BY <2>3, <2>4, <2>5
<1>6. OutboxRuns'
  <2>1. \A v \in Workers : tx'[v] = NotRunning \/ TxTyped(tx'[v]) BY <1>1 DEF OutboxInv, OutboxRuns
  <2>2. \A u, v \in Workers : u # v => tx'[u].claimed \cap tx'[v].claimed = {}
    BY <1>4 DEF OutboxInv, OutboxRuns
  <2>3. (\A v \in Workers : tx[v] = NotRunning \/ TxTyped(tx[v]))' BY <2>1 DEF TxTyped, NotRunning
  <2>4. QED BY <1>1, <1>5, <2>2, <2>3 DEF OutboxRuns
<1>7. QED BY <1>2, <1>3, <1>6 DEF OutboxInv

\* Rows read for a channel of a claimed event.
LEMMA BeforeRow ==
    ASSUME OutboxInv, NEW w \in Workers, NEW e \in tx[w].claimed, tx[w].done[e] = "waiting",
           NEW c \in Channels
    PROVE  /\ e \in Events
           /\ tx[w].note[e][c] = note[e][c] /\ note[e][c] \in Note /\ Timed(note[e][c])
           /\ Existing(tx[w].note[e][c], e, c) \in Note
           /\ Existing(tx[w].note[e][c], e, c).key \in 1..MaxKeys
           /\ Existing(tx[w].note[e][c], e, c).status = note[e][c].status
           /\ Timed(Existing(tx[w].note[e][c], e, c))
<1>1. e \in Events BY ClaimedAreEvents DEF OutboxInv
<1>2. Owns(w, e) BY DEF OutboxInv, OutboxRuns
<1>3. tx[w].note[e] = note[e] BY <1>2 DEF Owns
<1>4. note[e][c] \in Note /\ Timed(note[e][c]) BY <1>1 DEF OutboxInv, OutboxRows
<1>5. /\ Existing(note[e][c], e, c) \in Note
      /\ Existing(note[e][c], e, c).key \in 1..MaxKeys
      /\ Existing(note[e][c], e, c).status = note[e][c].status
      /\ Existing(note[e][c], e, c).due = note[e][c].due
  BY <1>1, <1>4, ExistingRow DEF OutboxInv
<1>6. QED BY <1>1, <1>3, <1>4, <1>5 DEF Timed

LEMMA ProcessKeeps ==
    ASSUME OutboxInv, NEW w \in Workers, NEW e \in Events, Process(w, e)
    PROVE  OutboxInv'
<1> DEFINE before == [c \in Channels |-> Existing(tx[w].note[e][c], e, c)]
           after(refused) == [c \in Channels |-> Visited(before[c], c, c \in refused)]
<1>1. e \in tx[w].claimed /\ tx[w].done[e] = "waiting" /\ UNCHANGED <<event, note, enabled>>
  BY DEF Process
<1>2. PICK refused \in SUBSET Channels :
          /\ gateway' = [gateway EXCEPT ![e] = [c \in Channels |->
                    IF Sends(before[c], c) /\ c \notin refused
                    THEN @[c] \cup {before[c].key} ELSE @[c]]]
          /\ Write(w, e, after(refused), IF SomeWait(after(refused)) THEN "released" ELSE "published")
  BY DEF Process
<1>3. ASSUME NEW c \in Channels
      PROVE  /\ note[e][c] \in Note
             /\ before[c] \in Note /\ before[c].key \in 1..MaxKeys
             /\ before[c].status = note[e][c].status /\ Timed(before[c])
  BY <1>1, BeforeRow
<1>4. ASSUME NEW c \in Channels
      PROVE  /\ after(refused)[c] \in Note /\ Timed(after(refused)[c])
             /\ before[c].status \in Terminal => after(refused)[c] = before[c]
             /\ after(refused)[c].status \in Terminal \cup {"retrying"}
  <2>2. after(refused)[c] = Visited(before[c], c, c \in refused) OBVIOUS
  <2>3. before[c] \in Note /\ Timed(before[c]) BY <1>3
  <2> HIDE DEF before, after
  <2>4. QED BY <2>2, <2>3, VisitedRow
<1>5. gateway' \in [Events -> [Channels -> SUBSET (1..MaxKeys)]]
  <2>1. gateway \in [Events -> [Channels -> SUBSET (1..MaxKeys)]] BY DEF OutboxInv, OutboxRows
  <2> HIDE DEF before, after
  <2>2. QED BY <1>2, <1>3, <2>1
<1>6. after(refused) \in [Channels -> Note] BY <1>4
<1>7. ASSUME ~SomeWait(after(refused)), NEW c \in Channels PROVE after(refused)[c].status \in Terminal
  BY <1>4, <1>7 DEF SomeWait
<1>8. \A c \in Channels : note[e][c].status \in Terminal =>
          after(refused)[c].status = note[e][c].status
  BY <1>3, <1>4
<1>9. PICK outcome \in Outcomes \ {"waiting"} :
          /\ outcome = (IF SomeWait(after(refused)) THEN "released" ELSE "published")
          /\ outcome = "published" => \A c \in Channels : after(refused)[c].status \in Terminal
  BY <1>7 DEF Outcomes
<1> HIDE DEF before, after
<1>10. QED BY <1>1, <1>2, <1>4, <1>5, <1>6, <1>8, <1>9, HandledKeeps

LEMMA ProcessFailsKeeps ==
    ASSUME OutboxInv, NEW w \in Workers, NEW e \in Events, ProcessFails(w, e)
    PROVE  OutboxInv'
<1> DEFINE before == [c \in Channels |-> Existing(tx[w].note[e][c], e, c)]
           calls(k, inGateway) == inGateway /\ Sends(before[k], k)
           after(k, refused, inGateway) ==
               [c \in Channels |->
                    CASE c < k -> Visited(before[c], c, c \in refused)
                      [] c = k /\ calls(k, inGateway) -> Attempt(before[c], "sending", TRUE)
                      [] OTHER -> tx[w].note[e][c]]
<1>1. e \in tx[w].claimed /\ tx[w].done[e] = "waiting" /\ UNCHANGED <<event, note, enabled>>
  BY DEF ProcessFails
<1>2. PICK k \in Channels, refused \in SUBSET Channels, inGateway \in BOOLEAN :
          /\ gateway' = [gateway EXCEPT ![e] = [c \in Channels |->
                    IF (c < k \/ (c = k /\ calls(k, inGateway))) /\ Sends(before[c], c) /\ c \notin refused
                    THEN @[c] \cup {before[c].key} ELSE @[c]]]
          /\ Write(w, e, after(k, refused, inGateway), "broken")
  BY DEF ProcessFails
<1> DEFINE notes == after(k, refused, inGateway)
<1>3. ASSUME NEW c \in Channels
      PROVE  /\ note[e][c] \in Note /\ tx[w].note[e][c] = note[e][c] /\ Timed(note[e][c])
             /\ before[c] \in Note /\ before[c].key \in 1..MaxKeys
             /\ before[c].status = note[e][c].status /\ Timed(before[c])
  BY <1>1, BeforeRow
<1>4. ASSUME NEW c \in Channels
      PROVE  /\ notes[c] \in Note /\ Timed(notes[c])
             /\ note[e][c].status \in Terminal => notes[c].status = note[e][c].status
  <2>0. k \in Int /\ c \in Int BY NumbersAssumption DEF Channels
  <2>1. CASE c < k
    <3>2. notes[c] = Visited(before[c], c, c \in refused)
      <4>1. ~(c = k) BY <2>0, <2>1
      <4>2. QED BY <2>1, <4>1
    <3>3. before[c] \in Note /\ Timed(before[c]) /\ before[c].status = note[e][c].status BY <1>3
    <3> HIDE DEF before, after, notes
    <3>4. QED BY <3>2, <3>3, VisitedRow
  <2>2. CASE ~(c < k) /\ c = k /\ calls(k, inGateway)
    <3>1. notes[c] = Attempt(before[c], "sending", TRUE) BY <2>2
    <3>2. before[c] \in Note /\ before[c].status = note[e][c].status /\ before[c].status \notin Terminal
      BY <1>3, <2>2 DEF Sends
    <3>3. "sending" \in NoteStatus /\ TRUE \in BOOLEAN BY DEF NoteStatus
    <3> HIDE DEF before, after, notes
    <3>4. Attempt(before[c], "sending", TRUE) \in Note /\ Attempt(before[c], "sending", TRUE).due = TRUE
      BY ONLY <3>2, <3>3, AttemptRow
    <3>5. QED BY <3>1, <3>2, <3>4 DEF Timed
  <2>3. CASE ~(c < k) /\ ~(c = k /\ calls(k, inGateway))
    <3>1. notes[c] = tx[w].note[e][c] BY <2>3
    <3> HIDE DEF before, after, notes
    <3>2. QED BY <1>3, <3>1
  <2>4. QED BY <2>1, <2>2, <2>3
<1>5. gateway' \in [Events -> [Channels -> SUBSET (1..MaxKeys)]]
  <2>1. gateway \in [Events -> [Channels -> SUBSET (1..MaxKeys)]] BY DEF OutboxInv, OutboxRows
  <2> HIDE DEF before, after, calls
  <2>2. QED BY <1>2, <1>3, <2>1
<1>6. notes \in [Channels -> Note] BY <1>4
<1>7. "broken" \in Outcomes \ {"waiting"} BY DEF Outcomes
<1>8. Write(w, e, notes, "broken") BY <1>2
<1> HIDE DEF before, after, notes
<1>9. QED BY <1>1, <1>4, <1>5, <1>6, <1>7, <1>8, HandledKeeps

LEMMA ClaimKeeps ==
    ASSUME OutboxInv, NEW w \in Workers, Claim(w)
    PROVE  OutboxInv'
<1> DEFINE t == [claimed |-> Claimable, done |-> [e \in Claimable |-> "waiting"],
                 note |-> [e \in Claimable |-> note[e]]]
<1>1. /\ tx' = [v \in Workers |-> tx'[v]] /\ tx'[w] = t
      /\ \A v \in Workers : v # w => tx'[v] = tx[v]
      /\ UNCHANGED <<event, note, enabled, gateway>>
  BY DEF Claim, OutboxInv, OutboxRuns
<1>2. OutboxRows' BY <1>1 DEF OutboxInv, OutboxRows, Timed
<1>3. PublishedWhenOver' BY <1>1 DEF OutboxInv, PublishedWhenOver
<1>4. TxTyped(t)
  <2>1. Claimable \subseteq Events BY DEF Claimable
  <2>2. [e \in Claimable |-> note[e]] \in [Claimable -> [Channels -> Note]]
    BY <2>1 DEF OutboxInv, OutboxRows
  <2>3. [e \in Claimable |-> "waiting"] \in [Claimable -> Outcomes] BY DEF Outcomes
  <2>4. QED BY <2>1, <2>2, <2>3 DEF TxTyped
<1>5. ASSUME NEW e \in Claimable
      PROVE  /\ event[e].status = "pending" /\ t.done[e] = "waiting" /\ t.note[e] = note[e]
             /\ e \in Events /\ \A c \in Channels : Timed(note[e][c])
             /\ \A v \in Workers : e \notin tx[v].claimed
  BY DEF Claimable, Unlocked, OutboxInv, OutboxRows
<1>6. t.claimed = Claimable OBVIOUS
<1> HIDE DEF t
<1>7. ASSUME NEW v \in Workers, NEW x \in tx'[v].claimed PROVE Owns(v, x)'
  <2>1. CASE v = w
    <3>1. x \in Claimable BY <1>1, <1>6, <2>1
    <3>2. QED BY <1>1, <1>5, <2>1, <3>1 DEF Owns
  <2>2. CASE v # w
    <3>1. Owns(v, x) BY <1>1, <2>2 DEF OutboxInv, OutboxRuns
    <3>2. QED BY <1>1, <2>2, <3>1 DEF Owns
  <2>3. QED BY <2>1, <2>2
<1>8. OutboxRuns'
  <2>1. (\A v \in Workers : tx[v] = NotRunning \/ TxTyped(tx[v]))'
    BY <1>1, <1>4 DEF OutboxInv, OutboxRuns, TxTyped, NotRunning
  <2>2. \A u, v \in Workers : u # v => tx'[u].claimed \cap tx'[v].claimed = {}
    BY <1>1, <1>5, <1>6 DEF OutboxInv, OutboxRuns
  <2>3. QED BY <1>1, <1>7, <2>1, <2>2 DEF OutboxRuns
<1>9. QED BY <1>2, <1>3, <1>8 DEF OutboxInv

\* A worker that ends leaves its events to the others.
LEMMA EndedRuns ==
    ASSUME OutboxRuns, NEW w \in Workers, tx' = [tx EXCEPT ![w] = NotRunning],
           \A v \in Workers : v # w => \A e \in tx[v].claimed : event'[e] = event[e] /\ note'[e] = note[e]
    PROVE  OutboxRuns'
<1>1. /\ tx' = [v \in Workers |-> tx'[v]] /\ tx'[w] = NotRunning
      /\ \A v \in Workers : v # w => tx'[v] = tx[v]
  BY DEF OutboxRuns
<1>2. NotRunning.claimed = {} BY DEF NotRunning
<1>3. ASSUME NEW v \in Workers, NEW x \in tx'[v].claimed PROVE Owns(v, x)'
  <2>1. v # w BY <1>1, <1>2
  <2>2. Owns(v, x) BY <1>1, <2>1 DEF OutboxRuns
  <2>3. QED BY <1>1, <2>1, <2>2 DEF Owns
<1>4. (\A v \in Workers : tx[v] = NotRunning \/ TxTyped(tx[v]))'
  BY <1>1 DEF OutboxRuns, TxTyped, NotRunning
<1>5. \A u, v \in Workers : u # v => tx'[u].claimed \cap tx'[v].claimed = {}
  BY <1>1, <1>2 DEF OutboxRuns
<1>6. QED BY <1>1, <1>3, <1>4, <1>5 DEF OutboxRuns

LEMMA RollbackKeeps ==
    ASSUME OutboxInv, NEW w \in Workers, Rollback(w)
    PROVE  OutboxInv'
<1>1. tx' = [tx EXCEPT ![w] = NotRunning] /\ UNCHANGED <<event, note, enabled, gateway>> BY DEF Rollback
<1>2. OutboxRuns' BY <1>1, EndedRuns DEF OutboxInv
<1>3. OutboxRows' BY <1>1 DEF OutboxInv, OutboxRows, Timed
<1>4. PublishedWhenOver' BY <1>1 DEF OutboxInv, PublishedWhenOver
<1>5. QED BY <1>2, <1>3, <1>4 DEF OutboxInv

LEMMA MarkedRow ==
    ASSUME OutboxRows, NEW e \in Events, NEW outcome \in Outcomes
    PROVE  /\ Marked(e, outcome) \in EventRow
           /\ Marked(e, outcome).status = "published" => outcome = "published"
<1>1. event[e].attempts + 1 \in Nat /\ MaxAttempts \in Nat
  BY NumbersAssumption DEF OutboxRows, EventRow
<1> DEFINE attempts == Min({event[e].attempts + 1, MaxAttempts})
<1>2. attempts \in {event[e].attempts + 1, MaxAttempts} /\ attempts =< MaxAttempts
  BY <1>1, LeastOfTwo
<1>3. attempts \in 0..MaxAttempts BY <1>1, <1>2
<1>4. PICK due \in BOOLEAN : due = (outcome # "broken")
  <2>1. CASE outcome = "broken" BY <2>1
  <2>2. CASE outcome # "broken" BY <2>2
  <2>3. QED BY <2>1, <2>2
<1>5. PICK status \in EventStatus :
          /\ status = (CASE outcome = "published" -> "published"
                         [] outcome = "broken" /\ attempts >= MaxAttempts -> "failed"
                         [] OTHER -> "pending")
          /\ status = "published" => outcome = "published"
  <2> HIDE DEF attempts
  <2>1. CASE outcome = "published" BY <2>1 DEF EventStatus
  <2>2. CASE outcome = "broken" /\ attempts >= MaxAttempts BY <2>2 DEF EventStatus
  <2>3. CASE outcome # "published" /\ ~(outcome = "broken" /\ attempts >= MaxAttempts)
    BY <2>3 DEF EventStatus
  <2>4. QED BY <2>1, <2>2, <2>3
<1>6. Marked(e, outcome) = [attempts |-> attempts, due |-> due, status |-> status]
  BY <1>4, <1>5 DEF Marked
<1>7. QED BY <1>3, <1>5, <1>6 DEF EventRow

LEMMA CommitRunKeeps ==
    ASSUME OutboxInv, NEW w \in Workers, CommitRun(w)
    PROVE  OutboxInv'
<1>1. TxTyped(tx[w]) BY RunningTyped DEF CommitRun, OutboxInv
<1>2. /\ event' = [e \in Events |->
                    IF e \in tx[w].claimed THEN Marked(e, tx[w].done[e]) ELSE event[e]]
      /\ note' = [e \in Events |-> IF e \in tx[w].claimed THEN tx[w].note[e] ELSE note[e]]
      /\ tx' = [tx EXCEPT ![w] = NotRunning]
      /\ UNCHANGED <<enabled, gateway>>
  BY DEF CommitRun
<1>3. ASSUME NEW e \in tx[w].claimed
      PROVE  /\ e \in Events /\ Owns(w, e) /\ tx[w].done[e] \in Outcomes
             /\ tx[w].note[e] \in [Channels -> Note]
             /\ Marked(e, tx[w].done[e]) \in EventRow
             /\ Marked(e, tx[w].done[e]).status = "published" => tx[w].done[e] = "published"
  <2>1. /\ e \in Events /\ tx[w].done[e] \in Outcomes /\ tx[w].note[e] \in [Channels -> Note]
    BY <1>1 DEF TxTyped
  <2>2. QED BY <2>1, MarkedRow DEF OutboxInv, OutboxRuns
<1>4. ASSUME NEW e \in Events
      PROVE  /\ event'[e] \in EventRow /\ note'[e] \in [Channels -> Note]
             /\ \A c \in Channels : Timed(note'[e][c])
             /\ event'[e].status = "published" => \A c \in Channels : note'[e][c].status \in Terminal
  <2>1. CASE e \in tx[w].claimed
    <3>1. event'[e] = Marked(e, tx[w].done[e]) /\ note'[e] = tx[w].note[e] BY <1>2, <2>1
    <3>2. QED BY <1>3, <2>1, <3>1 DEF Owns
  <2>2. CASE e \notin tx[w].claimed
    <3>1. event'[e] = event[e] /\ note'[e] = note[e] BY <1>2, <2>2
    <3>2. QED BY <3>1 DEF OutboxInv, OutboxRows, PublishedWhenOver
  <2>3. QED BY <2>1, <2>2
<1>5. OutboxRows'
  <2>1. event' \in [Events -> EventRow] BY <1>2, <1>4
  <2>2. note' \in [Events -> [Channels -> Note]] BY <1>2, <1>4
  <2>3. QED BY <1>2, <1>4, <2>1, <2>2 DEF OutboxInv, OutboxRows, Timed
<1>6. PublishedWhenOver' BY <1>4 DEF PublishedWhenOver
<1>7. OutboxRuns'
  <2>1. \A v \in Workers : v # w => \A e \in tx[v].claimed : event'[e] = event[e] /\ note'[e] = note[e]
    <3>1. ASSUME NEW v \in Workers, v # w, NEW e \in tx[v].claimed
          PROVE  e \in Events /\ e \notin tx[w].claimed
      BY <3>1, ClaimedAreEvents DEF OutboxInv, OutboxRuns
    <3>2. QED BY <1>2, <3>1
  <2>2. QED BY <1>2, <2>1, EndedRuns DEF OutboxInv
<1>8. QED BY <1>5, <1>6, <1>7 DEF OutboxInv

\* A step outside the transactions: it may change only events nobody has
\* claimed, and makes due only notifications of such events.
LEMMA OutsideKeeps ==
    ASSUME OutboxInv, OutboxRows', UNCHANGED tx,
           \A w \in Workers : \A e \in tx[w].claimed :
               event'[e].status = event[e].status /\ note'[e] = note[e],
           PublishedWhenOver'
    PROVE  OutboxInv'
<1>1. ASSUME NEW v \in Workers, NEW x \in tx'[v].claimed PROVE Owns(v, x)'
  <2>1. Owns(v, x) BY DEF OutboxInv, OutboxRuns
  <2>2. QED BY <2>1 DEF Owns
<1>2. (\A v \in Workers : tx[v] = NotRunning \/ TxTyped(tx[v]))'
  BY DEF OutboxInv, OutboxRuns, TxTyped, NotRunning
<1>3. QED BY <1>1, <1>2 DEF OutboxInv, OutboxRuns

\* An event whose status or time changes is not published.
LEMMA EventKeeps ==
    ASSUME OutboxInv, NEW e \in Events, NEW row \in EventRow,
           event' = [event EXCEPT ![e] = row], UNCHANGED <<note, enabled, gateway, tx>>,
           row.status = "pending", event[e].status = "pending" \/ \A w \in Workers : e \notin tx[w].claimed
    PROVE  OutboxInv'
<1>1. event \in [Events -> EventRow] BY DEF OutboxInv, OutboxRows
<1>2. event' \in [Events -> EventRow] BY <1>1
<1>3. OutboxRows' BY <1>2 DEF OutboxInv, OutboxRows, Timed
<1>4. event'[e] = row /\ \A x \in Events : x # e => event'[x] = event[x] BY <1>1
<1>5. PublishedWhenOver' BY <1>4 DEF OutboxInv, PublishedWhenOver
<1>6. \A w \in Workers : \A x \in tx[w].claimed :
          event'[x].status = event[x].status /\ note'[x] = note[x]
  <2>1. \A w \in Workers : tx[w].claimed \subseteq Events BY ClaimedAreEvents DEF OutboxInv
  <2>2. QED BY <1>4, <2>1
<1>7. QED BY <1>3, <1>5, <1>6, OutsideKeeps

LEMMA OutboxInvStep == OutboxInv /\ [OutboxNext]_outboxVars => OutboxInv'
<1> SUFFICES ASSUME OutboxInv, [OutboxNext]_outboxVars PROVE OutboxInv'
  OBVIOUS
<1>0. /\ event \in [Events -> EventRow]
      /\ \A w \in Workers : \A e \in tx[w].claimed : event[e].status = "pending"
  BY DEF OutboxInv, OutboxRows, OutboxRuns, Owns
<1>1. CASE UNCHANGED outboxVars
  <2>1. OutboxRows' /\ PublishedWhenOver'
    BY <1>1 DEF outboxVars, OutboxInv, OutboxRows, PublishedWhenOver, Timed
  <2>2. QED BY <1>1, <2>1, OutsideKeeps DEF outboxVars
<1>2. ASSUME NEW e \in Events, Emit(e) PROVE OutboxInv'
  <2>1. event[e] \in EventRow BY <1>0
  <2>2. PICK row \in EventRow : row.status = "pending" /\ row = [event[e] EXCEPT !.status = "pending"]
    BY <2>1 DEF EventRow, EventStatus
  <2>3. event' = [event EXCEPT ![e] = row] BY <1>0, <1>2, <2>2 DEF Emit
  <2>4. event[e].status # "pending" /\ UNCHANGED <<note, enabled, gateway, tx>> BY <1>2 DEF Emit
  <2>5. QED BY <1>0, <2>2, <2>3, <2>4, EventKeeps
<1>3. ASSUME NEW e \in Events, Recover(e) PROVE OutboxInv'
  <2>1. event[e] \in EventRow BY <1>0
  <2>2. PICK row \in EventRow :
            row.status = "pending" /\ row = [event[e] EXCEPT !.status = "pending", !.due = TRUE]
    BY <2>1 DEF EventRow, EventStatus
  <2>3. event' = [event EXCEPT ![e] = row] BY <1>0, <1>3, <2>2 DEF Recover
  <2>4. event[e].status # "pending" /\ UNCHANGED <<note, enabled, gateway, tx>> BY <1>3 DEF Recover
  <2>5. QED BY <1>0, <2>2, <2>3, <2>4, EventKeeps
<1>4. ASSUME NEW e \in Events, EventDue(e) PROVE OutboxInv'
  <2>1. event[e] \in EventRow BY <1>0
  <2>2. PICK row \in EventRow : row.status = "pending" /\ row = [event[e] EXCEPT !.due = TRUE]
    BY <1>4, <2>1 DEF EventRow, EventDue
  <2>3. event' = [event EXCEPT ![e] = row] BY <1>0, <1>4, <2>2 DEF EventDue
  <2>4. event[e].status = "pending" /\ UNCHANGED <<note, enabled, gateway, tx>> BY <1>4 DEF EventDue
  <2>5. QED BY <2>2, <2>3, <2>4, EventKeeps
<1>5. ASSUME NEW c \in Channels, SwitchChannel(c) PROVE OutboxInv'
  <2>1. UNCHANGED <<event, note, gateway, tx>> /\ enabled' \subseteq Channels
    BY <1>5 DEF SwitchChannel, OutboxInv, OutboxRows
  <2>2. OutboxRows' /\ PublishedWhenOver'
    BY <2>1 DEF OutboxInv, OutboxRows, PublishedWhenOver, Timed
  <2>3. QED BY <2>1, <2>2, OutsideKeeps
<1>6. ASSUME NEW e \in Events, NEW c \in Channels, NoteDue(e, c) PROVE OutboxInv'
  <2>1. note \in [Events -> [Channels -> Note]] BY DEF OutboxInv, OutboxRows
  <2>2. PICK n \in Note : n = [note[e][c] EXCEPT !.due = TRUE] /\ n.due = TRUE /\ n.status = note[e][c].status
    <3>1. note[e][c] \in Note BY <2>1
    <3>2. /\ [note[e][c] EXCEPT !.due = TRUE] \in Note
          /\ [note[e][c] EXCEPT !.due = TRUE].due = TRUE
          /\ [note[e][c] EXCEPT !.due = TRUE].status = note[e][c].status
      BY <3>1 DEF Note
    <3>3. QED BY <3>2
  <2>3. note' = [note EXCEPT ![e] = [note[e] EXCEPT ![c] = n]] /\ UNCHANGED <<event, enabled, gateway, tx>>
    BY <1>6, <2>1, <2>2 DEF NoteDue
  <2>4. /\ note' \in [Events -> [Channels -> Note]] /\ note'[e][c] = n
        /\ \A x \in Events, d \in Channels : x # e \/ d # c => note'[x][d] = note[x][d]
        /\ \A x \in Events : x # e => note'[x] = note[x]
    BY <2>1, <2>3
  <2>5. OutboxRows'
    <3>1. \A x \in Events, d \in Channels : Timed(note'[x][d])
      <4>1. ASSUME NEW x \in Events, NEW d \in Channels PROVE Timed(note'[x][d])
        <5>1. CASE x = e /\ d = c BY <2>2, <2>4, <5>1 DEF Timed
        <5>2. CASE x # e \/ d # c
          <6>1. note'[x][d] = note[x][d] BY <2>4, <5>2
          <6>2. Timed(note[x][d]) BY DEF OutboxInv, OutboxRows
          <6>3. QED BY <6>1, <6>2
        <5>3. QED BY <5>1, <5>2
      <4>2. QED BY <4>1
    <3>2. QED BY <2>3, <2>4, <3>1 DEF OutboxInv, OutboxRows, Timed
  <2>6. PublishedWhenOver' BY <2>2, <2>3, <2>4 DEF OutboxInv, PublishedWhenOver
  <2>7. \A w \in Workers : \A x \in tx[w].claimed :
            event'[x].status = event[x].status /\ note'[x] = note[x]
    <3>1. \A w \in Workers : e \notin tx[w].claimed BY <1>6 DEF NoteDue, Unlocked
    <3>2. \A w \in Workers : tx[w].claimed \subseteq Events BY ClaimedAreEvents DEF OutboxInv
    <3>3. QED BY <2>3, <2>4, <3>1, <3>2
  <2>8. QED BY <2>3, <2>5, <2>6, <2>7, OutsideKeeps
<1>7. ASSUME NEW w \in Workers, Claim(w) PROVE OutboxInv' BY <1>7, ClaimKeeps
<1>8. ASSUME NEW w \in Workers, NEW e \in Events, Handle(w, e) PROVE OutboxInv'
  BY <1>8, ProcessKeeps, ProcessFailsKeeps DEF Handle
<1>9. ASSUME NEW w \in Workers, CommitRun(w) PROVE OutboxInv' BY <1>9, CommitRunKeeps
<1>10. ASSUME NEW w \in Workers, Rollback(w) PROVE OutboxInv' BY <1>10, RollbackKeeps
<1>11. QED BY <1>1, <1>2, <1>3, <1>4, <1>5, <1>6, <1>7, <1>8, <1>9, <1>10 DEF OutboxNext, Time

LEMMA OutboxInvInit == OutboxInit => OutboxInv
<1> SUFFICES ASSUME OutboxInit PROVE OutboxInv
  OBVIOUS
<1>1. OutboxRows
  <2>1. [status |-> "none", attempts |-> 0, due |-> TRUE] \in EventRow
    BY NumbersAssumption DEF EventRow, EventStatus
  <2>2. [status |-> "none", attempts |-> 0, due |-> TRUE, key |-> 0] \in Note
    BY NumbersAssumption DEF Note, NoteStatus
  <2>3. QED BY <2>1, <2>2 DEF OutboxInit, OutboxRows, Timed
<1>2. OutboxRuns BY DEF OutboxInit, OutboxRuns, NotRunning
<1>3. PublishedWhenOver BY DEF OutboxInit, PublishedWhenOver
<1>4. QED BY <1>1, <1>2, <1>3 DEF OutboxInv

THEOREM OutboxInductive == OutboxSpec => []OutboxInv
<1>1. QED BY OutboxInvInit, OutboxInvStep, PTL DEF OutboxSpec

\* An event is published only when each of its channels is over.
THEOREM PublishedWhenOverHolds == OutboxSpec => []PublishedWhenOver
<1>1. OutboxInv => PublishedWhenOver BY DEF OutboxInv
<1>2. QED BY <1>1, OutboxInductive, PTL

OverStays(e, c) ==
    note[e][c].status \in Terminal =>
        gateway'[e][c] = gateway[e][c] /\ note'[e][c].status = note[e][c].status

LEMMA ProcessSendsNothingOver ==
    ASSUME OutboxInv, NEW w \in Workers, NEW e \in Events, Handle(w, e),
           NEW x \in Events, NEW c \in Channels
    PROVE  OverStays(x, c)
<1>1. e \in tx[w].claimed /\ tx[w].done[e] = "waiting" /\ note' = note
  BY DEF Handle, Process, ProcessFails
<1>2. gateway \in [Events -> [Channels -> SUBSET (1..MaxKeys)]] BY DEF OutboxInv, OutboxRows
<1>3. SUFFICES ASSUME note[x][c].status \in Terminal PROVE gateway'[x][c] = gateway[x][c]
  BY <1>1 DEF OverStays
<1>4. CASE x # e BY <1>2, <1>4 DEF Handle, Process, ProcessFails
<1>5. CASE x = e
  <2>1. Existing(tx[w].note[e][c], e, c).status = note[e][c].status BY <1>1, BeforeRow
  <2>2. ~Sends(Existing(tx[w].note[e][c], e, c), c) BY <1>3, <1>5, <2>1 DEF Sends
  <2>3. CASE Process(w, e) BY <1>2, <1>5, <2>2, <2>3 DEF Process
  <2>4. CASE ProcessFails(w, e) BY <1>2, <1>5, <2>2, <2>4 DEF ProcessFails
  <2>5. QED BY <2>3, <2>4 DEF Handle
<1>6. QED BY <1>4, <1>5

\* Nothing more is sent for a notification that is over, although several
\* workers look for events at the same time.
THEOREM NothingSentTwiceHolds == OutboxSpec => NothingSentTwice
<1>1. ASSUME OutboxInv, [OutboxNext]_outboxVars, NEW x \in Events, NEW c \in Channels
      PROVE  OverStays(x, c)
  <2>1. CASE UNCHANGED <<note, gateway>> BY <2>1 DEF OverStays
  <2>2. ASSUME NEW w \in Workers, NEW e \in Events, Handle(w, e) PROVE OverStays(x, c)
    BY <1>1, <2>2, ProcessSendsNothingOver
  <2>3. ASSUME NEW w \in Workers, CommitRun(w) PROVE OverStays(x, c)
    <3>1. note'[x] = (IF x \in tx[w].claimed THEN tx[w].note[x] ELSE note[x]) /\ gateway' = gateway
      BY <2>3 DEF CommitRun
    <3>2. x \in tx[w].claimed => Owns(w, x) BY <1>1 DEF OutboxInv, OutboxRuns
    <3>3. QED BY <3>1, <3>2 DEF Owns, OverStays
  <2>4. ASSUME NEW e \in Events, NEW d \in Channels, NoteDue(e, d) PROVE OverStays(x, c)
    <3>1. note \in [Events -> [Channels -> Note]] BY <1>1 DEF OutboxInv, OutboxRows
    <3>2. gateway' = gateway /\ note' = [note EXCEPT ![e][d].due = TRUE] BY <2>4 DEF NoteDue
    <3>3. note'[x][c].status = note[x][c].status BY <3>1, <3>2 DEF Note
    <3>4. QED BY <3>2, <3>3 DEF OverStays
  <2>5. QED BY <1>1, <2>1, <2>2, <2>3, <2>4
         DEF OutboxNext, outboxVars, Time, Emit, Recover, SwitchChannel, Claim, Rollback, EventDue
<1>2. OutboxInv /\ [OutboxNext]_outboxVars =>
          [\A e \in Events, c \in Channels :
              note[e][c].status \in Terminal =>
                  gateway'[e][c] = gateway[e][c] /\ note'[e][c].status = note[e][c].status]_outboxVars
  BY <1>1 DEF OverStays
<1>3. QED BY <1>2, OutboxInductive, PTL DEF NothingSentTwice, OutboxSpec
=============================================================================

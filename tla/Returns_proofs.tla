--------------------------- MODULE Returns_proofs ---------------------------
(***************************************************************************)
(* No unit is returned twice and nothing is paid back twice, for every     *)
(* order, any number of returns and any number of concurrent requests.     *)
(*                                                                         *)
(* The units a request may still add to what is committed are within the   *)
(* purchase because at most one request holds the order's lines; and what  *)
(* has been paid back is within the payment because only returns that      *)
(* still count are refunded, each for the worth of its units.              *)
(***************************************************************************)
EXTENDS Returns, SumTheorems

-----------------------------------------------------------------------------
(* The inductive invariant *)

\* A request creates a return that no other request and no row has.
RequestsFresh ==
    \A w \in Handlers : work[w].op = "create" =>
        /\ ret[work[w].ret].status = "none"
        /\ \A v \in Handlers : v # w /\ work[v].op = "create" => work[v].ret # work[w].ret

OneHoldsLines ==
    \A w, v \in Handlers :
        /\ work[w].op = "create" /\ work[w].locked
        /\ work[v].op = "create" /\ work[v].locked
        => v = w

\* What the holder of the lines has checked is still true.
LockedFits ==
    \A w \in Handlers : work[w].op = "create" /\ work[w].locked => WithinPurchase(work[w].units)

\* Only an inspected return has a refund, and it still counts.
RefundsOfInspected ==
    /\ \A r \in Returns : refund[r] # "none" \/ paidBack[r] # "none" =>
           ret[r].status \in {"refund_pending", "refunded"}
    /\ \A w \in Handlers : work[w].op = "process" => refund[work[w].ret] # "none"

\* A final answer of the provider stays its answer.
AnswersTrue ==
    \A w \in Handlers :
        work[w].op = "process" /\ work[w].answer \in {"completed", "failed"} =>
            paidBack[work[w].ret] = work[w].answer

ReturnsInv ==
    /\ ReturnsTypeOK
    /\ RequestsFresh
    /\ OneHoldsLines
    /\ LockedFits
    /\ NeverOverReturned
    /\ RefundsOfInspected
    /\ AnswersTrue
    /\ RefundedTogether
    /\ RefundFollowsProvider

-----------------------------------------------------------------------------
(* What is committed *)

LEMMA QuantitiesNatural == Quantities \subseteq Nat
BY LinesAssumption DEF Quantities

LEMMA UnitsNatural ==
    ASSUME NEW q \in Requests \cup {Nothing}, NEW l \in Lines
    PROVE  q[l] \in Nat
<1>1. CASE q = Nothing
  BY <1>1 DEF Nothing
<1>2. CASE q \in Requests
  <2>1. q \in [Lines -> Quantities]
    BY <1>2 DEF Requests
  <2> QED BY <2>1, QuantitiesNatural
<1> QED BY <1>1, <1>2

LEMMA CommittedNatural ==
    ASSUME ReturnsTypeOK, NEW l \in Lines
    PROVE  Committed(l) \in Nat
<1> DEFINE f == [r \in Returns |-> ret[r].units[l]]
           S == {r \in Returns : Counts(r)}
<1>1. \A r \in Returns : f[r] \in Nat
  BY UnitsNatural DEF ReturnsTypeOK
<1>2. S \in SUBSET Returns /\ IsFiniteSet(Returns)
  BY LinesAssumption
<1> HIDE DEF f, S
<1>3. SumFunctionOnSet(f, S) \in Nat
  BY <1>1, <1>2, SumOfNaturals
<1> QED BY <1>3 DEF Committed, f, S

LEMMA CommittedNaturalNext ==
    ASSUME ReturnsTypeOK', NEW l \in Lines
    PROVE  Committed(l)' \in Nat
<1>1. PICK h : h = [r \in Returns |-> ret'[r].units[l]]
  OBVIOUS
<1>2. PICK U : U = {r \in Returns : Counts(r)'}
  OBVIOUS
<1>3. \A r \in Returns : h[r] \in Nat
  BY <1>1, UnitsNatural DEF ReturnsTypeOK
<1>4. U \in SUBSET Returns /\ IsFiniteSet(Returns)
  BY <1>2, LinesAssumption
<1>5. SumFunctionOnSet(h, U) \in Nat
  BY <1>3, <1>4, SumOfNaturals
<1> QED BY <1>1, <1>2, <1>5 DEF Committed

\* A step after which no more returns count commits no more units.
LEMMA CommittedShrinks ==
    ASSUME ReturnsTypeOK, ReturnsTypeOK',
           \A r \in Returns : Counts(r)' => Counts(r) /\ ret'[r].units = ret[r].units,
           NEW l \in Lines
    PROVE  Committed(l)' <= Committed(l)
<1> DEFINE f == [r \in Returns |-> ret[r].units[l]]
           S == {r \in Returns : Counts(r)}
<1>1. PICK g : g = f
  OBVIOUS
<1>2. PICK h : h = f'
  OBVIOUS
<1>3. PICK T : T = S
  OBVIOUS
<1>4. PICK U : U = S'
  OBVIOUS
<1>5. (\A r \in Returns : g[r] \in Nat) /\ (\A r \in Returns : h[r] \in Nat)
  BY <1>1, <1>2, UnitsNatural DEF ReturnsTypeOK
<1>6. U \in SUBSET T /\ T \in SUBSET Returns /\ \A r \in U : h[r] = g[r]
  BY <1>1, <1>2, <1>3, <1>4
<1>7. Committed(l) = SumFunctionOnSet(g, T)
  BY <1>1, <1>3 DEF Committed
<1>8. Committed(l)' = SumFunctionOnSet(h, U)
  BY <1>2, <1>4 DEF Committed
<1> HIDE DEF f, S
<1>9. IsFiniteSet(T) /\ IsFiniteSet(U)
  BY <1>6, LinesAssumption, FS_Subset
<1>10. SumFunctionOnSet(g, U) <= SumFunctionOnSet(g, T)
  <2>1. \A r \in T : g[r] \in Nat
    BY <1>5, <1>6
  <2> QED BY <1>6, <1>9, <2>1, SumOfNaturals
<1>11. SumFunctionOnSet(h, U) = SumFunctionOnSet(g, U)
  <2>1. \A r \in U : g[r] \in Int /\ h[r] = g[r]
    BY <1>5, <1>6
  <2> QED BY <1>9, <2>1, SumsAgree
<1> QED BY <1>7, <1>8, <1>10, <1>11

\* A return that starts to count adds its units.
LEMMA CommittedGrows ==
    ASSUME ReturnsTypeOK, ReturnsTypeOK', NEW x \in Returns, ~Counts(x), Counts(x)',
           \A r \in Returns : r # x => ret'[r] = ret[r],
           NEW l \in Lines
    PROVE  Committed(l)' = Committed(l) + ret'[x].units[l]
<1> DEFINE f == [r \in Returns |-> ret[r].units[l]]
           S == {r \in Returns : Counts(r)}
<1>1. PICK g : g = f
  OBVIOUS
<1>2. PICK h : h = f'
  OBVIOUS
<1>3. PICK T : T = S
  OBVIOUS
<1>4. PICK U : U = S'
  OBVIOUS
<1>5. (\A r \in Returns : g[r] \in Nat) /\ (\A r \in Returns : h[r] \in Nat)
  BY <1>1, <1>2, UnitsNatural DEF ReturnsTypeOK
<1>6. T \in SUBSET Returns /\ x \notin T /\ U = T \cup {x} /\ h[x] = ret'[x].units[l]
  <2>1. T \in SUBSET Returns /\ x \notin T /\ h[x] = ret'[x].units[l]
    BY <1>2, <1>3
  <2>2. ASSUME NEW r \in Returns PROVE r \in U <=> r \in T \cup {x}
    BY <1>3, <1>4 DEF Counts
  <2>3. U \in SUBSET Returns
    BY <1>4
  <2> QED BY <2>1, <2>2, <2>3
<1>7. \A r \in T : h[r] = g[r]
  BY <1>1, <1>2, <1>6
<1>8. Committed(l) = SumFunctionOnSet(g, T)
  BY <1>1, <1>3 DEF Committed
<1>9. Committed(l)' = SumFunctionOnSet(h, U)
  BY <1>2, <1>4 DEF Committed
<1> HIDE DEF f, S
<1>10. IsFiniteSet(T)
  BY <1>6, LinesAssumption, FS_Subset
<1>11. SumFunctionOnSet(h, T) = SumFunctionOnSet(g, T)
  <2>1. \A r \in T : g[r] \in Int /\ h[r] = g[r]
    BY <1>5, <1>6, <1>7
  <2> QED BY <1>10, <2>1, SumsAgree
<1>12. /\ SumFunctionOnSet(h, T) \in Int
       /\ SumFunctionOnSet(h, T \cup {x}) = SumFunctionOnSet(h, T) + h[x]
  <2>1. \A r \in T \cup {x} : h[r] \in Int
    BY <1>5, <1>6
  <2>2. x \notin T
    BY <1>6
  <2> QED BY <1>10, <2>1, <2>2, SumWith
<1> QED BY <1>6, <1>8, <1>9, <1>11, <1>12

-----------------------------------------------------------------------------
(* What is paid back *)

LEMMA WorthNatural ==
    ASSUME NEW q \in Requests \cup {Nothing}
    PROVE  Worth(q) \in Nat
<1> DEFINE f == [l \in Lines |-> Price[l] * q[l]]
<1>1. \A l \in Lines : f[l] \in Nat
  <2> TAKE l \in Lines
  <2>1. q[l] \in Nat /\ Price[l] \in Nat
    BY UnitsNatural, LinesAssumption
  <2>2. ASSUME NEW m \in Nat, NEW n \in Nat PROVE m * n \in Nat
    OBVIOUS
  <2> QED BY <2>1, <2>2
<1>2. Lines \in SUBSET Lines /\ IsFiniteSet(Lines)
  BY LinesAssumption
<1> HIDE DEF f
<1>3. SumFunctionOnSet(f, Lines) \in Nat
  BY <1>1, <1>2, SumOfNaturals
<1> QED BY <1>3 DEF Worth, f

\* The returns that count are together worth what their units are worth.
LEMMA WorthOfCommitted ==
    ASSUME ReturnsTypeOK
    PROVE  Refunds({r \in Returns : Counts(r)})
             = SumFunctionOnSet([l \in Lines |-> Price[l] * Committed(l)], Lines)
<1> DEFINE C == {r \in Returns : Counts(r)}
           units(r, l) == ret[r].units[l]
           a == [r \in C |-> [l \in Lines |-> Price[l] * units(r, l)]]
           am == [r \in Returns |-> Amount(r)]
           Row == [r \in C |-> SumFunctionOnSet(a[r], Lines)]
           Column == [l \in Lines |-> SumFunctionOnSet([r \in C |-> a[r][l]], C)]
           Cost == [l \in Lines |-> Price[l] * Committed(l)]
<1>1. C \in SUBSET Returns /\ IsFiniteSet(C) /\ IsFiniteSet(Lines)
  BY LinesAssumption, FS_Subset
<1>2. \A r \in Returns : \A l \in Lines : units(r, l) \in Nat
  BY UnitsNatural DEF ReturnsTypeOK
<1>3. \A l \in Lines : Price[l] \in Nat
  BY LinesAssumption
<1>4. \A r \in C : \A l \in Lines : a[r][l] \in Int
  <2>1. ASSUME NEW m \in Nat, NEW n \in Nat PROVE m * n \in Int
    OBVIOUS
  <2> HIDE DEF units, C
  <2> QED BY <1>1, <1>2, <1>3, <2>1
<1>5. \A r \in C : am[r] \in Int /\ Row[r] = am[r]
  <2> TAKE r \in C
  <2>1. Row[r] = am[r]
    BY DEF Amount, Worth
  <2>2. Amount(r) \in Nat
    BY WorthNatural DEF ReturnsTypeOK, Amount
  <2> QED BY <2>1, <2>2
<1>6. SumFunctionOnSet(Row, C) = SumFunctionOnSet(am, C)
  <2> HIDE DEF Row, am, C
  <2> QED BY <1>1, <1>5, SumsAgree
<1>7. SumFunctionOnSet(Row, C) = SumFunctionOnSet(Column, Lines)
  <2> HIDE DEF a, C
  <2> QED BY <1>1, <1>4, SumsExchange
<1>8. \A l \in Lines : Column[l] = Cost[l]
  <2> TAKE l \in Lines
  <2> DEFINE f == [r \in C |-> units(r, l)]
             g == [r \in Returns |-> ret[r].units[l]]
  <2>1. \A r \in C : g[r] \in Int /\ f[r] = g[r]
    BY <1>2
  <2>2. \A r \in C : f[r] \in Int
    BY <1>2
  <2>3. Price[l] \in Int
    BY <1>3
  <2>4. [r \in C |-> a[r][l]] = [r \in C |-> Price[l] * f[r]]
    OBVIOUS
  <2>5. SumFunctionOnSet(g, C) = Committed(l)
    BY DEF Committed
  <2> HIDE DEF f, g, C
  <2>6. SumFunctionOnSet([r \in C |-> Price[l] * f[r]], C) = Price[l] * SumFunctionOnSet(f, C)
    BY <1>1, <2>2, <2>3, SumsScale
  <2>7. SumFunctionOnSet(f, C) = SumFunctionOnSet(g, C)
    BY <1>1, <2>1, SumsAgree
  <2>8. Column[l] = SumFunctionOnSet([r \in C |-> a[r][l]], C)
    OBVIOUS
  <2> HIDE DEF Column, a
  <2> QED BY <2>4, <2>5, <2>6, <2>7, <2>8
<1>9. Column = Cost
  <2> DEFINE k(l) == SumFunctionOnSet([r \in C |-> a[r][l]], C)
             c(l) == Price[l] * Committed(l)
  <2>1. \A l \in Lines : k(l) = c(l)
    BY <1>8
  <2>2. Column = [l \in Lines |-> k(l)] /\ Cost = [l \in Lines |-> c(l)]
    OBVIOUS
  <2> HIDE DEF k, c
  <2>3. [l \in Lines |-> k(l)] = [l \in Lines |-> c(l)]
    BY <2>1
  <2> QED BY <2>2, <2>3
<1>10. Refunds(C) = SumFunctionOnSet(am, C)
  BY DEF Refunds
<1> HIDE DEF Row, Column, am
<1> QED BY <1>6, <1>7, <1>9, <1>10

LEMMA PaidBackWithinPayment ==
    ASSUME ReturnsInv
    PROVE  NeverOverRefunded
<1> DEFINE C == {r \in Returns : Counts(r)}
           R == {r \in Returns : paidBack[r] = "completed"}
           am == [r \in Returns |-> Amount(r)]
           f == [l \in Lines |-> Price[l] * Committed(l)]
           g == [l \in Lines |-> Price[l] * Purchased[l]]
<1>1. R \in SUBSET C /\ IsFiniteSet(C)
  <2>1. R \in SUBSET C
    BY DEF ReturnsInv, RefundsOfInspected, Counts
  <2>2. C \in SUBSET Returns
    OBVIOUS
  <2> QED BY <2>1, <2>2, LinesAssumption, FS_Subset
<1>2. \A r \in C : am[r] \in Nat
  BY WorthNatural DEF ReturnsInv, ReturnsTypeOK, Amount
<1>3. Refunds(R) = SumFunctionOnSet(am, R) /\ Refunds(C) = SumFunctionOnSet(am, C)
  BY DEF Refunds
<1>4. /\ SumFunctionOnSet(am, R) \in Nat /\ SumFunctionOnSet(am, C) \in Nat
      /\ SumFunctionOnSet(am, R) <= SumFunctionOnSet(am, C)
  <2> HIDE DEF am, R, C
  <2> QED BY <1>1, <1>2, SumOfNaturals
<1>5. \A l \in Lines : f[l] \in Int /\ g[l] \in Int /\ f[l] <= g[l]
  <2> TAKE l \in Lines
  <2>1. Price[l] \in Nat /\ Committed(l) \in Nat /\ Purchased[l] \in Nat /\ Committed(l) <= Purchased[l]
    BY CommittedNatural, LinesAssumption DEF ReturnsInv, NeverOverReturned
  <2>2. ASSUME NEW k \in Nat, NEW m \in Nat, NEW n \in Nat, m <= n
        PROVE  k * m \in Int /\ k * n \in Int /\ k * m <= k * n
    <3>1. k * n = k * m + k * (n - m) /\ n - m \in Nat
      BY <2>2
    <3>2. \A i, j \in Nat : i * j \in Nat
      OBVIOUS
    <3>3. k * m \in Nat /\ k * n \in Nat /\ k * (n - m) \in Nat
      BY <3>1, <3>2
    <3> QED BY <3>1, <3>3
  <2>3. /\ Price[l] * Committed(l) \in Int /\ Price[l] * Purchased[l] \in Int
        /\ Price[l] * Committed(l) <= Price[l] * Purchased[l]
    BY <2>1, <2>2
  <2>4. f[l] = Price[l] * Committed(l) /\ g[l] = Price[l] * Purchased[l]
    OBVIOUS
  <2> HIDE DEF f, g
  <2> QED BY <2>3, <2>4
<1>6. SumFunctionOnSet(f, Lines) <= SumFunctionOnSet(g, Lines)
  <2> HIDE DEF f, g
  <2> QED BY <1>5, LinesAssumption, SumsCompare
<1>7. SumFunctionOnSet(f, Lines) = Refunds(C)
  BY WorthOfCommitted DEF ReturnsInv
<1>8. SumFunctionOnSet(g, Lines) = Paid
  BY DEF Paid, Worth
<1>9. SumFunctionOnSet(g, Lines) \in Int
  <2>1. \A l \in Lines : g[l] \in Int
    BY <1>5
  <2> HIDE DEF g
  <2> QED BY <2>1, LinesAssumption, SumIsInteger
<1>10. Refunds(R) <= Paid
  <2> HIDE DEF f, g, am, R, C
  <2> QED BY <1>3, <1>4, <1>6, <1>7, <1>8, <1>9
<1> QED BY <1>10 DEF NeverOverRefunded

-----------------------------------------------------------------------------
(* The invariant is inductive *)

USE DEF AtRest, Creating, Processing, CreateRequest, ProcessRequest, Work

LEMMA InitHolds == ReturnsInit => ReturnsInv
<1> SUFFICES ASSUME ReturnsInit PROVE ReturnsInv
  OBVIOUS
<1>1. ReturnsTypeOK
  BY DEF ReturnsInit, ReturnsTypeOK, ReturnStatus, RefundStatus, Answers
<1>2. NeverOverReturned
  <2> SUFFICES ASSUME NEW l \in Lines PROVE Committed(l) <= Purchased[l]
    BY DEF NeverOverReturned
  <2>1. {r \in Returns : Counts(r)} = {}
    BY DEF ReturnsInit, Counts
  <2>2. Committed(l) = 0
    BY <2>1, SumOfNone DEF Committed
  <2> QED BY <2>2, LinesAssumption
<1>3. \A w \in Handlers : work[w].op = "idle"
  BY DEF ReturnsInit
<1>4. RequestsFresh /\ OneHoldsLines /\ LockedFits /\ AnswersTrue
  BY <1>3 DEF RequestsFresh, OneHoldsLines, LockedFits, AnswersTrue
<1>5. RefundsOfInspected /\ RefundedTogether /\ RefundFollowsProvider
  BY <1>3 DEF ReturnsInit, RefundsOfInspected, RefundedTogether, RefundFollowsProvider
<1> QED BY <1>1, <1>2, <1>4, <1>5 DEF ReturnsInv

LEMMA CreateTyped ==
    ASSUME ReturnsTypeOK, NEW w \in Handlers, work[w].op = "create"
    PROVE  work[w] \in CreateRequest
BY DEF ReturnsTypeOK

LEMMA ProcessTyped ==
    ASSUME ReturnsTypeOK, NEW w \in Handlers, work[w].op = "process"
    PROVE  work[w] \in ProcessRequest
BY DEF ReturnsTypeOK

LEMMA TypeHolds ==
    ASSUME ReturnsTypeOK, ReturnsNext
    PROVE  ReturnsTypeOK'
<1> USE DEF ReturnsTypeOK
<1>1. ASSUME NEW r \in Returns, Move(r) PROVE ReturnsTypeOK'
  <2> PICK m \in Moves : /\ ret[r].status = m[1]
                         /\ ret' = [ret EXCEPT ![r].status = m[2]]
    BY <1>1 DEF Move
  <2>1. m[2] \in ReturnStatus
    BY DEF Moves, ReturnStatus, AfterInspection
  <2>2. [ret[r] EXCEPT !.status = m[2]] \in [status : ReturnStatus, units : Requests \cup {Nothing}]
    BY <2>1
  <2>3. ret' \in [Returns -> [status : ReturnStatus, units : Requests \cup {Nothing}]]
    BY <2>2
  <2> QED BY <1>1, <2>3 DEF Move
<1>2. ASSUME NEW r \in Returns, CreateRefund(r) PROVE ReturnsTypeOK'
  BY <1>2 DEF CreateRefund, RefundStatus
<1>3. ASSUME NEW w \in Handlers, NEW r \in Returns, BeginProcess(w, r) PROVE ReturnsTypeOK'
  BY <1>3 DEF BeginProcess
<1>4. ASSUME NEW w \in Handlers, NEW r \in Returns, NEW q \in Requests, BeginReturn(w, r, q)
      PROVE  ReturnsTypeOK'
  BY <1>4 DEF BeginReturn
<1>5. ASSUME NEW w \in Handlers, LockLines(w) PROVE ReturnsTypeOK'
  <2>1. work[w] \in CreateRequest
    BY <1>5, CreateTyped DEF LockLines
  <2> QED BY <1>5, <2>1 DEF LockLines
<1>6. ASSUME NEW w \in Handlers, CommitReturn(w) PROVE ReturnsTypeOK'
  <2>1. work[w] \in CreateRequest
    BY <1>6, CreateTyped DEF CommitReturn
  <2> QED BY <1>6, <2>1 DEF CommitReturn, ReturnStatus
<1>7. ASSUME NEW w \in Handlers, AskProvider(w) PROVE ReturnsTypeOK'
  <2>1. work[w] \in ProcessRequest
    BY <1>7, ProcessTyped DEF AskProvider
  <2> QED BY <1>7, <2>1 DEF AskProvider
<1>8. ASSUME NEW w \in Handlers, CommitProcess(w) PROVE ReturnsTypeOK'
  <2>1. work[w] \in ProcessRequest
    BY <1>8, ProcessTyped DEF CommitProcess
  <2>2. refund' \in [Returns -> RefundStatus]
    BY <1>8, <2>1 DEF CommitProcess, Recorded, Answers, RefundStatus
  <2>3. ret' \in [Returns -> [status : ReturnStatus, units : Requests \cup {Nothing}]]
    <3> DEFINE r == work[w].ret
    <3>1. [ret[r] EXCEPT !.status = "refunded"] \in [status : ReturnStatus, units : Requests \cup {Nothing}]
      BY <2>1 DEF ReturnStatus
    <3>2. ret' = ret \/ ret' = [ret EXCEPT ![r].status = "refunded"]
      BY <1>8 DEF CommitProcess, MarkRefunded
    <3> QED BY <3>1, <3>2
  <2> QED BY <1>8, <2>2, <2>3 DEF CommitProcess
<1>9. ASSUME NEW w \in Handlers, AbandonReturn(w) PROVE ReturnsTypeOK'
  BY <1>9 DEF AbandonReturn
<1>10. CASE CancelReturnedOrder
  BY <1>10 DEF CancelReturnedOrder
<1> QED
  BY <1>1, <1>2, <1>3, <1>4, <1>5, <1>6, <1>7, <1>8, <1>9, <1>10 DEF ReturnsNext

\* Every step but the creation of a return: no more is committed than before,
\* and what a request holds the lines for has been checked.
LEMMA NoMoreCommitted ==
    ASSUME ReturnsTypeOK, ReturnsTypeOK', LockedFits, NeverOverReturned,
           \A r \in Returns : Counts(r)' => Counts(r) /\ ret'[r].units = ret[r].units,
           \A w \in Handlers : work'[w].op = "create" /\ work'[w].locked =>
               work'[w] = work[w] \/ WithinPurchase(work'[w].units)
    PROVE  LockedFits' /\ NeverOverReturned'
<1>1. \A l \in Lines : Committed(l) \in Nat /\ Committed(l)' \in Nat /\ Committed(l)' <= Committed(l)
  <2> TAKE l \in Lines
  <2>1. Committed(l) \in Nat
    BY CommittedNatural
  <2>2. Committed(l)' \in Nat
    BY CommittedNaturalNext
  <2>3. Committed(l)' <= Committed(l)
    BY CommittedShrinks
  <2> QED BY <2>1, <2>2, <2>3
<1>2. NeverOverReturned'
  BY <1>1, LinesAssumption DEF NeverOverReturned
<1>3. LockedFits'
  <2> SUFFICES ASSUME NEW w \in Handlers, work'[w].op = "create", work'[w].locked, NEW l \in Lines
               PROVE  Committed(l)' + work'[w].units[l] <= Purchased[l]
    BY DEF LockedFits, WithinPurchase
  <2>1. WithinPurchase(work'[w].units)
    BY DEF LockedFits
  <2>2. Committed(l) + work'[w].units[l] <= Purchased[l]
    BY <2>1 DEF WithinPurchase
  <2>3. work'[w].units[l] \in Nat
    <3>1. work'[w].units \in Requests
      BY DEF ReturnsTypeOK
    <3> QED BY <3>1, UnitsNatural
  <2> QED BY <1>1, <2>2, <2>3, LinesAssumption
<1> QED BY <1>2, <1>3

LEMMA UnitsHold ==
    ASSUME ReturnsInv, ReturnsTypeOK', ReturnsNext
    PROVE  RequestsFresh' /\ OneHoldsLines' /\ LockedFits' /\ NeverOverReturned'
<1> USE DEF ReturnsInv
<1> DEFINE Kept == \A r \in Returns : Counts(r)' => Counts(r) /\ ret'[r].units = ret[r].units
           Checked == \A w \in Handlers : work'[w].op = "create" /\ work'[w].locked =>
                          work'[w] = work[w] \/ WithinPurchase(work'[w].units)
           Good == RequestsFresh' /\ OneHoldsLines' /\ LockedFits' /\ NeverOverReturned'
<1>0. ASSUME Kept, Checked, RequestsFresh', OneHoldsLines' PROVE Good
  BY <1>0, NoMoreCommitted
<1> HIDE DEF Good
<1>1. ASSUME NEW r \in Returns, Move(r) PROVE Good
  <2>1. PICK m \in Moves : /\ ret[r].status = m[1]
                           /\ ret' = [ret EXCEPT ![r].status = m[2]]
    BY <1>1 DEF Move
  <2>2. work' = work
    BY <1>1 DEF Move
  <2>3. /\ m[1] # "none"
        /\ m[1] \in {"none", "rejected", "cancelled"} => m[2] \in {"none", "rejected", "cancelled"}
    BY DEF Moves, AfterInspection
  <2>4. ret'[r].status = m[2] /\ ret'[r].units = ret[r].units
        /\ \A s \in Returns : s # r => ret'[s] = ret[s]
    BY <2>1 DEF ReturnsTypeOK
  <2>5. Kept
    BY <2>1, <2>3, <2>4 DEF Counts
  <2>6. Checked
    BY <2>2
  <2>7. RequestsFresh'
    <3>1. \A w \in Handlers : work[w].op = "create" => work[w].ret \in Returns /\ work[w].ret # r
      BY <2>1, <2>3, CreateTyped DEF RequestsFresh
    <3> QED BY <2>2, <2>4, <3>1 DEF RequestsFresh
  <2>8. OneHoldsLines'
    BY <2>2 DEF OneHoldsLines
  <2> HIDE DEF Kept, Checked
  <2> QED BY <1>0, <2>5, <2>6, <2>7, <2>8
<1>2. ASSUME ret' = ret, NEW w \in Handlers, \A v \in Handlers : v # w => work'[v] = work[v],
             work'[w].op # "create"
      PROVE  Good
  <2>1. Kept
    BY <1>2 DEF Counts
  <2>2. Checked
    BY <1>2
  <2>3. RequestsFresh' /\ OneHoldsLines'
    BY <1>2 DEF RequestsFresh, OneHoldsLines
  <2> HIDE DEF Kept, Checked
  <2> QED BY <1>0, <2>1, <2>2, <2>3
<1>3. ASSUME ret' = ret, work' = work PROVE Good
  <2>1. Kept /\ Checked
    BY <1>3 DEF Counts
  <2>2. RequestsFresh' /\ OneHoldsLines'
    BY <1>3 DEF RequestsFresh, OneHoldsLines
  <2> HIDE DEF Kept, Checked
  <2> QED BY <1>0, <2>1, <2>2
<1>4. ASSUME NEW r \in Returns, CreateRefund(r) PROVE Good
  BY <1>3, <1>4 DEF CreateRefund
<1>5. ASSUME NEW w \in Handlers, NEW r \in Returns, BeginProcess(w, r) PROVE Good
  <2>1. /\ ret' = ret /\ work'[w].op # "create"
        /\ \A v \in Handlers : v # w => work'[v] = work[v]
    BY <1>5 DEF BeginProcess, ReturnsTypeOK
  <2> QED BY <1>2, <2>1
<1>6. ASSUME NEW w \in Handlers, NEW r \in Returns, NEW q \in Requests, BeginReturn(w, r, q) PROVE Good
  <2>1. /\ ret' = ret /\ work'[w] = Creating(r, q, FALSE) /\ FreshReturn(r)
        /\ \A v \in Handlers : v # w => work'[v] = work[v]
    BY <1>6 DEF BeginReturn, ReturnsTypeOK
  <2>2. Kept
    BY <2>1 DEF Counts
  <2>3. Checked
    BY <2>1
  <2>4. RequestsFresh'
    BY <2>1 DEF RequestsFresh, FreshReturn
  <2>5. OneHoldsLines'
    BY <2>1 DEF OneHoldsLines
  <2> HIDE DEF Kept, Checked
  <2> QED BY <1>0, <2>2, <2>3, <2>4, <2>5
<1>7. ASSUME NEW w \in Handlers, LockLines(w) PROVE Good
  <2>1. /\ ret' = ret /\ LinesFree /\ WithinPurchase(work[w].units)
        /\ work[w].op = "create"
        /\ work'[w] = Creating(work[w].ret, work[w].units, TRUE)
        /\ \A v \in Handlers : v # w => work'[v] = work[v]
    BY <1>7 DEF LockLines, ReturnsTypeOK
  <2>2. Kept
    BY <2>1 DEF Counts
  <2>3. Checked
    BY <2>1
  <2>4. RequestsFresh'
    BY <2>1 DEF RequestsFresh
  <2>5. OneHoldsLines'
    BY <2>1 DEF OneHoldsLines, LinesFree
  <2> HIDE DEF Kept, Checked
  <2> QED BY <1>0, <2>2, <2>3, <2>4, <2>5
<1>8. ASSUME NEW w \in Handlers, CommitReturn(w) PROVE Good
  <2>1. work[w] \in CreateRequest /\ work[w].op = "create" /\ work[w].locked
    BY <1>8, CreateTyped DEF CommitReturn
  <2> PICK x \in Returns : x = work[w].ret
    BY <2>1
  <2>2. /\ x \in Returns /\ ret[x].status = "none"
        /\ ret'[x] = [status |-> "requested", units |-> work[w].units]
        /\ \A s \in Returns : s # x => ret'[s] = ret[s]
        /\ work'[w].op # "create"
        /\ \A v \in Handlers : v # w => work'[v] = work[v]
    BY <1>8, <2>1 DEF CommitReturn, ReturnsTypeOK, RequestsFresh
  <2>3. RequestsFresh'
    <3>1. \A v \in Handlers : v # w /\ work[v].op = "create" => work[v].ret \in Returns /\ work[v].ret # x
      BY <2>1, CreateTyped DEF RequestsFresh
    <3> QED BY <2>2, <3>1 DEF RequestsFresh
  <2>4. OneHoldsLines'
    BY <2>2 DEF OneHoldsLines
  <2>5. LockedFits'
    BY <2>1, <2>2 DEF OneHoldsLines, LockedFits
  <2>6. NeverOverReturned'
    <3> SUFFICES ASSUME NEW l \in Lines PROVE Committed(l)' <= Purchased[l]
      BY DEF NeverOverReturned
    <3>1. ~Counts(x) /\ Counts(x)' /\ ret'[x].units[l] = work[w].units[l]
      BY <2>2 DEF Counts
    <3>2. \A s \in Returns : s # x => ret'[s] = ret[s]
      BY <2>2
    <3>4. Committed(l)' = Committed(l) + ret'[x].units[l]
      BY <3>1, <3>2, CommittedGrows
    <3>5. Committed(l) + work[w].units[l] <= Purchased[l]
      BY <2>1 DEF LockedFits, WithinPurchase
    <3> QED BY <3>1, <3>4, <3>5
  <2> QED BY <2>3, <2>4, <2>5, <2>6 DEF Good
<1>9. ASSUME NEW w \in Handlers, AskProvider(w) PROVE Good
  <2>1. /\ ret' = ret /\ work'[w].op # "create"
        /\ \A v \in Handlers : v # w => work'[v] = work[v]
    BY <1>9 DEF AskProvider, ReturnsTypeOK
  <2> QED BY <1>2, <2>1
<1>10. ASSUME NEW w \in Handlers, CommitProcess(w) PROVE Good
  <2> PICK r \in Returns : r = work[w].ret
    BY <1>10, ProcessTyped DEF CommitProcess
  <2>1. /\ work'[w].op # "create"
        /\ \A v \in Handlers : v # w => work'[v] = work[v]
    BY <1>10 DEF CommitProcess, ReturnsTypeOK
  <2>3. \/ ret' = ret
        \/ ret[r].status = "refund_pending" /\ ret' = [ret EXCEPT ![r].status = "refunded"]
    BY <1>10 DEF CommitProcess, MarkRefunded
  <2>4. ASSUME NEW s \in Returns
        PROVE  /\ ret'[s].units = ret[s].units
               /\ \/ ret'[s].status = ret[s].status
                  \/ s = r /\ ret[s].status = "refund_pending" /\ ret'[s].status = "refunded"
    <3>1. CASE ret' = ret
      BY <3>1
    <3>2. CASE ret[r].status = "refund_pending" /\ ret' = [ret EXCEPT ![r].status = "refunded"]
      <4>1. ret'[r] = [ret[r] EXCEPT !.status = "refunded"]
        BY <3>2 DEF ReturnsTypeOK
      <4>2. s # r => ret'[s] = ret[s]
        BY <3>2 DEF ReturnsTypeOK
      <4>3. ret'[r].units = ret[r].units /\ ret'[r].status = "refunded"
        BY <4>1 DEF ReturnsTypeOK
      <4> QED BY <3>2, <4>2, <4>3
    <3> QED BY <2>3, <3>1, <3>2
  <2>5. Kept
    BY <2>4 DEF Counts
  <2>6. Checked
    BY <2>1
  <2>7. RequestsFresh'
    <3>1. \A v \in Handlers : work[v].op = "create" => work[v].ret \in Returns
      BY CreateTyped
    <3> QED BY <2>1, <2>4, <3>1 DEF RequestsFresh
  <2>8. OneHoldsLines'
    BY <2>1 DEF OneHoldsLines
  <2> HIDE DEF Kept, Checked
  <2> QED BY <1>0, <2>5, <2>6, <2>7, <2>8
<1>11. ASSUME NEW w \in Handlers, AbandonReturn(w) PROVE Good
  <2>1. /\ ret' = ret /\ work'[w].op # "create"
        /\ \A v \in Handlers : v # w => work'[v] = work[v]
    BY <1>11 DEF AbandonReturn, ReturnsTypeOK
  <2> QED BY <1>2, <2>1
<1>12. ASSUME CancelReturnedOrder PROVE Good
  BY <1>3, <1>12 DEF CancelReturnedOrder
<1>13. Good
  BY <1>1, <1>4, <1>5, <1>6, <1>7, <1>8, <1>9, <1>10, <1>11, <1>12 DEF ReturnsNext
<1> QED BY <1>13 DEF Good

\* A step that keeps the refunds, what was paid back and which returns have
\* been inspected.
LEMMA MoneyKept ==
    ASSUME ReturnsInv, refund' = refund, paidBack' = paidBack,
           \A r \in Returns : \/ ret'[r].status = ret[r].status
                              \/ /\ ret[r].status \notin {"refund_pending", "refunded"}
                                 /\ ret'[r].status # "refunded",
           \A w \in Handlers : work'[w].op = "process" =>
               \/ work'[w] = work[w]
               \/ refund[work'[w].ret] # "none" /\ work'[w].answer = "none"
    PROVE  RefundsOfInspected' /\ AnswersTrue' /\ RefundedTogether' /\ RefundFollowsProvider'
<1> USE DEF ReturnsInv
<1>1. RefundsOfInspected'
  BY DEF RefundsOfInspected
<1>2. AnswersTrue'
  BY DEF AnswersTrue
<1>3. RefundedTogether'
  BY DEF RefundedTogether
<1>4. RefundFollowsProvider'
  BY DEF RefundFollowsProvider
<1> QED BY <1>1, <1>2, <1>3, <1>4

LEMMA MoneyHolds ==
    ASSUME ReturnsInv, ReturnsNext
    PROVE  RefundsOfInspected' /\ AnswersTrue' /\ RefundedTogether' /\ RefundFollowsProvider'
<1> USE DEF ReturnsInv
<1> DEFINE Good == RefundsOfInspected' /\ AnswersTrue' /\ RefundedTogether' /\ RefundFollowsProvider'
           StatusKept == \A r \in Returns : \/ ret'[r].status = ret[r].status
                                            \/ /\ ret[r].status \notin {"refund_pending", "refunded"}
                                               /\ ret'[r].status # "refunded"
           WorkKept == \A w \in Handlers : work'[w].op = "process" =>
                           \/ work'[w] = work[w]
                           \/ refund[work'[w].ret] # "none" /\ work'[w].answer = "none"
<1>0. ASSUME refund' = refund, paidBack' = paidBack, StatusKept, WorkKept PROVE Good
  BY <1>0, MoneyKept
<1> HIDE DEF Good
<1>1. ASSUME NEW r \in Returns, Move(r) PROVE Good
  <2>1. PICK m \in Moves : /\ ret[r].status = m[1]
                           /\ ret' = [ret EXCEPT ![r].status = m[2]]
    BY <1>1 DEF Move
  <2>2. m[1] \notin {"refund_pending", "refunded"} /\ m[2] # "refunded"
    BY DEF Moves, AfterInspection
  <2>3. StatusKept
    BY <2>1, <2>2 DEF ReturnsTypeOK
  <2>4. WorkKept
    BY <1>1 DEF Move
  <2> HIDE DEF StatusKept, WorkKept
  <2> QED BY <1>0, <1>1, <2>3, <2>4 DEF Move
<1>2. ASSUME NEW r \in Returns, CreateRefund(r) PROVE Good
  <2>1. /\ ret[r].status = "refund_pending" /\ refund[r] = "none" /\ refund'[r] = "pending"
        /\ \A s \in Returns : s # r => refund'[s] = refund[s]
        /\ ret' = ret /\ paidBack' = paidBack /\ work' = work
    BY <1>2 DEF CreateRefund, ReturnsTypeOK
  <2>2. \A w \in Handlers : work[w].op = "process" => work[w].ret \in Returns
    BY ProcessTyped
  <2>3. RefundsOfInspected'
    BY <2>1, <2>2 DEF RefundsOfInspected
  <2>4. AnswersTrue'
    BY <2>1 DEF AnswersTrue
  <2>5. RefundedTogether' /\ RefundFollowsProvider'
    BY <2>1 DEF RefundedTogether, RefundFollowsProvider
  <2> QED BY <2>3, <2>4, <2>5 DEF Good
<1>3. ASSUME NEW w \in Handlers, NEW r \in Returns, BeginProcess(w, r) PROVE Good
  <2>1. StatusKept
    BY <1>3 DEF BeginProcess
  <2>2. WorkKept
    BY <1>3 DEF BeginProcess, ReturnsTypeOK
  <2> HIDE DEF StatusKept, WorkKept
  <2> QED BY <1>0, <1>3, <2>1, <2>2 DEF BeginProcess
<1>4. ASSUME NEW w \in Handlers, NEW r \in Returns, NEW q \in Requests, BeginReturn(w, r, q) PROVE Good
  <2>1. StatusKept
    BY <1>4 DEF BeginReturn
  <2>2. WorkKept
    BY <1>4 DEF BeginReturn, ReturnsTypeOK
  <2> HIDE DEF StatusKept, WorkKept
  <2> QED BY <1>0, <1>4, <2>1, <2>2 DEF BeginReturn
<1>5. ASSUME NEW w \in Handlers, LockLines(w) PROVE Good
  <2>1. StatusKept
    BY <1>5 DEF LockLines
  <2>2. WorkKept
    BY <1>5 DEF LockLines, ReturnsTypeOK
  <2> HIDE DEF StatusKept, WorkKept
  <2> QED BY <1>0, <1>5, <2>1, <2>2 DEF LockLines
<1>6. ASSUME NEW w \in Handlers, CommitReturn(w) PROVE Good
  <2>1. work[w].ret \in Returns /\ ret[work[w].ret].status = "none"
    BY <1>6, CreateTyped DEF CommitReturn, RequestsFresh
  <2>2. StatusKept
    BY <1>6, <2>1 DEF CommitReturn, ReturnsTypeOK
  <2>3. WorkKept
    BY <1>6 DEF CommitReturn, ReturnsTypeOK
  <2> HIDE DEF StatusKept, WorkKept
  <2> QED BY <1>0, <1>6, <2>2, <2>3 DEF CommitReturn
<1>7. ASSUME NEW w \in Handlers, AskProvider(w) PROVE Good
  <2> PICK r \in Returns : r = work[w].ret
    BY <1>7, ProcessTyped DEF AskProvider
  <2>1. PICK answer \in Answers :
           /\ paidBack[r] \in {"completed", "failed"} => answer = paidBack[r]
           /\ paidBack' = [paidBack EXCEPT ![r] = answer]
           /\ work' = [work EXCEPT ![w] = Processing(r, answer)]
    BY <1>7 DEF AskProvider
  <2>2. /\ paidBack'[r] = answer
        /\ \A s \in Returns : s # r => paidBack'[s] = paidBack[s]
        /\ work'[w] = Processing(r, answer)
        /\ \A v \in Handlers : v # w => work'[v] = work[v]
        /\ ret' = ret /\ refund' = refund /\ work[w].op = "process"
    BY <1>7, <2>1 DEF AskProvider, ReturnsTypeOK
  <2>3. \A s \in Returns : paidBack[s] \in {"completed", "failed"} => paidBack'[s] = paidBack[s]
    BY <2>1, <2>2
  <2>4. refund[r] # "none"
    BY <2>2 DEF RefundsOfInspected
  <2>5. RefundsOfInspected'
    BY <2>2, <2>4 DEF RefundsOfInspected
  <2>6. AnswersTrue'
    <3>1. \A v \in Handlers : work[v].op = "process" => work[v].ret \in Returns
      BY ProcessTyped
    <3> QED BY <2>2, <2>3, <3>1 DEF AnswersTrue
  <2>7. RefundedTogether' /\ RefundFollowsProvider'
    BY <2>2, <2>3 DEF RefundedTogether, RefundFollowsProvider
  <2> QED BY <2>5, <2>6, <2>7 DEF Good
<1>8. ASSUME NEW w \in Handlers, CommitProcess(w) PROVE Good
  <2> PICK r \in Returns : r = work[w].ret
    BY <1>8, ProcessTyped DEF CommitProcess
  <2> PICK answer \in Answers : answer = work[w].answer
    BY <1>8, ProcessTyped DEF CommitProcess
  <2>1. /\ refund[r] = "pending" /\ refund'[r] = answer
        /\ \A s \in Returns : s # r => refund'[s] = refund[s]
        /\ work'[w].op # "process"
        /\ \A v \in Handlers : v # w => work'[v] = work[v]
        /\ paidBack' = paidBack /\ work[w].op = "process"
    BY <1>8 DEF CommitProcess, Recorded, ReturnsTypeOK
  <2>2. /\ answer = "completed" => ret[r].status = "refund_pending" /\ ret'[r].status = "refunded"
        /\ answer # "completed" => ret'[r].status = ret[r].status
        /\ \A s \in Returns : s # r => ret'[s].status = ret[s].status
    <3>1. CASE answer = "completed"
      <4>1. ret[r].status = "refund_pending" /\ ret' = [ret EXCEPT ![r].status = "refunded"]
        BY <1>8, <3>1 DEF CommitProcess, Recorded, MarkRefunded
      <4> QED BY <3>1, <4>1 DEF ReturnsTypeOK
    <3>2. CASE answer # "completed"
      BY <1>8, <3>2 DEF CommitProcess, Recorded, MarkRefunded
    <3> QED BY <3>1, <3>2
  <2>3. answer \in {"completed", "failed"} => paidBack[r] = answer
    BY <2>1 DEF AnswersTrue
  <2>4. RefundsOfInspected'
    <3>1. \A v \in Handlers : work[v].op = "process" => work[v].ret \in Returns
      BY ProcessTyped
    <3>2. \A s \in Returns : ret[s].status \in {"refund_pending", "refunded"}
                              => ret'[s].status \in {"refund_pending", "refunded"}
      BY <2>2
    <3>3. ret[r].status \in {"refund_pending", "refunded"}
      BY <2>1 DEF RefundsOfInspected
    <3>4. answer # "none"
      BY DEF Answers
    <3> QED BY <2>1, <3>1, <3>2, <3>3, <3>4 DEF RefundsOfInspected
  <2>5. AnswersTrue'
    BY <2>1 DEF AnswersTrue
  <2>6. RefundedTogether'
    BY <2>1, <2>2 DEF RefundedTogether
  <2>7. RefundFollowsProvider'
    BY <2>1, <2>3 DEF RefundFollowsProvider
  <2> QED BY <2>4, <2>5, <2>6, <2>7 DEF Good
<1>9. ASSUME NEW w \in Handlers, AbandonReturn(w) PROVE Good
  <2>1. StatusKept
    BY <1>9 DEF AbandonReturn
  <2>2. WorkKept
    BY <1>9 DEF AbandonReturn, ReturnsTypeOK
  <2> HIDE DEF StatusKept, WorkKept
  <2> QED BY <1>0, <1>9, <2>1, <2>2 DEF AbandonReturn
<1>10. ASSUME CancelReturnedOrder PROVE Good
  <2>1. StatusKept /\ WorkKept
    BY <1>10 DEF CancelReturnedOrder
  <2> HIDE DEF StatusKept, WorkKept
  <2> QED BY <1>0, <1>10, <2>1 DEF CancelReturnedOrder
<1>11. Good
  BY <1>1, <1>2, <1>3, <1>4, <1>5, <1>6, <1>7, <1>8, <1>9, <1>10 DEF ReturnsNext
<1> QED BY <1>11 DEF Good

LEMMA Unchanged ==
    ASSUME ReturnsInv, UNCHANGED returnVars
    PROVE  ReturnsInv'
<1>1. ReturnsTypeOK' /\ NeverOverReturned' /\ LockedFits'
  BY DEF returnVars, ReturnsInv, ReturnsTypeOK, NeverOverReturned, LockedFits, WithinPurchase,
         Committed, Counts
<1>2. RequestsFresh' /\ OneHoldsLines' /\ RefundsOfInspected' /\ AnswersTrue'
  BY DEF returnVars, ReturnsInv, RequestsFresh, OneHoldsLines, RefundsOfInspected, AnswersTrue
<1>3. RefundedTogether' /\ RefundFollowsProvider'
  BY DEF returnVars, ReturnsInv, RefundedTogether, RefundFollowsProvider
<1> QED BY <1>1, <1>2, <1>3 DEF ReturnsInv

THEOREM ReturnsInductive == ReturnsSpec => []ReturnsInv
<1>1. ReturnsInv /\ [ReturnsNext]_returnVars => ReturnsInv'
  <2> SUFFICES ASSUME ReturnsInv, [ReturnsNext]_returnVars PROVE ReturnsInv'
    OBVIOUS
  <2>1. CASE ReturnsNext
    <3>1. ReturnsTypeOK'
      BY <2>1, TypeHolds DEF ReturnsInv
    <3>2. RequestsFresh' /\ OneHoldsLines' /\ LockedFits' /\ NeverOverReturned'
      BY <2>1, <3>1, UnitsHold
    <3>3. RefundsOfInspected' /\ AnswersTrue' /\ RefundedTogether' /\ RefundFollowsProvider'
      BY <2>1, MoneyHolds
    <3> QED BY <3>1, <3>2, <3>3 DEF ReturnsInv
  <2>2. CASE UNCHANGED returnVars
    BY <2>2, Unchanged
  <2> QED BY <2>1, <2>2
<1> QED BY InitHolds, <1>1, PTL DEF ReturnsSpec

-----------------------------------------------------------------------------
(* The properties *)

\* However many requests return units of one order at a time, no unit is in two
\* returns that may be refunded.
THEOREM NeverOverReturnedHolds == ReturnsSpec => []NeverOverReturned
<1>1. ReturnsInv => NeverOverReturned
  BY DEF ReturnsInv
<1> QED BY <1>1, ReturnsInductive, PTL

\* The provider never pays back more than the order was paid, although the
\* limit the code checks counts completed refunds only.
THEOREM NeverOverRefundedHolds == ReturnsSpec => []NeverOverRefunded
<1>1. ReturnsInv => NeverOverRefunded
  BY PaidBackWithinPayment
<1> QED BY <1>1, ReturnsInductive, PTL

\* A return ends with its refund, and neither alone.
THEOREM RefundedTogetherHolds == ReturnsSpec => []RefundedTogether
<1>1. ReturnsInv => RefundedTogether
  BY DEF ReturnsInv
<1> QED BY <1>1, ReturnsInductive, PTL

\* A refund is recorded as over only as the provider ended it, whichever of the
\* requests that process it asked.
THEOREM RefundFollowsProviderHolds == ReturnsSpec => []RefundFollowsProvider
<1>1. ReturnsInv => RefundFollowsProvider
  BY DEF ReturnsInv
<1> QED BY <1>1, ReturnsInductive, PTL
=============================================================================

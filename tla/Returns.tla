------------------------------ MODULE Returns ------------------------------
(***************************************************************************)
(* The returns of one delivered and paid order, and their refunds:         *)
(* ReturnService, RefundService and the refund provider.                   *)
(*                                                                         *)
(* A return is created in two steps, because it reads the order before it  *)
(* waits for the lock on the order's lines.  A refund is processed in      *)
(* three, because the provider acts inside the transaction and does not    *)
(* roll back with it.  Every other request reads and writes one row under  *)
(* its version, and is one step.                                           *)
(***************************************************************************)
EXTENDS Integers, FiniteSets, FiniteSetsExt

CONSTANTS
    Lines,      \* the lines of the order
    Purchased,  \* Purchased[l]: units bought
    Price,      \* Price[l]: price of a unit
    Returns,    \* identifiers of returns
    Handlers     \* concurrent requests

ASSUME LinesAssumption ==
    /\ IsFiniteSet(Lines)
    /\ IsFiniteSet(Returns)
    /\ Purchased \in [Lines -> Nat \ {0}]
    /\ Price \in [Lines -> Nat]

VARIABLES
    orderStatus,     \* orders.status
    ret,       \* returns: status and the units of each line
    refund,    \* refunds: status of the refund of each return
    paidBack,  \* what the provider has done for the refund of each return
    work         \* the request each worker serves

returnVars == <<orderStatus, ret, refund, paidBack, work>>

ReturnStatus ==
    {"none", "requested", "approved", "received", "refund_pending", "refunded",
     "rejected", "cancelled"}
RefundStatus == {"none", "pending", "processing", "completed", "failed"}
Answers == {"processing", "completed", "failed"}

Nothing == [l \in Lines |-> 0]
Quantities == UNION {0..Purchased[l] : l \in Lines}
Requests ==
    {q \in [Lines -> Quantities] : q # Nothing /\ \A l \in Lines : q[l] <= Purchased[l]}

AtRest == [op |-> "idle"]
Creating(r, q, locked) == [op |-> "create", ret |-> r, units |-> q, locked |-> locked]
Processing(r, answer) == [op |-> "process", ret |-> r, answer |-> answer]

CreateRequest == [op : {"create"}, ret : Returns, units : Requests, locked : BOOLEAN]
ProcessRequest == [op : {"process"}, ret : Returns, answer : Answers \cup {"none"}]

-----------------------------------------------------------------------------

\* Forgets the returns that have been inspected.
CountsWhileOpen(r) == ret[r].status \in {"requested", "approved", "received"}

\* A rejected or cancelled return no longer counts against the purchase.
Counts(r) == ret[r].status \notin {"none", "rejected", "cancelled"}

Committed(l) ==
    SumFunctionOnSet([r \in Returns |-> ret[r].units[l]], {r \in Returns : Counts(r)})

WithinPurchase(q) == \A l \in Lines : Committed(l) + q[l] <= Purchased[l]

Worth(q) == SumFunctionOnSet([l \in Lines |-> Price[l] * q[l]], Lines)
Amount(r) == Worth(ret[r].units)
Refunds(rs) == SumFunctionOnSet([r \in Returns |-> Amount(r)], rs)

\* The captured payment of the order.
Paid == Worth(Purchased)

CompletedAmount == Refunds({r \in Returns : refund[r] = "completed"})

\* The order's lines, locked for update by at most one request.
WithoutLock == TRUE
LinesFree == \A w \in Handlers : work[w].op = "create" => ~work[w].locked

FreshReturn(r) ==
    /\ ret[r].status = "none"
    /\ \A w \in Handlers : work[w].op = "create" => work[w].ret # r

ReturnsInit ==
    /\ orderStatus = "confirmed"
    /\ ret = [r \in Returns |-> [status |-> "none", units |-> Nothing]]
    /\ refund = [r \in Returns |-> "none"]
    /\ paidBack = [r \in Returns |-> "none"]
    /\ work = [w \in Handlers |-> AtRest]

Work(w, request) == work' = [work EXCEPT ![w] = request]

BeginReturn(w, r, q) ==
    /\ work[w] = AtRest
    /\ FreshReturn(r)
    /\ orderStatus = "confirmed"
    /\ Work(w, Creating(r, q, FALSE))
    /\ UNCHANGED <<orderStatus, ret, refund, paidBack>>

LockLines(w) ==
    /\ work[w].op = "create"
    /\ ~work[w].locked
    /\ LinesFree
    /\ WithinPurchase(work[w].units)
    /\ Work(w, Creating(work[w].ret, work[w].units, TRUE))
    /\ UNCHANGED <<orderStatus, ret, refund, paidBack>>

CommitReturn(w) ==
    /\ work[w].op = "create"
    /\ work[w].locked
    /\ ret' = [ret EXCEPT ![work[w].ret] = [status |-> "requested", units |-> work[w].units]]
    /\ Work(w, AtRest)
    /\ UNCHANGED <<orderStatus, refund, paidBack>>

\* Inspection passes through "inspected" within its transaction.
LeftInspected == "inspected"
AfterInspection == "refund_pending"

\* The transitions a customer asks for.
Moves ==
    {<<"requested", "approved">>, <<"requested", "rejected">>,
     <<"approved", "received">>, <<"approved", "cancelled">>,
     <<"received", AfterInspection>>}

Move(r) ==
    /\ \E m \in Moves :
          /\ ret[r].status = m[1]
          /\ ret' = [ret EXCEPT ![r].status = m[2]]
    /\ UNCHANGED <<orderStatus, refund, paidBack, work>>

\* One refund per return, for all its units; the payment row is locked while
\* the completed refunds are summed.
CreateRefund(r) ==
    /\ ret[r].status = "refund_pending"
    /\ refund[r] = "none"
    /\ Amount(r) > 0
    /\ CompletedAmount + Amount(r) <= Paid
    /\ refund' = [refund EXCEPT ![r] = "pending"]
    /\ UNCHANGED <<orderStatus, ret, paidBack, work>>

BeginProcess(w, r) ==
    /\ work[w] = AtRest
    /\ refund[r] = "pending"
    /\ Work(w, Processing(r, "none"))
    /\ UNCHANGED <<orderStatus, ret, refund, paidBack>>

\* The provider starts the refund, then reports where it stands; a refund it
\* completed or failed stays so, however often it is asked.
AskProvider(w) ==
    /\ work[w].op = "process"
    /\ work[w].answer = "none"
    /\ \E answer \in Answers :
          /\ paidBack[work[w].ret] \in {"completed", "failed"} => answer = paidBack[work[w].ret]
          /\ paidBack' = [paidBack EXCEPT ![work[w].ret] = answer]
          /\ Work(w, Processing(work[w].ret, answer))
    /\ UNCHANGED <<orderStatus, ret, refund>>

\* The status that is recorded for an answer.
AsIfDone(answer) == IF answer = "failed" THEN "failed" ELSE "completed"
Recorded(answer) == answer

\* A completed refund ends its return in the same transaction.
StaysPending(r, status) == UNCHANGED ret
MarkRefunded(r, status) ==
    IF status = "completed"
    THEN ret[r].status = "refund_pending" /\ ret' = [ret EXCEPT ![r].status = "refunded"]
    ELSE UNCHANGED ret

CommitProcess(w) ==
    /\ work[w].op = "process"
    /\ work[w].answer # "none"
    /\ refund[work[w].ret] = "pending"
    /\ refund' = [refund EXCEPT ![work[w].ret] = Recorded(work[w].answer)]
    /\ MarkRefunded(work[w].ret, Recorded(work[w].answer))
    /\ Work(w, AtRest)
    /\ UNCHANGED <<orderStatus, paidBack>>

\* A conflict, an exception or a crash: nothing is written.
AbandonReturn(w) ==
    /\ work[w] # AtRest
    /\ Work(w, AtRest)
    /\ UNCHANGED <<orderStatus, ret, refund, paidBack>>

CancelReturnedOrder ==
    /\ orderStatus = "confirmed"
    /\ orderStatus' = "cancelled"
    /\ UNCHANGED <<ret, refund, paidBack, work>>

ReturnsNext ==
    \/ \E r \in Returns : Move(r) \/ CreateRefund(r)
    \/ \E w \in Handlers :
          \/ \E r \in Returns : BeginProcess(w, r) \/ \E q \in Requests : BeginReturn(w, r, q)
          \/ LockLines(w) \/ CommitReturn(w)
          \/ AskProvider(w) \/ CommitProcess(w)
          \/ AbandonReturn(w)
    \/ CancelReturnedOrder

ReturnsSpec == ReturnsInit /\ [][ReturnsNext]_returnVars

-----------------------------------------------------------------------------
(* Properties *)

\* No reachable state holds a return, a refund or a request the code could not
\* store; in particular no return is left "inspected".
ReturnsTypeOK ==
    /\ orderStatus \in {"confirmed", "cancelled"}
    /\ ret \in [Returns -> [status : ReturnStatus, units : Requests \cup {Nothing}]]
    /\ refund \in [Returns -> RefundStatus]
    /\ paidBack \in [Returns -> Answers \cup {"none"}]
    /\ work \in [Handlers -> {AtRest} \cup CreateRequest \cup ProcessRequest]

\* No unit is in two returns that may both be refunded, although returns of the
\* same line are requested at the same time.
NeverOverReturned == \A l \in Lines : Committed(l) <= Purchased[l]

\* The provider never pays back more than was paid.  The limit on a refund
\* counts completed refunds only; what keeps the pending ones within the
\* payment is the limit on the units.
NeverOverRefunded == Refunds({r \in Returns : paidBack[r] = "completed"}) <= Paid

\* A return is refunded exactly when its refund is completed.
RefundedTogether ==
    \A r \in Returns : ret[r].status = "refunded" <=> refund[r] = "completed"

\* No refund is recorded as over before the provider said so, although
\* requests to process it race and some roll back after they asked.
RefundFollowsProvider ==
    \A r \in Returns : refund[r] \in {"completed", "failed"} => paidBack[r] = refund[r]
=============================================================================

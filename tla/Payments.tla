------------------------------ MODULE Payments ------------------------------
(***************************************************************************)
(* Payment intents, the payment provider and the orders they pay for:      *)
(* PaymentService with the transitions of OrderService it calls.  A        *)
(* request reads its rows, calls the provider inside its transaction and   *)
(* then commits or rolls back; the provider does not roll back with it.    *)
(*                                                                         *)
(* Order and payment rows carry a version that every transition raises.    *)
(* No status is ever entered twice, so "the version is the one I read"     *)
(* says the same as "the status is the one I read".                        *)
(***************************************************************************)
EXTENDS Integers, FiniteSets

CONSTANTS
    Orders,    \* orders of the customer, pending at first
    Keys,      \* Idempotency-Keys of the customer
    Attempts,  \* distinguishes the identifiers generated for one order and key
    Workers    \* concurrent requests

\* A payment identifier is generated with the order and the key it is for.
Payments == Orders \X Keys \X Attempts
OrderOf(p) == p[1]
KeyOf(p) == p[2]

PaymentStatus == {"none", "created", "authorized", "captured", "failed", "cancelled"}
OrderStatus == {"pending", "confirmed", "cancelled"}
Operations == {"create", "authorize", "capture", "cancel"}

VARIABLES
    order,     \* orders: status
    payment,   \* payment_intents: status, "none" before the row exists
    provider,  \* what the payment provider has done for each identifier
    tx         \* the request each worker serves

vars == <<order, payment, provider, tx>>

Idle == [op |-> "idle"]
Request ==
    {Idle} \cup [op : Operations, pay : Payments, seen : PaymentStatus,
                 answer : {"none", "done", "refused"}]

TypeOK ==
    /\ order \in [Orders -> OrderStatus]
    /\ payment \in [Payments -> PaymentStatus]
    /\ provider \in [Payments -> SUBSET Operations]
    /\ tx \in [Workers -> Request]

-----------------------------------------------------------------------------

Exists(p) == payment[p] # "none"

\* An identifier nobody has used yet.
Fresh(p) ==
    /\ ~Exists(p) /\ provider[p] = {}
    /\ \A w \in Workers : tx[w] # Idle => tx[w].pay # p

\* The statuses from which an operation is accepted.
From(op) ==
    CASE op = "create" -> {"none"}
      [] op = "authorize" -> {"created"}
      [] op = "capture" -> {"authorized"}
      [] op = "cancel" -> {"created", "authorized"}

\* The status stored as the provider words it.
Raw(op, answer) == IF answer = "refused" THEN "failed" ELSE op

\* The status an operation leads to.
To(op, answer) ==
    IF answer = "refused" THEN "failed"
    ELSE CASE op = "create" -> "created"
           [] op = "authorize" -> "authorized"
           [] op = "capture" -> "captured"
           [] op = "cancel" -> "cancelled"

Init ==
    /\ order = [o \in Orders |-> "pending"]
    /\ payment = [p \in Payments |-> "none"]
    /\ provider = [p \in Payments |-> {}]
    /\ tx = [w \in Workers |-> Idle]

Serving(op, p, seen, answer) ==
    [op |-> op, pay |-> p, seen |-> seen, answer |-> answer]

Begin(w, op, p) ==
    /\ tx[w] = Idle
    /\ payment[p] \in From(op)
    /\ tx' = [tx EXCEPT ![w] = Serving(op, p, payment[p], "none")]
    /\ UNCHANGED <<order, payment, provider>>

\* A key already used answers with its payment and goes no further.
BeginCreate(w, p) ==
    /\ Fresh(p)
    /\ \A q \in Payments : Exists(q) => KeyOf(q) # KeyOf(p)
    /\ order[OrderOf(p)] = "pending"
    /\ Begin(w, "create", p)

BeginTransition(w, op, p) == op # "create" /\ Begin(w, op, p)

\* The provider does what it is asked or refuses.
CallProvider(w) ==
    /\ tx[w] # Idle
    /\ tx[w].answer = "none"
    /\ \E answer \in {"done", "refused"} :
          /\ tx' = [tx EXCEPT ![w] = Serving(tx[w].op, tx[w].pay, tx[w].seen, answer)]
          /\ provider' = [provider EXCEPT ![tx[w].pay] =
                             IF answer = "done" THEN @ \cup {tx[w].op} ELSE @]
    /\ UNCHANGED <<order, payment>>

\* The request ends; its rows are as it leaves them.
End(w) == tx' = [tx EXCEPT ![w] = Idle] /\ UNCHANGED provider

\* Without waiting for the provider.
Unanswered(w) == tx[w] # Idle

Answered(w) == tx[w] # Idle /\ tx[w].answer # "none"

\* The unique constraint on the key of a customer.
WithoutUniqueKey(p) == ~Exists(p)
UniqueKey(p) == \A q \in Payments : Exists(q) => KeyOf(q) # KeyOf(p)

CommitCreate(w) ==
    /\ Answered(w)
    /\ tx[w].op = "create"
    /\ tx[w].answer = "done"
    /\ UniqueKey(tx[w].pay)
    /\ payment' = [payment EXCEPT ![tx[w].pay] = "created"]
    /\ End(w)
    /\ UNCHANGED order

\* The row still has the version that was read before the provider was called.
WithoutVersion(w) == TRUE
SeenIsCurrent(w) == payment[tx[w].pay] = tx[w].seen

Transition(w) ==
    /\ Answered(w)
    /\ tx[w].op # "create"
    /\ SeenIsCurrent(w)
    /\ payment' = [payment EXCEPT ![tx[w].pay] = To(tx[w].op, tx[w].answer)]
    /\ End(w)

CommitTransition(w) ==
    /\ ~(tx[w].op = "capture" /\ tx[w].answer = "done")
    /\ Transition(w)
    /\ UNCHANGED order

LeavePending(o) == UNCHANGED order
Confirm(o) == order' = [order EXCEPT ![o] = "confirmed"]

\* A successful capture confirms the order in the same transaction, and fails
\* with it when the order is no longer pending.
AnyOrder(o) == order[o] # "cancelled"
Confirmable(o) == order[o] = "pending"

CommitCapture(w) ==
    /\ tx[w].op = "capture"
    /\ tx[w].answer = "done"
    /\ Confirmable(OrderOf(tx[w].pay))
    /\ Transition(w)
    /\ Confirm(OrderOf(tx[w].pay))

\* A conflict, a refused intent, an exception or a crash: nothing is written.
Rollback(w) ==
    /\ tx[w] # Idle
    /\ End(w)
    /\ UNCHANGED <<order, payment>>

\* The order endpoints need no payment to confirm an order.
ConfirmOrder(o) ==
    /\ Confirmable(o)
    /\ Confirm(o)
    /\ UNCHANGED <<payment, provider, tx>>

CancelOrder(o) ==
    /\ order[o] = "confirmed"
    /\ order' = [order EXCEPT ![o] = "cancelled"]
    /\ UNCHANGED <<payment, provider, tx>>

Serve(w) ==
    \/ \E p \in Payments :
          BeginCreate(w, p) \/ \E op \in Operations : BeginTransition(w, op, p)
    \/ CallProvider(w)
    \/ CommitCreate(w) \/ CommitTransition(w) \/ CommitCapture(w)
    \/ Rollback(w)

Next ==
    \/ \E w \in Workers : Serve(w)
    \/ \E o \in Orders : ConfirmOrder(o) \/ CancelOrder(o)

Spec == Init /\ [][Next]_vars

-----------------------------------------------------------------------------
(* Properties *)

\* An order has at most one captured payment, however many payments it has and
\* however their captures race.
OneCapturePerOrder ==
    \A p, q \in Payments :
        payment[p] = "captured" /\ payment[q] = "captured" /\ OrderOf(p) = OrderOf(q)
            => p = q

\* The capture of a payment and the confirmation of its order are one: no
\* order with a captured payment is still pending.
CapturedOrderConfirmed ==
    \A p \in Payments : payment[p] = "captured" => order[OrderOf(p)] # "pending"

\* A key names one payment, also when two requests with the same key race.
OnePaymentPerKey ==
    \A p, q \in Payments :
        Exists(p) /\ Exists(q) /\ KeyOf(p) = KeyOf(q) => p = q

\* The rows never run ahead of the provider: whatever a row says has happened
\* at the provider first.
RowsFollowProvider ==
    \A p \in Payments :
        /\ payment[p] = "authorized" => {"create", "authorize"} \subseteq provider[p]
        /\ payment[p] = "captured" =>
              {"create", "authorize", "capture"} \subseteq provider[p]
        /\ payment[p] = "cancelled" => "cancel" \in provider[p]

\* A captured, failed or cancelled payment never changes again, although
\* requests that read it earlier are still on their way.
TerminalIsFinal ==
    [][\A p \in Payments : payment[p] \in {"captured", "failed", "cancelled"}
                               => payment'[p] = payment[p]]_vars

\* Repeating a key does not invoke the provider again.
KeyInvokesProviderOnce ==
    \A p, q \in Payments :
        "create" \in provider[p] /\ "create" \in provider[q] /\ KeyOf(p) = KeyOf(q)
            => p = q
=============================================================================

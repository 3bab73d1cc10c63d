--------------------------- MODULE Notifications ---------------------------
(***************************************************************************)
(* The event outbox and its consumer: NotificationDispatcher over          *)
(* SqlAlchemyReliableOutboxRepository.  One run of the Celery task claims  *)
(* events, sends their notifications through the gateway and marks them,   *)
(* all in one transaction; what the gateway has sent stays sent when the   *)
(* transaction is lost.                                                    *)
(*                                                                         *)
(* A row that waits for available_at or next_retry_at is not "due"; time   *)
(* makes it due.  Attempts are counted up to the limit they are compared   *)
(* with.  A claim is never committed before it is marked, so no row is     *)
(* seen "processing" and no lease ever expires: the lock of the row is     *)
(* what keeps other workers away.                                          *)
(***************************************************************************)
EXTENDS Integers, FiniteSetsExt

CONSTANTS
    Events,       \* commerce events of one customer
    NumChannels,  \* notification channels that have a template
    Workers,      \* concurrent runs of the task
    MaxAttempts,  \* claims after which an error is final
    MaxRetries,   \* retries of a notification
    MaxKeys       \* notification identifiers ever generated for one channel

ASSUME NumbersAssumption ==
    /\ NumChannels \in Nat \ {0}
    /\ MaxAttempts \in Nat \ {0}
    /\ MaxRetries \in Nat
    /\ MaxKeys \in Nat \ {0}

\* The channels, in the order they are visited.
Channels == 1..NumChannels

VARIABLES
    event,    \* event_outbox: status, attempts, due
    note,     \* notifications: status, attempts, due and identifier
    enabled,  \* the channels the customer has not switched off
    gateway,  \* identifiers under which the gateway has sent
    tx        \* the transaction of each worker

outboxVars == <<event, note, enabled, gateway, tx>>

EventStatus == {"none", "pending", "published", "failed"}
NoteStatus == {"none", "sending", "retrying", "delivered", "failed", "cancelled"}
Terminal == {"delivered", "failed", "cancelled"}
Outcomes == {"waiting", "published", "released", "broken"}

EventRow == [status : EventStatus, attempts : 0..MaxAttempts, due : BOOLEAN]
Note == [status : NoteStatus, attempts : 0..(MaxRetries + 1), due : BOOLEAN, key : 0..MaxKeys]

\* done: the outcome of each claimed event, "waiting" until it is processed.
NotRunning == [claimed |-> {}]
Running(w) == tx[w].claimed # {}

OutboxInit ==
    /\ event = [e \in Events |-> [status |-> "none", attempts |-> 0, due |-> TRUE]]
    /\ note = [e \in Events |-> [c \in Channels |->
                  [status |-> "none", attempts |-> 0, due |-> TRUE, key |-> 0]]]
    /\ enabled = Channels
    /\ gateway = [e \in Events |-> [c \in Channels |-> {}]]
    /\ tx = [w \in Workers |-> NotRunning]

-----------------------------------------------------------------------------

\* A request commits its changes together with the event.
Emit(e) ==
    /\ event[e].status = "none"
    /\ event' = [event EXCEPT ![e].status = "pending"]
    /\ UNCHANGED <<note, enabled, gateway, tx>>

SwitchChannel(c) ==
    /\ enabled' = IF c \in enabled THEN enabled \ {c} ELSE enabled \cup {c}
    /\ UNCHANGED <<event, note, gateway, tx>>

\* SELECT ... FOR UPDATE SKIP LOCKED.
Anyone(e) == TRUE
Unlocked(e) == \A w \in Workers : e \notin tx[w].claimed

Claimable == {e \in Events : event[e].status = "pending" /\ event[e].due /\ Unlocked(e)}

Claim(w) ==
    /\ ~Running(w)
    /\ Claimable # {}
    /\ tx' = [tx EXCEPT ![w] = [claimed |-> Claimable,
                                done |-> [e \in Claimable |-> "waiting"],
                                note |-> [e \in Claimable |-> note[e]]]]
    /\ UNCHANGED <<event, note, enabled, gateway>>

-----------------------------------------------------------------------------
(* The visit of one channel of an event *)

\* A notification that does not exist yet is created with a new identifier, one
\* the gateway has not seen.
NewKey(e, c) == Min({Cardinality(gateway[e][c]) + 1, MaxKeys})

Existing(n, e, c) == IF n.key = 0 THEN [n EXCEPT !.key = NewKey(e, c)] ELSE n

\* The gateway is called for it.
Sends(n, c) == c \in enabled /\ n.status \notin Terminal /\ n.due

Attempt(n, status, due) ==
    [n EXCEPT !.status = status, !.due = due, !.attempts = Min({@ + 1, MaxRetries + 1})]

\* A refused attempt is repeated later, but not for ever.
RetriesForEver(n) == TRUE
MayRetry(n) == n.attempts + 1 <= MaxRetries

\* Only a notification that will be repeated has a time to wait for.
RefusedWaits(n) == Attempt(n, IF MayRetry(n) THEN "retrying" ELSE "failed", FALSE)
Refused(n) == Attempt(n, IF MayRetry(n) THEN "retrying" ELSE "failed", ~MayRetry(n))

Visited(n, c, refused) ==
    CASE c \notin enabled /\ n.status \notin Terminal -> [n EXCEPT !.status = "cancelled"]
      [] Sends(n, c) /\ ~refused -> Attempt(n, "delivered", TRUE)
      [] Sends(n, c) /\ refused -> Refused(n)
      [] OTHER -> n

\* Some channel of the event is not over yet.
LastWaits(notes) == notes[NumChannels].status = "retrying"
SomeWait(notes) == \E c \in Channels : notes[c].status = "retrying"

-----------------------------------------------------------------------------

Write(w, e, notes, outcome) ==
    tx' = [tx EXCEPT ![w] = [claimed |-> @.claimed,
                             done |-> [@.done EXCEPT ![e] = outcome],
                             note |-> [@.note EXCEPT ![e] = notes]]]

\* Every channel is visited in turn; the gateway sends or refuses.
Process(w, e) ==
    /\ e \in tx[w].claimed
    /\ tx[w].done[e] = "waiting"
    /\ \E refused \in SUBSET Channels :
          LET before == [c \in Channels |-> Existing(tx[w].note[e][c], e, c)]
              after == [c \in Channels |-> Visited(before[c], c, c \in refused)]
          IN /\ gateway' = [gateway EXCEPT ![e] = [c \in Channels |->
                    IF Sends(before[c], c) /\ c \notin refused
                    THEN @[c] \cup {before[c].key} ELSE @[c]]]
             /\ Write(w, e, after, IF SomeWait(after) THEN "released" ELSE "published")
    /\ UNCHANGED <<event, note, enabled>>

\* An exception at channel k, before it or in the gateway, which may have sent:
\* what was done before it stays and the later channels are not visited.
ProcessFails(w, e) ==
    /\ e \in tx[w].claimed
    /\ tx[w].done[e] = "waiting"
    /\ \E k \in Channels, refused \in SUBSET Channels, inGateway \in BOOLEAN :
          LET before == [c \in Channels |-> Existing(tx[w].note[e][c], e, c)]
              calls == inGateway /\ Sends(before[k], k)
              after == [c \in Channels |->
                          CASE c < k -> Visited(before[c], c, c \in refused)
                            [] c = k /\ calls -> Attempt(before[c], "sending", TRUE)
                            [] OTHER -> tx[w].note[e][c]]
          IN /\ gateway' = [gateway EXCEPT ![e] = [c \in Channels |->
                    IF (c < k \/ (c = k /\ calls)) /\ Sends(before[c], c) /\ c \notin refused
                    THEN @[c] \cup {before[c].key} ELSE @[c]]]
             /\ Write(w, e, after, "broken")
    /\ UNCHANGED <<event, note, enabled>>

\* The row of an event as its worker leaves it: a release is due at once, an
\* error waits, and is final when the attempts are used up.
Marked(e, outcome) ==
    LET attempts == Min({event[e].attempts + 1, MaxAttempts})
        final == outcome = "broken" /\ attempts >= MaxAttempts
    IN [attempts |-> attempts,
        due |-> outcome # "broken",
        status |-> CASE outcome = "published" -> "published"
                     [] final -> "failed"
                     [] OTHER -> "pending"]

CommitRun(w) ==
    /\ Running(w)
    /\ \A e \in tx[w].claimed : tx[w].done[e] # "waiting"
    /\ event' = [e \in Events |->
                    IF e \in tx[w].claimed THEN Marked(e, tx[w].done[e]) ELSE event[e]]
    /\ note' = [e \in Events |-> IF e \in tx[w].claimed THEN tx[w].note[e] ELSE note[e]]
    /\ tx' = [tx EXCEPT ![w] = NotRunning]
    /\ UNCHANGED <<enabled, gateway>>

\* The worker dies, or the database refuses a statement of the transaction.
Rollback(w) ==
    /\ Running(w)
    /\ tx' = [tx EXCEPT ![w] = NotRunning]
    /\ UNCHANGED <<event, note, enabled, gateway>>

\* An administrator returns a failed event; its attempts stay used.
Recover(e) ==
    /\ event[e].status = "failed"
    /\ event' = [event EXCEPT ![e].status = "pending", ![e].due = TRUE]
    /\ UNCHANGED <<note, enabled, gateway, tx>>

\* Time passes.  A task reads the clock once, so rows it works on do not change.
EventDue(e) ==
    /\ event[e].status = "pending"
    /\ ~event[e].due
    /\ event' = [event EXCEPT ![e].due = TRUE]
    /\ UNCHANGED <<note, enabled, gateway, tx>>

NoteDue(e, c) ==
    /\ Unlocked(e)
    /\ note[e][c].status = "retrying"
    /\ ~note[e][c].due
    /\ note' = [note EXCEPT ![e][c].due = TRUE]
    /\ UNCHANGED <<event, enabled, gateway, tx>>

Time == \E e \in Events : EventDue(e) \/ \E c \in Channels : NoteDue(e, c)

Handle(w, e) == Process(w, e) \/ ProcessFails(w, e)

OutboxNext ==
    \/ \E e \in Events : Emit(e) \/ Recover(e)
    \/ \E c \in Channels : SwitchChannel(c)
    \/ \E w \in Workers : Claim(w) \/ (\E e \in Events : Handle(w, e)) \/ CommitRun(w) \/ Rollback(w)
    \/ Time

\* The scheduler starts the task every ten seconds, time passes, and a row that
\* is claimed again and again is not lost with its transaction every time.
OutboxFairness ==
    \A e \in Events :
        /\ WF_outboxVars(EventDue(e))
        /\ \A c \in Channels : SF_outboxVars(NoteDue(e, c))
        /\ WF_outboxVars(\E w \in Workers : e \in Claimable /\ Claim(w))
        /\ SF_outboxVars(\E w \in Workers : Handle(w, e))
        /\ SF_outboxVars(\E w \in Workers : Running(w) /\ e \in tx[w].claimed /\ CommitRun(w))

OutboxSpec == OutboxInit /\ [][OutboxNext]_outboxVars /\ OutboxFairness

-----------------------------------------------------------------------------
(* Properties *)

\* The rows hold what their columns may hold, and nothing but a notification
\* to be repeated, or one cancelled meanwhile, has a time left to wait for.
OutboxTypeOK ==
    /\ event \in [Events -> EventRow]
    /\ note \in [Events -> [Channels -> Note]]
    /\ \A e \in Events, c \in Channels :
          ~note[e][c].due => note[e][c].status \in {"retrying", "cancelled"}
    /\ enabled \subseteq Channels
    /\ gateway \in [Events -> [Channels -> SUBSET (1..MaxKeys)]]
    /\ \A w \in Workers :
          Running(w) => /\ tx[w].claimed \subseteq Events
                     /\ tx[w].done \in [tx[w].claimed -> Outcomes]
                     /\ tx[w].note \in [tx[w].claimed -> [Channels -> Note]]

\* An event is published only when each of its channels is over.
PublishedWhenOver ==
    \A e \in Events : event[e].status = "published" =>
        \A c \in Channels : note[e][c].status \in Terminal

\* Nothing more is sent for a notification that is over, although several
\* workers look for events at the same time.
NothingSentTwice ==
    [][\A e \in Events, c \in Channels :
          note[e][c].status \in Terminal =>
              gateway'[e][c] = gateway[e][c] /\ note'[e][c].status = note[e][c].status]_outboxVars

\* Every event ends published or failed, whatever the gateway and the customer
\* do, if transactions are not lost for ever.
EventSettles ==
    \A e \in Events :
        event[e].status = "pending" ~> event[e].status \in {"published", "failed"}
=============================================================================

------------------------------- MODULE Search -------------------------------
(***************************************************************************)
(* The public search of stores.  A request that changes a store, its       *)
(* images or its opening rules publishes an event; the publisher queues a  *)
(* task there and then, before the request commits.  A worker takes the    *)
(* task, reads the store as it is committed and writes or removes its      *)
(* document at the search provider, which answers the public queries.      *)
(* Asking for the opening status of a store publishes an event as well.    *)
(***************************************************************************)
EXTENDS Integers, FiniteSetsExt

CONSTANTS Fronts,        \* stores
          Writers,       \* requests in progress at the same time
          Indexers,      \* workers of the store-search queue
          MaxTries,      \* how often a task is tried again after the provider failed
          MaxRevised,    \* bound on the committed changes of a store
          MaxQueued,     \* bound on the tasks in the queue and at work
          MaxMishaps,    \* bound on the failures of requests, provider and workers
          NoDocument

VARIABLES front,         \* committed stores, with the images and rules they show
          writing,       \* the open request of each writer
          queue,         \* how many copies of each task wait
          indexing,      \* what each worker does
          configured,    \* whether the index is there with its settings
          document,      \* the revision of the store each document shows
          mishaps        \* how many failures there were

searchVars == <<front, writing, queue, indexing, configured, document, mishaps>>

OpenStatus == {"draft", "pending_review", "active"}
Front == [status : OpenStatus \cup {"none", "closed"}, hours : BOOLEAN, revision : 0..MaxRevised]

\* A task: the operation on one store, or the rebuild of all.
Tasks == [op : {"index", "update", "delete"}, store : Fronts, tries : 0..MaxTries]
         \cup [op : {"rebuild"}, store : {NoDocument}, tries : 0..MaxTries]

NotWriting == [event |-> "none", store |-> NoDocument]
NothingRead == [s \in {} |-> 0]
NotIndexing == [at |-> "idle", task |-> NoDocument, todo |-> {}, read |-> NothingRead]

InitSearch ==
    /\ front = [s \in Fronts |-> [status |-> "none", hours |-> FALSE, revision |-> 0]]
    /\ writing = [w \in Writers |-> NotWriting]
    /\ queue = [t \in Tasks |-> 0]
    /\ indexing = [k \in Indexers |-> NotIndexing]
    /\ configured = FALSE
    /\ document = [s \in Fronts |-> NoDocument]
    /\ mishaps = 0

Mishap == mishaps < MaxMishaps /\ mishaps' = mishaps + 1

-----------------------------------------------------------------------------
(* The requests                                                              *)

\* The operation the publisher asks for, for the events it listens to.
SyncEvents ==
    [event \in {"store.created", "store.verified", "store.updated", "store.media", "store.hours",
                "store.closed"} |->
       CASE event \in {"store.created", "store.verified"} -> "index"
         [] event = "store.closed" -> "delete"
         [] OTHER -> "update"]

\* The statuses a change starts from, and the one it leads to.
From(event) ==
    CASE event = "store.created" -> {"none"}
      [] event = "store.submitted" -> {"draft"}
      [] event \in {"store.verified", "store.rejected"} -> {"pending_review"}
      [] OTHER -> OpenStatus

After(event, status) ==
    CASE event \in {"store.created", "store.rejected"} -> "draft"
      [] event = "store.submitted" -> "pending_review"
      [] event = "store.verified" -> "active"
      [] event = "store.closed" -> "closed"
      [] OTHER -> status

Events == DOMAIN SyncEvents \cup {"store.submitted", "store.rejected"}

\* publish: the task is on its way before the change is committed.
Dispatched(event, s) ==
    IF event \in DOMAIN SyncEvents
    THEN LET t == [op |-> SyncEvents[event], store |-> s, tries |-> 0]
         IN  [queue EXCEPT ![t] = @ + 1]
    ELSE queue

\* A change holds the row of the store; one of its images does not.
RowHeld(s) == \E w \in Writers : writing[w].store = s /\ writing[w].event # "store.media"

Write(w, s, event) ==
    /\ writing[w] = NotWriting /\ front[s].revision < MaxRevised
    /\ front[s].status \in From(event)
    /\ event = "store.media" \/ ~RowHeld(s)
    /\ writing' = [writing EXCEPT ![w] = [event |-> event, store |-> s]]
    /\ queue' = Dispatched(event, s)
    /\ UNCHANGED <<front, indexing, configured, document, mishaps>>

\* The change of a rule may leave the store with rules or without.
CommitWrite(w) ==
    /\ writing[w] # NotWriting
    /\ LET s == writing[w].store
           event == writing[w].event
       IN  /\ front[s].revision < MaxRevised
           /\ \E rules \in BOOLEAN :
                /\ event # "store.hours" => rules = front[s].hours
                /\ front' = [front EXCEPT ![s] =
                     [status |-> After(event, front[s].status), hours |-> rules,
                      revision |-> front[s].revision + 1]]
    /\ writing' = [writing EXCEPT ![w] = NotWriting]
    /\ UNCHANGED <<queue, indexing, configured, document, mishaps>>

RollBackWrite(w) ==
    /\ writing[w] # NotWriting
    /\ writing' = [writing EXCEPT ![w] = NotWriting]
    /\ Mishap /\ UNCHANGED <<front, queue, indexing, configured, document>>

\* The opening status of a store with rules: outside its hours the event has
\* the name of the one for a store that is closed for good.
AskStatus(s) ==
    /\ front[s].status \in OpenStatus /\ front[s].hours
    /\ \E openNow \in BOOLEAN :
         queue' = Dispatched(IF openNow THEN "store.opened" ELSE "store.closed", s)
    /\ UNCHANGED <<front, writing, indexing, configured, document, mishaps>>

AskRebuild ==
    /\ LET t == [op |-> "rebuild", store |-> NoDocument, tries |-> 0]
       IN  queue' = [queue EXCEPT ![t] = @ + 1]
    /\ UNCHANGED <<front, writing, indexing, configured, document, mishaps>>

-----------------------------------------------------------------------------
(* The workers                                                               *)

Take(k, t) ==
    /\ indexing[k] = NotIndexing /\ queue[t] > 0
    /\ queue' = [queue EXCEPT ![t] = @ - 1]
    /\ indexing' = [indexing EXCEPT ![k].at = "configuring", ![k].task = t]
    /\ UNCHANGED <<front, writing, configured, document, mishaps>>

\* configure_index; then a rebuild lists the stores that are not deleted.
Configure(k) ==
    /\ indexing[k].at = "configuring"
    /\ configured' = TRUE
    /\ indexing' = [indexing EXCEPT ![k].at = "reading", ![k].todo =
         IF indexing[k].task.op = "rebuild" THEN {s \in Fronts : front[s].status \in OpenStatus}
         ELSE {indexing[k].task.store}]
    /\ UNCHANGED <<front, writing, queue, document, mishaps>>

EligibleUnlessClosed(s) == front[s].status \in OpenStatus
Eligible(s) == front[s].status = "active"

\* build_store_document: nothing for a store that is not eligible.
ReadStore(k, s) ==
    /\ indexing[k].at = "reading" /\ s \in indexing[k].todo
    /\ LET read == indexing[k].read IN
       indexing' = [indexing EXCEPT ![k].todo = @ \ {s}, ![k].read =
         IF Eligible(s)
         THEN [x \in DOMAIN read \cup {s} |-> IF x = s THEN front[s].revision ELSE read[x]]
         ELSE read]
    /\ UNCHANGED <<front, writing, queue, configured, document, mishaps>>

\* The store of a sync that found nothing to show is removed; a rebuild only
\* adds.
Indexed(k) == [s \in Fronts |->
    LET work == indexing[k] IN
    IF s \in DOMAIN work.read /\ work.task.op # "delete" THEN work.read[s]
    ELSE IF s = work.task.store THEN NoDocument ELSE document[s]]

WriteIndex(k) ==
    /\ indexing[k].at = "reading" /\ indexing[k].todo = {}
    /\ document' = Indexed(k)
    /\ indexing' = [indexing EXCEPT ![k].at = "done", ![k].read = NothingRead]
    /\ UNCHANGED <<front, writing, queue, configured, mishaps>>

Acknowledge(k) ==
    /\ indexing[k].at = "done"
    /\ indexing' = [indexing EXCEPT ![k] = NotIndexing]
    /\ UNCHANGED <<front, writing, queue, configured, document, mishaps>>

\* A call to the provider fails: the task is tried again later, and in the end
\* dropped.
ProviderFails(k) ==
    /\ indexing[k].at \in {"configuring", "reading"}
    /\ LET t == indexing[k].task IN
       queue' = IF t.tries < MaxTries THEN [queue EXCEPT ![[t EXCEPT !.tries = @ + 1]] = @ + 1] ELSE queue
    /\ indexing' = [indexing EXCEPT ![k] = NotIndexing]
    /\ Mishap /\ UNCHANGED <<front, writing, configured, document>>

\* The worker is lost before it acknowledged the task: it is delivered again.
WorkerLost(k) ==
    /\ indexing[k] # NotIndexing
    /\ queue' = [queue EXCEPT ![indexing[k].task] = @ + 1]
    /\ indexing' = [indexing EXCEPT ![k] = NotIndexing]
    /\ Mishap /\ UNCHANGED <<front, writing, configured, document>>

-----------------------------------------------------------------------------

\* The tasks there are, waiting or worked on.
Working == {k \in Indexers : indexing[k] # NotIndexing}
Room == MapThenSumSet(LAMBDA t : queue[t], Tasks) + Cardinality(Working) < MaxQueued

NextSearch ==
    \/ \E w \in Writers : CommitWrite(w) \/ RollBackWrite(w)
    \/ Room /\ \E w \in Writers, s \in Fronts, event \in Events : Write(w, s, event)
    \/ Room /\ (AskRebuild \/ \E s \in Fronts : AskStatus(s))
    \/ \E k \in Indexers :
         \/ \E t \in Tasks : Take(k, t)
         \/ \E s \in Fronts : ReadStore(k, s)
         \/ Configure(k) \/ WriteIndex(k) \/ Acknowledge(k) \/ ProviderFails(k) \/ WorkerLost(k)

SearchSpec == InitSearch /\ [][NextSearch]_searchVars

-----------------------------------------------------------------------------
\* What a public query can find; every document says it is verified and active.
Findable == {s \in Fronts : document[s] # NoDocument}

\* Whatever tasks fail, are delivered again or overtake one another, nothing is
\* found of a store that an administrator has not approved.
OnlyApproved == \A s \in Findable : front[s].status \in {"active", "closed"}

Closing(s) == \E w \in Writers : writing[w] = [event |-> "store.closed", store |-> s]

\* A store is removed from the search because it is closed: an eligible one
\* stays, and is found, until its owner closes it.
StaysFound ==
    [][\A s \in Findable : Eligible(s) /\ ~Closing(s) => document'[s] # NoDocument]_searchVars
=============================================================================

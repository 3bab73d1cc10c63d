------------------------------- MODULE Stores -------------------------------
(***************************************************************************)
(* Stores and their verification.  The owner submits evidence, an          *)
(* administrator reviews, approves or rejects it, and both rows change in  *)
(* one transaction: the store is read first, then the verification is      *)
(* read, its row is changed (UPDATE ... WHERE status and version, holding  *)
(* the row), and last the store is moved (UPDATE ... WHERE status).        *)
(* Closing or editing the store is one statement that may come in between. *)
(***************************************************************************)
EXTENDS Integers, FiniteSets

CONSTANTS StoreIds,
          Evidence,        \* the metadata a submission refers to
          Administrators,
          Submitters,      \* requests in progress at the same time
          MaxRevision,     \* bound on the version of a verification
          MaxEdited,       \* bound on the version a store is edited at
          NoStore

VARIABLES store,           \* committed stores rows
          verification,    \* committed store_verifications rows, one per store
          process,         \* requests between their statements
          seen             \* what each administrator was last shown of a verification

storeVars == <<store, verification, process, seen>>

StoreStatus == {"draft", "pending_review", "active", "closed"}
VerificationStatus == {"unverified", "pending", "verified", "rejected"}
StoreRow == [status : StoreStatus, verified : VerificationStatus, version : Nat]

VerificationRow == [status : {"submitted", "in_review", "approved", "rejected"},
                    evidence : Evidence, reviewer : Administrators \cup {NoStore},
                    version : Nat]

ASSUME NoStoreAssumption == NoStore \notin StoreRow \cup VerificationRow

Waiting == [at |-> "idle", op |-> "none", store |-> NoStore, actor |-> NoStore,
            before |-> NoStore, row |-> NoStore, shown |-> NoStore]

StoresInit ==
    /\ store = [s \in StoreIds |-> NoStore]
    /\ verification = [s \in StoreIds |-> NoStore]
    /\ process = [q \in Submitters |-> Waiting]
    /\ seen = [a \in Administrators |-> NoStore]

Deleted(s) == store[s].status = "closed"
Existing(s) == store[s] # NoStore /\ ~Deleted(s)

\* The verification row a request has changed and not yet committed.
HeldBy(s) == {q \in Submitters : process[q].at = "moving" /\ process[q].store = s}
Fail(q) == process' = [process EXCEPT ![q] = Waiting]
To(q, stage) == process' = [process EXCEPT ![q].at = stage]

-----------------------------------------------------------------------------
(* StoreService                                                              *)

CreateStore(s) ==
    /\ store[s] = NoStore
    /\ store' = [store EXCEPT ![s] = [status |-> "draft", verified |-> "unverified", version |-> 1]]
    /\ UNCHANGED <<verification, process, seen>>

\* The fields of the store may change in any status but closed, also while
\* the store is under review.
UpdateStore(s, expected) ==
    /\ Existing(s) /\ store[s].version = expected /\ expected <= MaxEdited
    /\ store' = [store EXCEPT ![s].version = @ + 1]
    /\ UNCHANGED <<verification, process, seen>>

CloseStore(s) ==
    /\ Existing(s)
    /\ store' = [store EXCEPT ![s].status = "closed", ![s].version = @ + 1]
    /\ UNCHANGED <<verification, process, seen>>

-----------------------------------------------------------------------------
(* submit                                                                    *)

BeginSubmit(q, s, e) ==
    /\ process[q] = Waiting /\ Existing(s)
    /\ process' = [process EXCEPT ![q] =
         [at |-> "reading", op |-> "submit", store |-> s, actor |-> NoStore, before |-> store[s],
          shown |-> NoStore,
          row |-> [status |-> "submitted", evidence |-> e, reviewer |-> NoStore, version |-> 1]]]
    /\ UNCHANGED <<store, verification, seen>>

\* require_submittable looks at the store as it was read.
Submittable(row) == row.status = "draft" /\ row.verified \in {"unverified", "rejected"}

ReadVerification(q) ==
    /\ process[q].at = "reading"
    /\ LET current == verification[process[q].store]
           eligible == Submittable(process[q].before)
       IN  process' =
             IF current = NoStore /\ eligible
             THEN [process EXCEPT ![q].at = "adding"]
             ELSE IF current # NoStore /\ current.status = "rejected" /\ eligible
             THEN [process EXCEPT ![q].at = "writing", ![q].before = current,
                                  ![q].row.version = current.version + 1]
             ELSE [process EXCEPT ![q] = Waiting]
    /\ UNCHANGED <<store, verification, seen>>

\* One row per store: another submission in between is an integrity error.
AddVerification(q) ==
    /\ process[q].at = "adding" /\ HeldBy(process[q].store) = {}
    /\ IF verification[process[q].store] = NoStore THEN To(q, "moving") ELSE Fail(q)
    /\ UNCHANGED <<store, verification, seen>>

-----------------------------------------------------------------------------
(* review, approve, reject                                                   *)

\* An administrator opens the verification: the version it will name.
Look(a, s) ==
    /\ verification[s] # NoStore
    /\ seen' = [seen EXCEPT ![a] = [store |-> s, evidence |-> verification[s].evidence,
                                version |-> verification[s].version]]
    /\ UNCHANGED <<store, verification, process>>

\* The service reads the row; it compares the version the administrator named
\* when it writes.
Decide(q, a, verdict) ==
    /\ process[q] = Waiting
    /\ verification[seen[a].store].version < MaxRevision
    /\ LET s == seen[a].store
           current == verification[s]
       IN  process' = [process EXCEPT ![q] =
             [at |-> "writing", op |-> verdict, store |-> s, actor |-> a,
              shown |-> seen[a].evidence,
              before |-> [current EXCEPT !.version = seen[a].version],
              row |-> [current EXCEPT !.status = verdict, !.reviewer = a,
                                      !.version = seen[a].version + 1]]]
    /\ UNCHANGED <<store, verification, seen>>

\* The row as the service reads it, of the store the administrator looks at.
Found(a) == seen[a] # NoStore /\ Existing(seen[a].store)
StatusFor(a) == verification[seen[a].store].status

Review(q, a) ==
    /\ Found(a)
    /\ \/ StatusFor(a) = "submitted"
       \/ StatusFor(a) = "in_review" /\ verification[seen[a].store].reviewer = a
    /\ Decide(q, a, "in_review")

Approve(q, a) == Found(a) /\ StatusFor(a) = "in_review" /\ Decide(q, a, "approved")
Reject(q, a) == Found(a) /\ StatusFor(a) = "in_review" /\ Decide(q, a, "rejected")

UnchangedStatus(current, before) == current.status = before.status

\* _conditional_update: status and version as expected, else a conflict.
Unchanged(current, before) == current.status = before.status /\ current.version = before.version

WriteVerification(q) ==
    /\ process[q].at = "writing" /\ HeldBy(process[q].store) = {}
    /\ LET current == verification[process[q].store] IN
       process' =
         IF Unchanged(current, process[q].before)
         THEN [process EXCEPT ![q].at = "moving",
                 ![q].row = IF process[q].op = "submit" THEN @
                            ELSE [@ EXCEPT !.evidence = current.evidence, !.version = current.version + 1]]
         ELSE [process EXCEPT ![q] = Waiting]
    /\ UNCHANGED <<store, verification, seen>>

-----------------------------------------------------------------------------
(* The store's row, and the end of the transaction                           *)

MovesHalf == [submit   |-> [from |-> "draft", status |-> "pending_review", verified |-> "pending"],
              approved |-> [from |-> "pending_review", status |-> "active", verified |-> "verified"],
              rejected |-> [from |-> "pending_review", status |-> "draft", verified |-> "pending"]]

Moves == [submit   |-> [from |-> "draft", status |-> "pending_review", verified |-> "pending"],
          approved |-> [from |-> "pending_review", status |-> "active", verified |-> "verified"],
          rejected |-> [from |-> "pending_review", status |-> "draft", verified |-> "rejected"]]

\* transition; a review that only starts or is annotated leaves the store.
MoveStore(q) ==
    /\ process[q].at = "moving" /\ process[q].op # "in_review"
    /\ LET s == process[q].store
           move == Moves[process[q].op]
       IN  /\ store[s].status = move.from
           /\ store' = [store EXCEPT ![s] = [status |-> move.status, verified |-> move.verified,
                                             version |-> @.version + 1]]
           /\ verification' = [verification EXCEPT ![s] = process[q].row]
    /\ Fail(q)
    /\ UNCHANGED seen

CommitReview(q) ==
    /\ process[q].at = "moving" /\ process[q].op = "in_review"
    /\ verification' = [verification EXCEPT ![process[q].store] = process[q].row]
    /\ Fail(q)
    /\ UNCHANGED <<store, seen>>

\* The store is not where the verification was left: everything is undone,
\* as it is when the request breaks off.
Undone(q) ==
    /\ process[q].at # "idle"
    /\ Fail(q)
    /\ UNCHANGED <<store, verification, seen>>

StoresNext ==
    \/ \E s \in StoreIds : \/ CreateStore(s) \/ CloseStore(s)
                           \/ \E v \in 1..MaxEdited : UpdateStore(s, v)
                           \/ \E a \in Administrators : Look(a, s)
                           \/ \E q \in Submitters, e \in Evidence : BeginSubmit(q, s, e)
    \/ \E q \in Submitters :
         \/ ReadVerification(q) \/ AddVerification(q) \/ WriteVerification(q)
         \/ MoveStore(q) \/ CommitReview(q) \/ Undone(q)
         \/ \E a \in Administrators : Review(q, a) \/ Approve(q, a) \/ Reject(q, a)

StoresSpec == StoresInit /\ [][StoresNext]_storeVars

-----------------------------------------------------------------------------
\* The two rows tell the same story after every commit: an active store has
\* an approved verification, one under review an open one, a rejected draft a
\* rejected one, and a draft never submitted has none.  Only a closed store
\* keeps the verification it had.
RowsAgree ==
    \A s \in StoreIds : store[s] # NoStore =>
        LET shown == IF verification[s] = NoStore THEN "none" ELSE verification[s].status IN
        CASE store[s].status = "draft"          -> <<store[s].verified, shown>> \in
                                                   {<<"unverified", "none">>, <<"rejected", "rejected">>}
          [] store[s].status = "pending_review" -> /\ store[s].verified = "pending"
                                                   /\ shown \in {"submitted", "in_review"}
          [] store[s].status = "active"         -> store[s].verified = "verified" /\ shown = "approved"
          [] OTHER                              -> TRUE

\* An administrator decides on the evidence it was shown: no resubmission in
\* between is approved or rejected unread.
DecidedAsShown ==
    \A q \in Submitters :
        process[q].at = "moving" /\ process[q].op \in {"approved", "rejected"}
        => process[q].row.evidence = process[q].shown
=============================================================================

----------------------------- MODULE StoreMedia -----------------------------
(***************************************************************************)
(* The images of a store: rows in PostgreSQL, bytes in object storage, and *)
(* a request that changes both.  The request mutates the storage first,    *)
(* then its database transaction commits, then the storage is cleaned up;  *)
(* when the database transaction fails, the storage is compensated.  Every *)
(* call to the storage is a step and may be refused (S3Error); a call that *)
(* breaks off instead (no answer) is not compensated, which is the call    *)
(* done or not done followed by Crash.                                     *)
(***************************************************************************)
EXTENDS Integers, FiniteSets

CONSTANTS Images,       \* natural numbers: ids of store_media rows
          MediaTypes,
          Singles,      \* logo and banner
          Checksums,
          Uploaders,    \* requests in progress at the same time
          MaxVersion,   \* bound on the version of a row
          MaxFaults,    \* bound on crashes, refused calls and failed commits
          NoMedia

VARIABLES media,        \* committed store_media rows
          objects,      \* keys in the bucket: <<image, "key">> or a tombstone <<image, request>>
          request,      \* what each request is doing
          unanswered,   \* history: images whose commit succeeded without an answer
          faults        \* failures so far

mediaVars == <<media, objects, request, unanswered, faults>>

MediaRow == [type : MediaTypes, status : {"active", "archived", "deleted"},
             checksum : Checksums, version : Nat]

\* Requests name their tombstones; the key of an image is not a request's.
ASSUME MediaAssumption ==
    /\ Singles \subseteq MediaTypes /\ Checksums # {}
    /\ "key" \notin Uploaders
    /\ NoMedia \notin MediaRow /\ NoMedia \notin Images
    /\ NoMedia \notin [type : MediaTypes, status : {"active", "archived", "deleted"}]

NotDeleted(i) == media[i] # NoMedia /\ media[i].status # "deleted"
ActiveOf(t) == {i \in Images : NotDeleted(i) /\ media[i].type = t /\ media[i].status = "active"}

\* The archived rows and the new row of a request are locked until it ends.
Resting == [at |-> "idle", image |-> NoMedia, row |-> NoMedia, seen |-> {}, locks |-> {}]
LockedBy(i) == {q \in Uploaders : i \in request[q].locks}
Goto(r, stage) == request' = [request EXCEPT ![r].at = stage]
End(r) == request' = [request EXCEPT ![r] = Resting]
Fault == faults < MaxFaults /\ faults' = faults + 1
At(r, stage) == request[r].at = stage
Tombstone(r) == <<request[r].image, r>>
Original(r) == <<request[r].image, "key">>

\* The store has one active logo to begin with.
MediaInit ==
    /\ \E t \in Singles :
         media = [i \in Images |-> IF i = 1
                   THEN [type |-> t, status |-> "active", version |-> 1,
                         checksum |-> CHOOSE c \in Checksums : TRUE]
                   ELSE NoMedia]
    /\ objects = {<<i, "key">> : i \in {j \in Images : media[j] # NoMedia}}
    /\ request = [r \in Uploaders |-> Resting]
    /\ unanswered = {}
    /\ faults = 0

-----------------------------------------------------------------------------
(* upload                                                                    *)

Duplicate(c) == \E i \in Images : NotDeleted(i) /\ media[i].checksum = c

\* A new identifier: no row, no object and no other upload has it.
FreshImages == {i \in Images : /\ media[i] = NoMedia /\ <<i, "key">> \notin objects
                          /\ \A q \in Uploaders : request[q].image # i}

StartUpload(r, i, t, c) ==
    /\ At(r, "idle") /\ i \in FreshImages /\ \A j \in FreshImages : i <= j
    /\ ~Duplicate(c)
    /\ request' = [request EXCEPT ![r] =
         [at |-> "putting", image |-> i, seen |-> {}, locks |-> {},
          row |-> [type |-> t, status |-> "active", checksum |-> c, version |-> 1]]]
    /\ UNCHANGED <<media, objects, unanswered, faults>>

Put(r) ==
    /\ At(r, "putting")
    /\ objects' = objects \cup {Original(r)}
    /\ Goto(r, IF request[r].row.type \in Singles THEN "replacing" ELSE "inserting")
    /\ UNCHANGED <<media, unanswered, faults>>

\* archive_active is one UPDATE: it sees the active rows of its start, waits
\* for those another transaction holds, and archives those still active.
ReadActive(r) ==
    /\ At(r, "replacing")
    /\ request' = [request EXCEPT ![r].at = "archiving", ![r].seen = ActiveOf(request[r].row.type)]
    /\ UNCHANGED <<media, objects, unanswered, faults>>

ArchiveActive(r) ==
    /\ At(r, "archiving")
    /\ \A i \in request[r].seen : LockedBy(i) = {}
    /\ request' = [request EXCEPT ![r].at = "inserting",
                                  ![r].locks = request[r].seen \cap ActiveOf(request[r].row.type)]
    /\ UNCHANGED <<media, objects, unanswered, faults>>

\* The unique indexes: one live row of a checksum, one active row of a single
\* type.  They count what the transaction itself archived as archived.
Clashes(r, i) ==
    /\ NotDeleted(i) /\ i \notin request[r].locks
    /\ \/ media[i].checksum = request[r].row.checksum
       \/ /\ request[r].row.type \in Singles
          /\ i \in ActiveOf(request[r].row.type)

\* An insertion waits for another one the indexes may not allow beside it.
WaitsFor(r, q) ==
    /\ q # r /\ request[q].image \in request[q].locks /\ request[q].row.status = "active"
    /\ \/ request[q].row.checksum = request[r].row.checksum
       \/ request[q].row.type \in Singles /\ request[q].row.type = request[r].row.type

Insert(r) ==
    /\ At(r, "inserting")
    /\ \A q \in Uploaders : ~WaitsFor(r, q)
    /\ \A i \in Images : Clashes(r, i) => LockedBy(i) = {}
    /\ request' = IF \E i \in Images : Clashes(r, i)
                  THEN [request EXCEPT ![r].at = "undoing", ![r].locks = {}]
                  ELSE [request EXCEPT ![r].at = "committing", ![r].locks = @ \cup {request[r].image}]
    /\ UNCHANGED <<media, objects, unanswered, faults>>

-----------------------------------------------------------------------------
(* delete, and stage_delete's move: a copy, then the deletion of the source. *)

StartDelete(r, i) ==
    /\ At(r, "idle") /\ NotDeleted(i) /\ media[i].version < MaxVersion
    /\ <<i, r>> \notin objects
    /\ request' = [request EXCEPT ![r] =
         [at |-> "copying", image |-> i, seen |-> {}, locks |-> {},
          row |-> [media[i] EXCEPT !.status = "deleted", !.version = @ + 1]]]
    /\ UNCHANGED <<media, objects, unanswered, faults>>

Copy(r) ==
    /\ At(r, "copying") /\ Original(r) \in objects
    /\ objects' = objects \cup {Tombstone(r)}
    /\ Goto(r, "removing")
    /\ UNCHANGED <<media, unanswered, faults>>

\* Another deletion has moved the object away: nothing is staged.
CopyMissing(r) ==
    /\ At(r, "copying") /\ Original(r) \notin objects
    /\ End(r)
    /\ UNCHANGED <<media, objects, unanswered, faults>>

\* Deleting a key that is gone succeeds.
RemoveSource(r) ==
    /\ At(r, "removing")
    /\ objects' = objects \ {Original(r)}
    /\ Goto(r, "marking")
    /\ UNCHANGED <<media, unanswered, faults>>

\* soft_delete waits for the row and fails when its version has moved on.
SoftDelete(r) ==
    /\ At(r, "marking") /\ LockedBy(request[r].image) = {}
    /\ LET i == request[r].image IN
       request' = IF NotDeleted(i) /\ media[i].version = request[r].row.version - 1
                  THEN [request EXCEPT ![r].at = "committing", ![r].locks = {i}]
                  ELSE [request EXCEPT ![r].at = "restoring"]
    /\ UNCHANGED <<media, objects, unanswered, faults>>

-----------------------------------------------------------------------------
(* update and reorder: one row or several of the gallery, compared with their *)
(* versions.                                                                 *)

Edit(S) ==
    /\ \A i \in S : NotDeleted(i) /\ LockedBy(i) = {} /\ media[i].version < MaxVersion
    /\ media' = [i \in Images |-> IF i \in S THEN [media[i] EXCEPT !.version = @ + 1] ELSE media[i]]
    /\ UNCHANGED <<objects, request, unanswered, faults>>

Update(i) == Edit({i})
Reorder(S) == Cardinality(S) > 1 /\ (\A i \in S : media[i] # NoMedia /\ media[i].type \notin Singles) /\ Edit(S)

-----------------------------------------------------------------------------
(* The end of a request: session.commit, then storage_transaction.commit, or *)
(* session.rollback and storage_transaction.rollback.                        *)

Written(r) ==
    [i \in Images |->
        IF i = request[r].image THEN request[r].row
        ELSE IF i \in request[r].locks
             THEN [media[i] EXCEPT !.status = "archived", !.version = @ + 1]
             ELSE media[i]]

Deleting(r) == request[r].row.status = "deleted"
Undo(r) == IF Deleting(r) THEN "restoring" ELSE "undoing"

Commit(r) ==
    /\ At(r, "committing")
    /\ \A i \in request[r].locks : media[i] # NoMedia => media[i].version < MaxVersion
    /\ media' = Written(r)
    /\ request' = IF Deleting(r)
                  THEN [request EXCEPT ![r].at = "purging", ![r].locks = {}]
                  ELSE [request EXCEPT ![r] = Resting]
    /\ UNCHANGED <<objects, unanswered, faults>>

CommitFails(r) ==
    /\ Fault /\ At(r, "committing")
    /\ request' = [request EXCEPT ![r].at = Undo(r), ![r].locks = {}]
    /\ UNCHANGED <<media, objects, unanswered>>

\* The database commits and the connection breaks before it says so.
CommitUnanswered(r) ==
    /\ Fault /\ At(r, "committing")
    /\ \A i \in request[r].locks : media[i] # NoMedia => media[i].version < MaxVersion
    /\ media' = Written(r)
    /\ request' = [request EXCEPT ![r].at = Undo(r), ![r].locks = {}]
    /\ unanswered' = unanswered \cup {request[r].image}
    /\ UNCHANGED objects

PurgeBeforeCommit(r) ==
    /\ At(r, "committing") /\ Tombstone(r) \in objects
    /\ objects' = objects \ {Tombstone(r)}
    /\ UNCHANGED <<media, request, unanswered, faults>>

Purge(r) ==
    /\ At(r, "purging")
    /\ objects' = objects \ {Tombstone(r)}
    /\ End(r)
    /\ UNCHANGED <<media, unanswered, faults>>

\* The move back of a tombstone that exists, and the deletion of an upload.
RestoreCopy(r) ==
    /\ At(r, "restoring")
    /\ IF Tombstone(r) \in objects
       THEN objects' = objects \cup {Original(r)} /\ Goto(r, "clearing")
       ELSE UNCHANGED objects /\ End(r)
    /\ UNCHANGED <<media, unanswered, faults>>

RestoreClear(r) ==
    /\ At(r, "clearing")
    /\ objects' = objects \ {Tombstone(r)}
    /\ End(r)
    /\ UNCHANGED <<media, unanswered, faults>>

UndoUpload(r) ==
    /\ At(r, "undoing")
    /\ objects' = objects \ {Original(r)}
    /\ End(r)
    /\ UNCHANGED <<media, unanswered, faults>>

-----------------------------------------------------------------------------
(* Failures                                                                  *)

\* A refused deletion inside move deletes the copy again: of the original in
\* stage_delete, of the tombstone in rollback.  Every other refused call ends
\* the request where it stands.
DeletionRefused(r) ==
    /\ Fault
    /\ \/ At(r, "removing") /\ objects' = objects \ {Tombstone(r)}
       \/ At(r, "clearing") /\ objects' = objects \ {Original(r)}
    /\ End(r)
    /\ UNCHANGED <<media, unanswered>>

\* The process dies, or a call to the storage gets no answer: the database
\* rolls back what is not committed, the storage keeps what was done.
Crash(r) ==
    /\ Fault /\ ~At(r, "idle")
    /\ End(r)
    /\ UNCHANGED <<media, objects, unanswered>>

MediaNext ==
    \/ \E r \in Uploaders :
         \/ \E i \in Images : \/ StartDelete(r, i)
                              \/ \E t \in MediaTypes, c \in Checksums : StartUpload(r, i, t, c)
         \/ Put(r) \/ ReadActive(r) \/ ArchiveActive(r) \/ Insert(r)
         \/ Copy(r) \/ CopyMissing(r) \/ RemoveSource(r) \/ SoftDelete(r)
         \/ Commit(r) \/ CommitFails(r) \/ CommitUnanswered(r) \/ Purge(r)
         \/ RestoreCopy(r) \/ RestoreClear(r) \/ UndoUpload(r)
         \/ DeletionRefused(r) \/ Crash(r)
    \/ \E i \in Images : Update(i)
    \/ \E S \in SUBSET Images : Reorder(S)

MediaSpec == MediaInit /\ [][MediaNext]_mediaVars

-----------------------------------------------------------------------------
\* What a request can take for granted of the image store, through crashes,
\* refused calls and concurrent requests: bytes exist before a row refers to
\* them and as long as the row is live, a new logo archives the old one in
\* the same step, and the bytes of a deleted image never come back once gone.
\* Only an upload whose commit was not answered is exempt: its object is
\* deleted under a committed row.
Shelf == INSTANCE MediaShelf WITH
    Absent <- NoMedia,
    shelf  <- [i \in Images |-> IF media[i] = NoMedia THEN NoMedia
                                ELSE [type |-> media[i].type, status |-> media[i].status]],
    kept   <- {i \in Images : i \in unanswered \/ \E k \in objects : k[1] = i}

ImplementsShelf == Shelf!ShelfSpec
=============================================================================

----------------------------- MODULE Ingestion ------------------------------
(***************************************************************************)
(* Catalog imports of one store: a spreadsheet is uploaded, previewed      *)
(* against the catalog, and later committed row by row through the         *)
(* services of the product, the variant, its price and its stock, while    *)
(* the owner goes on editing.  The commit is one transaction with a        *)
(* savepoint around the rows; what it has written so far is its draft.     *)
(***************************************************************************)
EXTENDS Integers, FiniteSets, Sequences

CONSTANTS Imports,       \* named by their idempotency keys
          Sheets,        \* spreadsheets, named by their checksums
          RowsOf,        \* the parsed rows of each spreadsheet
          ProductOf,     \* the product of each variant
          Stocked,       \* the rows of the catalog there are at first
          Touched,       \* bound: the rows of the catalog the owner changes,
          MaxRowVersion, \* as long as their version is at most this
          NoRow, NoSheet

VARIABLES imports,    \* committed catalog_imports rows with their planned rows
          catalog,    \* committed products, variants, prices and inventory items
          work        \* the open request of each import: it holds the row lock

importVars == <<imports, catalog, work>>

\* The statuses are created, validated, validation_failed, completed and failed.
NotCreated == [status |-> "none", sheet |-> NoSheet, staged |-> FALSE, plan |-> <<>>]

\* One row of the file: what it says of the product, what of the rest.
FileRow == [variant : DOMAIN ProductOf, operation : {"auto", "create", "update"},
            product : {0, 1}, value : {0, 1}, image : BOOLEAN]

\* What the parser lets through: a variant once, a product always alike.
Parsed(rows) ==
    /\ rows \in Seq(FileRow) /\ rows # <<>>
    /\ \A m, n \in DOMAIN rows : m # n =>
        /\ rows[m].variant # rows[n].variant
        /\ ProductOf[rows[m].variant] = ProductOf[rows[n].variant] =>
              rows[m].product = rows[n].product

ASSUME SheetsParsed == \A s \in Sheets : Parsed(RowsOf[s])

Says(row, kind) == IF kind = "product" THEN row.product ELSE row.value

Kinds == {"product", "variant", "price", "stock"}

\* A row of the catalog: its kind, what it is of, and a number for the prices,
\* of which a variant may have several.
Key(kind, v, n) == <<kind, IF kind = "product" THEN ProductOf[v] ELSE v, n>>
Keys == {Key(kind, v, 1) : kind \in {"product", "variant", "stock"}, v \in DOMAIN ProductOf}
        \cup {Key("price", v, n) : v \in DOMAIN ProductOf, n \in 1..2}

\* `by` records who wrote the row last: an import or the owner.
Stored(value, version, by) == [value |-> value, version |-> version, deleted |-> FALSE, by |-> by]
EntryRow == [value : {0, 1}, version : Nat, deleted : BOOLEAN, by : Imports \cup {"owner"}]

ASSUME ImportsAssumption == "owner" \notin Imports /\ NoRow \notin EntryRow

Alive(row) == row # NoRow /\ ~row.deleted

NotOpen == [at |-> 0]

IngestionInit ==
    /\ imports = [i \in Imports |-> NotCreated]
    /\ catalog = [e \in Keys |-> IF e \in Stocked THEN Stored(0, 1, "owner") ELSE NoRow]
    /\ work = [i \in Imports |-> NotOpen]

Locked(i) == imports[i] # NotCreated /\ work[i] = NotOpen
SetImport(i, row) == imports' = [imports EXCEPT ![i] = row]
SetWork(i, what) == work' = [work EXCEPT ![i] = what]

-----------------------------------------------------------------------------
(* Before the commit                                                         *)

\* Once per key: a second request with the key is given the same import.
CreateImport(i) ==
    /\ imports[i] = NotCreated
    /\ SetImport(i, [NotCreated EXCEPT !.status = "created"])
    /\ UNCHANGED <<catalog, work>>

Accepts(i) == Locked(i) /\ imports[i].status \in {"created", "validation_failed"}

SheetExists(i, s) == \E j \in Imports \ {i} : imports[j].sheet = s

\* An upload another request has not committed yet is not seen.
BeginUpload(i, s) ==
    /\ Accepts(i) /\ ~SheetExists(i, s)
    /\ SetWork(i, [at |-> 0, sheet |-> s])
    /\ UNCHANGED <<imports, catalog>>

FinishUpload(i) ==
    /\ work[i].at = 0 /\ work[i] # NotOpen
    /\ SetImport(i, [imports[i] EXCEPT !.status = "created", !.sheet = work[i].sheet])
    /\ SetWork(i, NotOpen)
    /\ UNCHANGED catalog

UploadImage(i) ==
    /\ Accepts(i) /\ ~imports[i].staged
    /\ SetImport(i, [imports[i] EXCEPT !.staged = TRUE])
    /\ UNCHANGED <<catalog, work>>

Rows(i) == RowsOf[imports[i].sheet]

\* The newest price that is not deleted, the row otherwise.
Newest(rows, kind, v) ==
    IF kind = "price" /\ Alive(rows[Key(kind, v, 2)]) THEN Key(kind, v, 2) ELSE Key(kind, v, 1)
Found(rows, kind, v) == Alive(rows[Newest(rows, kind, v)])

\* A price or a stock is looked for only once the variant is found.
Matched(kind, v) ==
    Found(catalog, kind, v) /\ (kind \in {"price", "stock"} => Found(catalog, "variant", v))

\* What the preview notes of a row of the file: the identity and the version
\* of the rows it matches, and whether its data differ.
Preview(row) ==
    [kind \in Kinds |->
        LET e == Newest(catalog, kind, row.variant) IN
        IF Matched(kind, row.variant)
        THEN [key |-> e, version |-> catalog[e].version, changed |-> catalog[e].value # Says(row, kind)]
        ELSE [key |-> e, version |-> 0, changed |-> TRUE]]

RowValid(i, row) ==
    LET product == Found(catalog, "product", row.variant)
        variant == Found(catalog, "variant", row.variant)
    IN  /\ variant => product
        /\ row.operation = "create" => ~product /\ ~variant
        /\ row.operation = "update" => product /\ variant
        /\ row.image => imports[i].staged

\* A name of a category or of an attribute value may be unknown, which is a
\* matter of other modules: any preview may fail.
Validate(i, failed) ==
    /\ Locked(i) /\ imports[i].status # "completed" /\ imports[i].sheet # NoSheet
    /\ (\E n \in DOMAIN Rows(i) : ~RowValid(i, Rows(i)[n])) => failed
    /\ SetImport(i, [imports[i] EXCEPT
         !.status = IF failed THEN "validation_failed" ELSE "validated",
         !.plan = IF failed THEN <<>> ELSE [n \in DOMAIN Rows(i) |-> Preview(Rows(i)[n])]])
    /\ UNCHANGED <<catalog, work>>

-----------------------------------------------------------------------------
(* The commit                                                                *)

BeginCommit(i) ==
    /\ Locked(i) /\ imports[i].status = "validated"
    /\ SetWork(i, [at |-> 1, draft |-> <<>>, imaged |-> FALSE])
    /\ UNCHANGED <<imports, catalog>>

Committing(i) == work[i].at > 0

\* One step of the commit is one service call; the last of a row is the image.
Parts == <<"product", "variant", "price", "stock", "image">>
RowAt(i) == 1 + ((work[i].at - 1) \div 5)
PartAt(i) == Parts[1 + ((work[i].at - 1) % 5)]

\* A transaction reads what is committed and what it has written itself, and
\* waits for a row another one has written.
Overlay(draft) == [e \in Keys |-> IF e \in DOMAIN draft THEN draft[e] ELSE catalog[e]]
View(i) == Overlay(work[i].draft)
HeldByOther(i, e) == \E j \in Imports \ {i} : Committing(j) /\ e \in DOMAIN work[j].draft

Done(i, draft, imaged) ==
    SetWork(i, [at |-> work[i].at + 1, draft |-> draft, imaged |-> imaged])
Skip(i) == Done(i, work[i].draft, work[i].imaged)
Write(i, e, row) ==
    /\ ~HeldByOther(i, e)
    /\ LET draft == work[i].draft
       IN  Done(i, [f \in DOMAIN draft \cup {e} |-> IF f = e THEN row ELSE draft[f]], work[i].imaged)

\* The rows of a file about one product carry the same data: only the first
\* touches it.
DoneBefore(i, kind) ==
    kind = "product" /\ \E n \in 1..(RowAt(i) - 1) :
        ProductOf[Rows(i)[n].variant] = ProductOf[Rows(i)[RowAt(i)].variant]

\* The services look for the rows theirs belongs to.
ParentsAlive(i, kind, v) ==
    /\ kind # "product" => Alive(View(i)[Key("product", v, 1)])
    /\ kind \in {"price", "stock"} => Alive(View(i)[Key("variant", v, 1)])

\* A variant has one draft price more, a second one included; of the others
\* there is one row, and a deleted one is in the way for ever.
Vacant(i, kind, v) ==
    IF kind = "price" /\ View(i)[Key(kind, v, 1)] # NoRow THEN Key(kind, v, 2) ELSE Key(kind, v, 1)

CreateRow(i, kind, row) ==
    LET e == Vacant(i, kind, row.variant) IN
    /\ View(i)[e] = NoRow /\ ParentsAlive(i, kind, row.variant)
    /\ Write(i, e, Stored(Says(row, kind), 1, i))

\* Rows change only from the version the preview has seen.
AsFound(i, seen) == View(i)[seen.key].version >= seen.version
AsSeen(i, seen) == View(i)[seen.key].version = seen.version

ChangeRow(i, kind, seen, row) ==
    /\ Alive(View(i)[seen.key]) /\ AsSeen(i, seen)
    /\ Write(i, seen.key, Stored(Says(row, kind), seen.version + 1, i))

\* Unchanged data are not written; only a price and a stock are read again.
KeepRow(i, kind, seen) ==
    /\ kind \in {"price", "stock"} => Alive(View(i)[seen.key])
    /\ Skip(i)

CommitPart(i) ==
    /\ Committing(i) /\ RowAt(i) <= Len(Rows(i)) /\ PartAt(i) # "image"
    /\ LET kind == PartAt(i)
           row == Rows(i)[RowAt(i)]
           seen == imports[i].plan[RowAt(i)][kind]
       IN  \/ DoneBefore(i, kind) /\ Skip(i)
           \/ ~DoneBefore(i, kind) /\ seen.version = 0 /\ CreateRow(i, kind, row)
           \/ ~DoneBefore(i, kind) /\ seen.version > 0 /\ seen.changed /\ ChangeRow(i, kind, seen, row)
           \/ ~DoneBefore(i, kind) /\ seen.version > 0 /\ ~seen.changed /\ KeepRow(i, kind, seen)
    /\ UNCHANGED <<imports, catalog>>

\* The image becomes one of the product, and the staged one goes away.
CommitImage(i) ==
    /\ Committing(i) /\ RowAt(i) <= Len(Rows(i)) /\ PartAt(i) = "image"
    /\ LET row == Rows(i)[RowAt(i)] IN
        /\ row.image => ParentsAlive(i, "stock", row.variant)
        /\ Done(i, work[i].draft, work[i].imaged \/ row.image)
    /\ UNCHANGED <<imports, catalog>>

\* The draft becomes the catalog, the storage forgets the staged image.
FinishCommit(i) ==
    /\ Committing(i) /\ RowAt(i) > Len(Rows(i))
    /\ catalog' = View(i)
    /\ SetImport(i, [imports[i] EXCEPT !.status = "completed", !.staged = @ /\ ~work[i].imaged])
    /\ SetWork(i, NotOpen)

\* What a failed import leaves: the rollback to the savepoint drops the draft.
WithDraft(i) == View(i)
AfterRollback(i) == catalog

\* A service refuses a call: the row is there or gone, its version is another,
\* or what this model leaves out (a category, an attribute value) is gone.
FailCommit(i) ==
    /\ Committing(i) /\ RowAt(i) <= Len(Rows(i))
    /\ catalog' = AfterRollback(i)
    /\ SetImport(i, [imports[i] EXCEPT !.status = "failed"])
    /\ SetWork(i, NotOpen)

\* An index is violated, the storage does not answer, the process dies: the
\* request is undone, the import is what it was.
Break(i) ==
    /\ work[i] # NotOpen
    /\ SetWork(i, NotOpen)
    /\ UNCHANGED <<imports, catalog>>

-----------------------------------------------------------------------------
(* The owner                                                                 *)

Free(e) == \A i \in Imports : Committing(i) => e \notin DOMAIN work[i].draft

OwnerWrites(e, row) ==
    /\ e \in Touched /\ Free(e)
    /\ catalog' = [catalog EXCEPT ![e] = row]
    /\ UNCHANGED <<imports, work>>

EditRow(e) ==
    /\ Alive(catalog[e]) /\ catalog[e].version <= MaxRowVersion
    /\ OwnerWrites(e, Stored(1 - catalog[e].value, catalog[e].version + 1, "owner"))

\* A product keeps its variants, a variant its price and its stock.
DeleteRow(e) ==
    /\ Alive(catalog[e]) /\ catalog[e].version <= MaxRowVersion /\ e[1] # "stock"
    /\ OwnerWrites(e, [catalog[e] EXCEPT !.deleted = TRUE, !.version = @ + 1, !.by = "owner"])

AddRow(e) ==
    /\ catalog[e] = NoRow
    /\ e[1] = "variant" => Alive(catalog[Key("product", e[2], 1)])
    /\ e[1] \in {"price", "stock"} => Alive(catalog[Key("variant", e[2], 1)])
                                      /\ Alive(catalog[Key("product", e[2], 1)])
    /\ OwnerWrites(e, Stored(0, 1, "owner"))

IngestionNext ==
    \/ \E i \in Imports :
         \/ CreateImport(i) \/ UploadImage(i) \/ FinishUpload(i)
         \/ \E s \in Sheets : BeginUpload(i, s)
         \/ \E failed \in BOOLEAN : Validate(i, failed)
         \/ BeginCommit(i) \/ CommitPart(i) \/ CommitImage(i) \/ FinishCommit(i)
         \/ FailCommit(i) \/ Break(i)
    \/ \E e \in Keys : EditRow(e) \/ DeleteRow(e) \/ AddRow(e)

IngestionSpec == IngestionInit /\ [][IngestionNext]_importVars

-----------------------------------------------------------------------------
IsCompleted(row) == row.status = "completed"

\* What a file asks of a row of the catalog, by what its preview has seen.
Asked(i) ==
    {a \in (1..Len(Rows(i))) \X Kinds :
        LET seen == imports[i].plan[a[1]][a[2]] IN seen.version = 0 \/ seen.changed}

(* An import is applied as a whole or not at all: the step that completes it
   makes every row the preview found missing or different what the file says,
   and every other step, failure included, leaves nothing of it in the
   catalog, whatever the owner and other imports do meanwhile. *)
AllOrNothing ==
    [][\A i \in Imports :
        IF IsCompleted(imports'[i]) /\ ~IsCompleted(imports[i])
        THEN \A a \in Asked(i) :
                LET row == Rows(i)[a[1]] IN
                \E n \in 1..2 : LET e == Key(a[2], row.variant, n) IN
                    e \in Keys /\ Alive(catalog'[e]) /\ catalog'[e].by = i
                    /\ catalog'[e].value = Says(row, a[2])
        ELSE \A e \in Keys : catalog'[e] # catalog[e] => catalog'[e].by # i]_importVars

(* Nobody's change is lost to an import: a row it changes is in the version its
   preview has seen, and a row it adds was not there. *)
AppliedAsValidated ==
    [][\A i \in Imports, e \in Keys :
        catalog'[e] # catalog[e] /\ catalog'[e].by = i =>
            IF catalog[e] = NoRow THEN catalog'[e].version = 1
            ELSE \E n \in DOMAIN imports[i].plan, kind \in Kinds :
                    imports[i].plan[n][kind].key = e
                    /\ imports[i].plan[n][kind].version = catalog[e].version]_importVars
=============================================================================

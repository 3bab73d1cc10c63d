------------------------------ MODULE Taxonomy ------------------------------
(***************************************************************************)
(* How the products of a store are arranged: catalogs, a hierarchy of      *)
(* categories, and collections with an order of their products.  A change  *)
(* of a row compares the row's version when it is written; what it checks  *)
(* of other rows it has read before.                                       *)
(***************************************************************************)
EXTENDS Integers, FiniteSets, Sequences

CONSTANTS CatalogIds, CategoryIds, CollectionIds,
          Assortment,      \* the products of the store
          Arrangers,       \* requests between their statements
          MaxTaxonVersion, \* bound on the version a change starts from
          NoTaxon

VARIABLES catalogOf,   \* committed catalogs rows
          category,    \* committed categories rows
          collection,  \* committed collections rows, with their products
          filed,       \* committed product_categories rows
          arranging    \* the category update of each request

taxonomyVars == <<catalogOf, category, collection, filed, arranging>>

TaxonStatuses == {"draft", "active", "archived"}

CatalogRow == [status : TaxonStatuses, isDefault : BOOLEAN, deleted : BOOLEAN, version : Nat]
CategoryRow == [parent : CategoryIds \cup {NoTaxon}, status : TaxonStatuses,
                deleted : BOOLEAN, version : Nat]
\* The display order of its products.
CollectionRow == [status : TaxonStatuses, deleted : BOOLEAN, version : Nat,
                  orderOf : UNION {[P -> Nat] : P \in SUBSET Assortment}]

NotArranging == [category |-> NoTaxon]

TaxonomyInit ==
    /\ catalogOf = [c \in CatalogIds |-> NoTaxon]
    /\ category = [c \in CategoryIds |-> NoTaxon]
    /\ collection = [c \in CollectionIds |-> NoTaxon]
    /\ filed = {}
    /\ arranging = [k \in Arrangers |-> NotArranging]

Kept(row) == row # NoTaxon /\ ~row.deleted
MayChange(row) == Kept(row) /\ row.version <= MaxTaxonVersion

-----------------------------------------------------------------------------
(* CatalogService                                                            *)

CreateCatalog(c) ==
    /\ catalogOf[c] = NoTaxon
    /\ catalogOf' = [catalogOf EXCEPT ![c] = [status |-> "draft", isDefault |-> FALSE,
                                              deleted |-> FALSE, version |-> 1]]
    /\ UNCHANGED <<category, collection, filed, arranging>>

\* To become the default activates a catalog; the index allows one default.
UpdateCatalog(c, default) ==
    /\ MayChange(catalogOf[c])
    /\ default => \A d \in CatalogIds \ {c} : Kept(catalogOf[d]) => ~catalogOf[d].isDefault
    /\ catalogOf' = [catalogOf EXCEPT ![c] =
         [@ EXCEPT !.isDefault = default, !.version = @ + 1,
                   !.status = IF default THEN "active" ELSE @]]
    /\ UNCHANGED <<category, collection, filed, arranging>>

\* The check of the table forbids an archived default.
DeleteCatalog(c) ==
    /\ MayChange(catalogOf[c]) /\ ~catalogOf[c].isDefault
    /\ catalogOf' = [catalogOf EXCEPT ![c].status = "archived", ![c].deleted = TRUE,
                                      ![c].version = @ + 1]
    /\ UNCHANGED <<category, collection, filed, arranging>>

-----------------------------------------------------------------------------
(* CategoryService                                                           *)

\* The categories the walk up from one meets, and whether it ends.
Walk(from) ==
    LET step[n \in 0..Cardinality(CategoryIds)] ==
            IF n = 0 THEN from
            ELSE IF step[n - 1] = NoTaxon THEN NoTaxon ELSE category[step[n - 1]].parent
    IN  {step[n] : n \in DOMAIN step}

InCycle(c) == category[c] # NoTaxon /\ c \in Walk(category[c].parent)

ValidParent(c, parent) ==
    parent # NoTaxon =>
        /\ c # parent /\ Kept(category[parent])
        /\ NoTaxon \in Walk(parent) /\ c \notin Walk(parent)

\* Nothing can be below a category that is not there yet.
CreateCategory(c, parent) ==
    /\ category[c] = NoTaxon /\ ValidParent(c, parent)
    /\ category' = [category EXCEPT ![c] = [parent |-> parent, status |-> "draft",
                                            deleted |-> FALSE, version |-> 1]]
    /\ UNCHANGED <<catalogOf, collection, filed, arranging>>

BeginUpdateCategory(k, c, parent, status) ==
    /\ arranging[k] = NotArranging /\ MayChange(category[c])
    /\ parent # category[c].parent => ValidParent(c, parent)
    /\ arranging' = [arranging EXCEPT ![k] =
         [category |-> c, version |-> category[c].version, parent |-> parent, status |-> status]]
    /\ UNCHANGED <<catalogOf, category, collection, filed>>

UpdateCategory(k) ==
    LET c == arranging[k].category IN
    /\ arranging[k] # NotArranging
    /\ Kept(category[c]) /\ category[c].version = arranging[k].version
    /\ category' = [category EXCEPT ![c] =
         [@ EXCEPT !.parent = arranging[k].parent, !.status = arranging[k].status,
                   !.version = @ + 1]]
    /\ arranging' = [arranging EXCEPT ![k] = NotArranging]
    /\ UNCHANGED <<catalogOf, collection, filed>>

AbandonCategory(k) ==
    /\ arranging[k] # NotArranging
    /\ arranging' = [arranging EXCEPT ![k] = NotArranging]
    /\ UNCHANGED <<catalogOf, category, collection, filed>>

\* The categories below it and the products filed in it stay as they are.
DeleteCategory(c) ==
    /\ MayChange(category[c])
    /\ category' = [category EXCEPT ![c].status = "archived", ![c].deleted = TRUE,
                                    ![c].version = @ + 1]
    /\ UNCHANGED <<catalogOf, collection, filed, arranging>>

\* Filing a product twice violates the primary key.
AssignCategory(c, p) ==
    /\ Kept(category[c]) /\ category[c].status # "archived" /\ <<c, p>> \notin filed
    /\ filed' = filed \cup {<<c, p>>}
    /\ UNCHANGED <<catalogOf, category, collection, arranging>>

RemoveCategory(c, p) ==
    /\ Kept(category[c]) /\ <<c, p>> \in filed
    /\ filed' = filed \ {<<c, p>>}
    /\ UNCHANGED <<catalogOf, category, collection, arranging>>

-----------------------------------------------------------------------------
(* CollectionService                                                         *)

SetCollection(c, row) ==
    /\ collection' = [collection EXCEPT ![c] = row]
    /\ UNCHANGED <<catalogOf, category, filed, arranging>>

CreateCollection(c, status) ==
    /\ collection[c] = NoTaxon
    /\ SetCollection(c, [status |-> status, deleted |-> FALSE, version |-> 1, orderOf |-> <<>>])

UpdateCollection(c, status) ==
    /\ MayChange(collection[c])
    /\ SetCollection(c, [collection[c] EXCEPT !.status = status, !.version = @ + 1])

DeleteCollection(c) ==
    /\ MayChange(collection[c])
    /\ SetCollection(c, [collection[c] EXCEPT !.status = "archived", !.deleted = TRUE,
                                              !.version = @ + 1])

\* A new product comes with the order 0, wherever the others are.
AssignCollection(c, p) ==
    /\ Kept(collection[c]) /\ collection[c].status # "archived"
    /\ p \notin DOMAIN collection[c].orderOf
    /\ SetCollection(c, [collection[c] EXCEPT
         !.orderOf = [q \in DOMAIN @ \cup {p} |-> IF q = p THEN 0 ELSE @[q]]])

RemoveCollection(c, p) ==
    /\ Kept(collection[c]) /\ p \in DOMAIN collection[c].orderOf
    /\ SetCollection(c, [collection[c] EXCEPT !.orderOf = [q \in DOMAIN @ \ {p} |-> @[q]]])

\* Products the request does not name keep their order, those that are not in
\* the collection are passed over.
ReorderCollection(c, products) ==
    /\ MayChange(collection[c])
    /\ SetCollection(c, [collection[c] EXCEPT !.version = @ + 1,
         !.orderOf = [p \in DOMAIN @ |->
             IF \E n \in DOMAIN products : products[n] = p
             THEN (CHOOSE n \in DOMAIN products :
                     products[n] = p /\ \A m \in DOMAIN products : products[m] = p => m <= n) - 1
             ELSE @[p]]])

Listings == UNION {[1..n -> Assortment] : n \in 1..Cardinality(Assortment)}

\* The three kinds of rows have no rule in common.
CatalogsNext ==
    \E c \in CatalogIds :
        CreateCatalog(c) \/ DeleteCatalog(c) \/ \E on \in BOOLEAN : UpdateCatalog(c, on)

CategoriesNext ==
    \/ \E c \in CategoryIds :
         \/ \E parent \in CategoryIds \cup {NoTaxon} :
              \/ CreateCategory(c, parent)
              \/ \E k \in Arrangers, s \in {"active", "archived"} :
                    BeginUpdateCategory(k, c, parent, s)
         \/ DeleteCategory(c)
         \/ \E p \in Assortment : AssignCategory(c, p) \/ RemoveCategory(c, p)
    \/ \E k \in Arrangers : UpdateCategory(k) \/ AbandonCategory(k)

CollectionsNext ==
    \E c \in CollectionIds :
        \/ \E s \in {"draft", "archived"} : CreateCollection(c, s) \/ UpdateCollection(c, s)
        \/ DeleteCollection(c)
        \/ \E p \in Assortment : AssignCollection(c, p) \/ RemoveCollection(c, p)
        \/ \E products \in Listings : ReorderCollection(c, products)

TaxonomyNext == CatalogsNext \/ CategoriesNext \/ CollectionsNext

TaxonomySpec == TaxonomyInit /\ [][TaxonomyNext]_taxonomyVars

-----------------------------------------------------------------------------
(* No category is above itself, however many requests move categories at the
   same time. *)
HierarchyAcyclic == \A c \in CategoryIds : ~InCycle(c)
=============================================================================

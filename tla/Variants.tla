------------------------------ MODULE Variants ------------------------------
(***************************************************************************)
(* The variants of a product and their attribute values.  A variant row    *)
(* stores a signature of its values, so that an index can refuse a second  *)
(* variant with the same combination; the values themselves are rows of    *)
(* product_variant_attribute_values.  Every request reads first, in several *)
(* statements, and then writes both under the version of the variant.      *)
(***************************************************************************)
EXTENDS Integers, FiniteSets

CONSTANTS VariantIds,        \* natural numbers: rows in order of insertion
          ValueIds,
          LaterValues,       \* those not created yet
          AttributeOf,       \* the attribute of each value
          Stylists,          \* requests between their statements
          MaxVariantVersion, \* bound on the version a change starts from
          NoVariant

VARIABLES variant,       \* committed product_variants rows
          assigned,      \* committed product_variant_attribute_values rows
          attributeValue,\* each value: absent, present or deleted
          retired,       \* archived attributes
          styling        \* what each request has read and is about to write

variantVars == <<variant, assigned, attributeValue, retired, styling>>

\* References and the order of the variants are left out.
VariantRow == [signature : SUBSET ValueIds, deleted : BOOLEAN, version : Nat]

ASSUME VariantsAssumption ==
    IsFiniteSet(VariantIds) /\ VariantIds \subseteq Nat \ {0} /\ NoVariant \notin VariantRow

NotStyling == [op |-> "none"]

ValuesOf(v) == {x \in ValueIds : <<v, x>> \in assigned}
Lives(v) == variant[v] # NoVariant /\ ~variant[v].deleted
Present(x) == attributeValue[x] = "present"
NextVariant == Cardinality({v \in VariantIds : variant[v] # NoVariant}) + 1

VariantsInit ==
    /\ variant = [v \in VariantIds |-> NoVariant]
    /\ assigned = {}
    /\ attributeValue = [x \in ValueIds |-> IF x \in LaterValues THEN "absent" ELSE "present"]
    /\ retired = {}
    /\ styling = [r \in Stylists |-> NotStyling]

-----------------------------------------------------------------------------
(* What a request finds out before it writes                                *)

ActiveValue(x) == Present(x) /\ AttributeOf[x] \notin retired

\* A mapping from attribute names to values: one value for each attribute.
Resolvable(S) ==
    /\ S # {} /\ \A x \in S : ActiveValue(x)
    /\ \A x, y \in S : AttributeOf[x] = AttributeOf[y] => x = y

\* uq_product_variants_product_signature says the same of the write.
SignatureExists(S, but) == \E w \in VariantIds \ but : Lives(w) /\ variant[w].signature = S

Style(r, what) == styling[r] = NotStyling /\ styling' = [styling EXCEPT ![r] = what]
StyleDone(r) == styling' = [styling EXCEPT ![r] = NotStyling]

\* The request ends without a change: refused, or rolled back.
AbandonStyling(r) ==
    /\ styling[r] # NotStyling /\ StyleDone(r)
    /\ UNCHANGED <<variant, assigned, attributeValue, retired>>

OnlyStyling == UNCHANGED <<variant, assigned, attributeValue, retired>>

-----------------------------------------------------------------------------
(* ProductVariantService                                                     *)

BeginCreateVariant(r, S) ==
    /\ NextVariant \in VariantIds
    /\ Resolvable(S) /\ ~SignatureExists(S, {})
    /\ Style(r, [op |-> "create", values |-> S])
    /\ OnlyStyling

\* The row and its values are inserted; the foreign key wants every value.
CreateVariant(r) ==
    /\ styling[r].op = "create" /\ NextVariant \in VariantIds
    /\ LET S == styling[r].values
       IN  /\ ~SignatureExists(S, {}) /\ \A x \in S : Present(x)
           /\ variant' = [variant EXCEPT ![NextVariant] =
                [signature |-> S, deleted |-> FALSE, version |-> 1]]
           /\ assigned' = assigned \cup ({NextVariant} \X S)
    /\ StyleDone(r)
    /\ UNCHANGED <<attributeValue, retired>>

\* The version is the one the client last saw, so at most the current one; an
\* older one is refused whatever happens in between.
BeginUpdateVariant(r, v, S) ==
    /\ Lives(v) /\ variant[v].version <= MaxVariantVersion
    /\ S # ValuesOf(v) => Resolvable(S)
    /\ ~SignatureExists(S, {v})
    /\ Style(r, [op |-> "update", variant |-> v, version |-> variant[v].version,
                 values |-> S])
    /\ OnlyStyling

\* The UPDATE compares the version.
AnyVersion(r) == Lives(styling[r].variant)
SameVersion(r) ==
    LET v == styling[r].variant IN Lives(v) /\ variant[v].version = styling[r].version

Rewrite(r, row) == variant' = [variant EXCEPT ![styling[r].variant] = row]

\* The DELETE and the INSERTs of the new values are part of the transaction.
UpdateVariant(r) ==
    /\ styling[r].op = "update" /\ SameVersion(r)
    /\ LET v == styling[r].variant
           S == styling[r].values
       IN  /\ ~SignatureExists(S, {v}) /\ \A x \in S : Present(x)
           /\ Rewrite(r, [variant[v] EXCEPT !.signature = S, !.version = @ + 1])
           /\ assigned' = {a \in assigned : a[1] # v} \cup ({v} \X S)
    /\ StyleDone(r)
    /\ UNCHANGED <<attributeValue, retired>>

\* The values of a deleted variant stay assigned to it.
DeleteVariant(v) ==
    /\ Lives(v) /\ variant[v].version <= MaxVariantVersion
    /\ variant' = [variant EXCEPT ![v].deleted = TRUE, ![v].version = @ + 1]
    /\ UNCHANGED <<assigned, attributeValue, retired, styling>>

-----------------------------------------------------------------------------
(* VariantAttributeService                                                   *)

BeginAssignValue(r, v, x) ==
    /\ Lives(v) /\ variant[v].version <= MaxVariantVersion /\ ActiveValue(x)
    /\ \A y \in ValuesOf(v) : AttributeOf[y] # AttributeOf[x]
    /\ ~SignatureExists(ValuesOf(v) \cup {x}, {v})
    /\ Style(r, [op |-> "assign", variant |-> v, version |-> variant[v].version,
                 value |-> x, values |-> ValuesOf(v) \cup {x}])
    /\ OnlyStyling

AssignValue(r) ==
    /\ styling[r].op = "assign" /\ SameVersion(r)
    /\ LET v == styling[r].variant
           x == styling[r].value
       IN  /\ Present(x) /\ <<v, x>> \notin assigned
           /\ ~SignatureExists(styling[r].values, {v})
           /\ assigned' = assigned \cup {<<v, x>>}
           /\ Rewrite(r, [variant[v] EXCEPT !.signature = styling[r].values, !.version = @ + 1])
    /\ StyleDone(r)
    /\ UNCHANGED <<attributeValue, retired>>

BeginRemoveValue(r, v, x) ==
    /\ Lives(v) /\ variant[v].version <= MaxVariantVersion
    /\ x \in ValuesOf(v) /\ ValuesOf(v) # {x}
    /\ ~SignatureExists(ValuesOf(v) \ {x}, {v})
    /\ Style(r, [op |-> "remove", variant |-> v, version |-> variant[v].version,
                 value |-> x, values |-> ValuesOf(v) \ {x}])
    /\ OnlyStyling

RemoveValue(r) ==
    /\ styling[r].op = "remove" /\ SameVersion(r)
    /\ LET v == styling[r].variant
           x == styling[r].value
       IN  /\ <<v, x>> \in assigned
           /\ ~SignatureExists(styling[r].values, {v})
           /\ assigned' = assigned \ {<<v, x>>}
           /\ Rewrite(r, [variant[v] EXCEPT !.signature = styling[r].values, !.version = @ + 1])
    /\ StyleDone(r)
    /\ UNCHANGED <<attributeValue, retired>>

-----------------------------------------------------------------------------
(* AttributeService                                                          *)

ArchiveAttribute(a) ==
    /\ a \notin retired
    /\ retired' = retired \cup {a}
    /\ UNCHANGED <<variant, assigned, attributeValue, styling>>

BeginCreateValue(r, x) ==
    /\ attributeValue[x] = "absent" /\ AttributeOf[x] \notin retired
    /\ Style(r, [op |-> "value", value |-> x])
    /\ OnlyStyling

\* The attribute may have been archived since.
CreateValue(r) ==
    /\ styling[r].op = "value" /\ attributeValue[styling[r].value] = "absent"
    /\ attributeValue' = [attributeValue EXCEPT ![styling[r].value] = "present"]
    /\ StyleDone(r)
    /\ UNCHANGED <<variant, assigned, retired>>

\* Neither the check nor the foreign key lets an assigned value go, those of
\* deleted variants included.
DeleteValue(x) ==
    /\ ActiveValue(x) /\ \A v \in VariantIds : <<v, x>> \notin assigned
    /\ attributeValue' = [attributeValue EXCEPT ![x] = "deleted"]
    /\ UNCHANGED <<variant, assigned, retired, styling>>

VariantsNext ==
    \/ \E r \in Stylists :
         \/ \E S \in SUBSET ValueIds : BeginCreateVariant(r, S)
         \/ \E v \in VariantIds, S \in SUBSET ValueIds : BeginUpdateVariant(r, v, S)
         \/ \E v \in VariantIds, x \in ValueIds :
              BeginAssignValue(r, v, x) \/ BeginRemoveValue(r, v, x)
         \/ \E x \in ValueIds : BeginCreateValue(r, x)
         \/ CreateVariant(r) \/ UpdateVariant(r) \/ AssignValue(r) \/ RemoveValue(r)
         \/ CreateValue(r) \/ AbandonStyling(r)
    \/ \E v \in VariantIds : DeleteVariant(v)
    \/ \E x \in ValueIds : DeleteValue(x)
    \/ \E a \in {AttributeOf[x] : x \in ValueIds} : ArchiveAttribute(a)

VariantsSpec == VariantsInit /\ [][VariantsNext]_variantVars

-----------------------------------------------------------------------------
(* The signature of a variant that is not deleted is the one of its values,
   of which there is at least one and at most one per attribute, whichever
   requests assign, remove and replace values at the same time: the index over
   the signatures refuses exactly the variants that are alike. *)
SignatureExact ==
    \A v \in VariantIds : Lives(v) =>
        /\ variant[v].signature = ValuesOf(v) /\ ValuesOf(v) # {}
        /\ \A x, y \in ValuesOf(v) : AttributeOf[x] = AttributeOf[y] => x = y
=============================================================================

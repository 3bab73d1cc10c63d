------------------------------ MODULE MCCatalog -----------------------------
(***************************************************************************)
(* The parts of a store's catalog that are modelled apart and share no     *)
(* state: one run checks them all, `part` saying which one a behaviour is  *)
(* about.                                                                  *)
(***************************************************************************)
EXTENDS Variants, Prices, Ingestion, Taxonomy, Discounts, TLC

CONSTANTS v1, v2, x1, x2, y1, f1, f2

VARIABLE part

catalogVars == <<part, variantVars, priceVars, importVars, taxonomyVars, discountVars>>

MCInit ==
    /\ VariantsInit /\ PricesInit /\ IngestionInit /\ TaxonomyInit
    /\ DiscountsInit
    /\ part \in {"variants", "prices", "imports", "catalogs", "categories", "collections",
                "discounts"}

MCNext ==
    \/ /\ part = "variants" /\ VariantsNext
       /\ UNCHANGED <<part, priceVars, importVars, taxonomyVars, discountVars>>
    \/ /\ part = "prices" /\ PricesNext
       /\ UNCHANGED <<part, variantVars, importVars, taxonomyVars, discountVars>>
    \/ /\ part = "imports" /\ IngestionNext
       /\ UNCHANGED <<part, variantVars, priceVars, taxonomyVars, discountVars>>
    \/ /\ \/ part = "catalogs" /\ CatalogsNext
          \/ part = "categories" /\ CategoriesNext
          \/ part = "collections" /\ CollectionsNext
       /\ UNCHANGED <<part, variantVars, priceVars, importVars, discountVars>>
    \/ /\ part = "discounts" /\ DiscountsNext
       /\ UNCHANGED <<part, variantVars, priceVars, importVars, taxonomyVars>>

MCSpec == MCInit /\ [][MCNext]_catalogVars

\* The requests of the parts and the imports are the same model values.
Symmetry == Permutations(Stylists) \cup Permutations(Assortment)

MCAttributeOf == [x \in ValueIds |-> IF x = y1 THEN "size" ELSE "colour"]

\* A price of the product and one of a variant, which goes on when it ends.
MCVariantOf == [p \in PriceIds |-> IF p = 1 THEN NoPrice ELSE v1]
MCPeriodOf == [p \in PriceIds |-> IF p = 1 THEN <<0, 1>> ELSE <<0, NoBound>>]
MCPriorityOf == [l \in ListIds |-> l]
MCListPeriodOf == [l \in ListIds |-> IF l = 1 THEN <<0, 1>> ELSE <<NoBound, NoBound>>]
MCGroupOf == [l \in ListIds |-> IF l = 2 THEN "public" ELSE "vip"]

\* One file repeats what is there and adds a variant, one changes what is there.
MCProductOf == [v \in {v1, v2} |-> "p"]
FileLine(v, operation, product, value, image) ==
    [variant |-> v, operation |-> operation, product |-> product, value |-> value,
     image |-> image]
MCRowsOf ==
    [f \in Sheets |->
        IF f = f1 THEN <<FileLine(v1, "auto", 0, 0, TRUE), FileLine(v2, "auto", 0, 1, FALSE)>>
        ELSE <<FileLine(v1, "update", 1, 1, FALSE)>>]
MCStocked == {Key(kind, v1, 1) : kind \in {"product", "variant", "price", "stock"}}
MCTouched == {Key("product", v1, 1), Key("price", v1, 1), Key("variant", v2, 1)}

\* A promotion for everybody on part of the cart, and one for a coupon.
NoTerms ==
    [type |-> "free_shipping", percentage |-> Unset, fixed |-> Unset, buy |-> Unset,
     get |-> Unset, bundle |-> Unset, bundlePrice |-> Unset, tiers |-> <<>>, public |-> TRUE,
     firstPurchase |-> FALSE, group |-> Unset, currency |-> Unset, minimumAmount |-> Unset,
     minimumQuantity |-> Unset, maximumDiscount |-> Unset, limit |-> Unset,
     perCustomer |-> Unset, exclusive |-> FALSE, stackable |-> TRUE, priority |-> 0,
     maximumStack |-> Unset, from |-> Unset, until |-> Unset, rules |-> {}]
Tiered(percentage) ==
    [NoTerms EXCEPT !.type = "tier_discount", !.limit = 1, !.until = 1,
        !.tiers = <<[minimum |-> 1, percentage |-> 5], [minimum |-> 2, percentage |-> percentage]>>,
        !.rules = {[condition |-> "category", target |-> "shirts"]}]
OnCoupon ==
    [NoTerms EXCEPT !.type = "fixed_amount", !.fixed = 50, !.currency = "IQD",
        !.public = FALSE, !.perCustomer = 1]
MCTermsOf == <<<<Tiered(10), Tiered(20)>>, <<OnCoupon>>>>
MCVoucherTerms ==
    <<[promotion |-> 2, limit |-> 2, perCustomer |-> Unset, from |-> Unset, until |-> Unset]>>
MCBuyerOf == [f \in Freezes |-> 1]
MCGivenTo == [f \in Freezes |-> {1}]
CartItem(v, categories, unit, quantity) ==
    [product |-> v, variant |-> v, catalog |-> "c", brand |-> "b", categories |-> categories,
     price |-> unit, quantity |-> quantity]
MCCartOf ==
    [b \in {1} |-> [group |-> "public", currency |-> "IQD",
        items |-> {CartItem("shirt", {"shirts"}, 100, 2), CartItem("hat", {}, 30, 1)}]]
=============================================================================

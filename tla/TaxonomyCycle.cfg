SPECIFICATION TaxonomySpec
CONSTANTS
    c1 = c1
    c2 = c2
    o1 = o1
    p1 = p1
    r1 = r1
    r2 = r2
    CatalogIds = {o1}
    CategoryIds = {c1, c2}
    CollectionIds = {o1}
    Assortment = {p1}
    Arrangers = {r1, r2}
    MaxTaxonVersion = 1
    NoTaxon = NoTaxon
INVARIANT HierarchyAcyclic
CHECK_DEADLOCK FALSE

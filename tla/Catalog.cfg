SPECIFICATION MCSpec
CONSTANTS
    v1 = v1
    v2 = v2
    x1 = x1
    x2 = x2
    y1 = y1
    f1 = f1
    f2 = f2
    VariantIds = {1, 2}
    ValueIds = {x1, x2, y1}
    LaterValues = {x2}
    AttributeOf <- MCAttributeOf
    Stylists = {r1, r2}
    MaxVariantVersion = 1
    NoVariant = NoVariant
    PriceIds = {1, 2}
    ListIds = {1, 2}
    VariantOf <- MCVariantOf
    PeriodOf <- MCPeriodOf
    PriorityOf <- MCPriorityOf
    ListPeriodOf <- MCListPeriodOf
    GroupOf <- MCGroupOf
    Clerks = {r1, r2}
    MaxPriceVersion = 1
    NoPrice = NoPrice
    NoBound = NoBound
    Imports = {r1, r2}
    Sheets = {f1, f2}
    RowsOf <- MCRowsOf
    ProductOf <- MCProductOf
    Stocked <- MCStocked
    Touched <- MCTouched
    MaxRowVersion = 1
    NoRow = NoRow
    NoSheet = NoSheet
    CatalogIds = {c1, c2}
    CategoryIds = {c1, c2}
    CollectionIds = {c1}
    Assortment = {p1, p2}
    Arrangers = {r1, r2}
    MaxTaxonVersion = 1
    NoTaxon = NoTaxon
    Campaigns = {1, 2}
    Vouchers = {1}
    Freezes = {r1, r2}
    BuyerOf <- MCBuyerOf
    GivenTo <- MCGivenTo
    CartOf <- MCCartOf
    TermsOf <- MCTermsOf
    VoucherTerms <- MCVoucherTerms
    Launched = {1}
    MaxTerms = 3
    MaxVoucher = 2
    MaxClock = 1
    Unset = Unset
SYMMETRY Symmetry
INVARIANTS
    SignatureExact
    ResolvedIsBest
    WithinLimits
    
PROPERTIES
    NeverBack
    AllOrNothing
    AppliedAsValidated
CHECK_DEADLOCK FALSE

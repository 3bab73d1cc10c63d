SPECIFICATION MCSpec
CONSTANTS
    StoreIds = {s1}
    Evidence = {e1, e2}
    Administrators = {a1, a2}
    Submitters = {r1, r2}
    MaxRevision = 5
    MaxEdited = 1
    NoStore = NoStore
    MemberIds = {1, 2}
    People = {a1, a2}
    Visitors = {r1, r2}
    MaxChanged = 3
    NoMember = NoMember
    Images = {1, 2, 3}
    MediaTypes = {"logo", "gallery"}
    Singles = {"logo"}
    Checksums = {c1, c2}
    Uploaders = {r1, r2}
    MaxVersion = 2
    MaxFaults = 1
    NoMedia = NoMedia
    RuleIds = {1, 2}
    Editors = {r1, r2}
    Candidates <- MCCandidates
    DaysOfWeek = 2
    SlotsPerDay = 3
    Horizon = 3
    NoRule = NoRule
    NoTime = NoTime
    Fronts = {s1}
    Writers = {r1, r2}
    Indexers = {a1, a2}
    MaxTries = 1
    MaxRevised = 4
    MaxQueued = 2
    MaxMishaps = 1
    NoDocument = NoDocument
    Recorders = {r1, r2}
    MetricDays = 2
    MaxFacts = 3
    NoDay = NoDay
SYMMETRY Symmetry
INVARIANTS
    RowsAgree
    DecidedAsShown
    RemovalSticks
    NoOverlap
    
    
    CountersMatchFacts
PROPERTIES
    ImplementsShelf
CHECK_DEADLOCK FALSE

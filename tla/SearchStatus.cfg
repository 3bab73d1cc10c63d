SPECIFICATION SearchSpec
CONSTANTS
    s1 = s1
    r1 = r1
    r2 = r2
    k1 = k1
    Fronts = {s1}
    Writers = {r1, r2}
    Indexers = {k1}
    MaxTries = 1
    MaxRevised = 4
    MaxQueued = 2
    MaxMishaps = 0
    NoDocument = NoDocument
PROPERTY StaysFound
CHECK_DEADLOCK FALSE

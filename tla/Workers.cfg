SPECIFICATION MCSpec
CONSTANTS
    Events = {e1}
    NumChannels = 2
    Workers = {w1, w2}
    MaxAttempts = 2
    MaxRetries = 1
    MaxKeys = 2
    i1 = i1
    i2 = i2
    Store = store
    Requests = {q1, q2}
    Items = {i1, i2}
    Rank <- MCRank
    Kinds = {"reserve", "ship", "count", "order", "import", "return"}
INVARIANTS
    PublishedWhenOver
    OrderedNeverDeadlock
PROPERTIES
    NothingSentTwice
    EventSettles
CHECK_DEADLOCK FALSE

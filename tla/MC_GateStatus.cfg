CONSTANTS
    Workers = {w1, w2}
    Requests = {r1}
    NoRow = NoRow
    NoTime = NoTime
    MaxTime = 2
    MaxRequests = 1
    IntLimit = 2
SPECIFICATION FairSpec
INVARIANTS TypeOK MultiNeedsTwo ConfirmedIsSeen
PROPERTIES Repaired

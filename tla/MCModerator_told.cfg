\* No failure is needed.
CONSTANTS
    m1 = m1
    m2 = m2
    order = order
    review = review
    ann = ann
    r1 = r1
    r2 = r2
    Moderators = {m1, m2}
    Item = {1, 2, 3, 4, 5}
    KindOf <- MCKindOf
    Start = {{1}, {2}, {4}, {5}}
    Apps <- MCApps
    MaxVer = 2
    MaxDone = 2
    MaxFaults = 0
    Reporter = {r1, r2}
    Object = {order, review}
    User = {ann}
    TargetOf <- MCTargetOf
    AuthorOf <- MCAuthorOf
    Concerned <- MCConcerned
    MaxCalls = 2
    MaxFailed = 0
    NoObject = NoObject
    Row = {1, 2}
    Status = {"open", "closed"}
    FILTERS = {{}, {"open"}}
    PAGE_SIZE = 1
    Missing = Missing
    MaxRequests = 2
    MaxAltered = 1
    MaxMisses = 1
SPECIFICATION Spec
CHECK_DEADLOCK FALSE
INVARIANTS
    ToldAsDecided

CONSTANTS
    a = a
    b = b
    s1 = s1
    s2 = s2
    s3 = s3
    v1 = v1
    v2 = v2
    Sub = {s1, s2}
    Creator = {a, b}
    CreatorOf <- TwoCreators
    Video = {v1, v2}
    NoVideo = NoVideo
    Offers <- ByThreshold
    NoTerms = NoTerms
    Budgets = {10, 20}
    Rates = {4}
    ViewCounts = {1000, 2000}
    FeePercent = 20
    MaxInReview = 2
    MaxVersion = 3
    MaxStale = 1

SPECIFICATION Spec
SYMMETRY Videos
CHECK_DEADLOCK FALSE

INVARIANTS ShownOfferVetted

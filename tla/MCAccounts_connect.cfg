\* Two creators, two accounts of one platform that shows all videos, room for one
\* account each; two requests at once; two logins.
CONSTANTS
    ann = ann
    bob = bob
    ea = ea
    eb = eb
    va = va
    vb = vb
    vk = vk
    tiktok = tiktok
    r1 = r1
    r2 = r2
    User = {ann, bob}
    Ext = {ea, eb}
    Platform = {vk}
    PlatformOf <- OnOne
    OwnerKnown = {vk}
    Video = {va, vb}
    PostedBy <- Posts
    CreatorOf <- ByAnn
    None = None
    Req = {r1, r2}
    MAX_PER_PLATFORM = 1
    MaxCodes = 4
    MaxTokens = 3
    MaxCounts = 2
SPECIFICATION Spec
SYMMETRY RequestsAlike
CHECK_DEADLOCK FALSE
INVARIANTS
    ConnectedAsAgreed
    OverLimitOnlyBeside
PROPERTIES
    GoodLostOnlyToStale

\* The comment on accessToken: two refreshes at once. Refuted.
CONSTANTS
    ann = ann
    bob = bob
    ea = ea
    eb = eb
    va = va
    vb = vb
    vk = vk
    tiktok = tiktok
    r1 = r1
    r2 = r2
    User = {ann, bob}
    Ext = {ea, eb}
    Platform = {vk}
    PlatformOf <- OnOne
    OwnerKnown = {vk}
    Video = {va, vb}
    PostedBy <- Posts
    CreatorOf <- ByAnn
    None = None
    Req = {r1, r2}
    MAX_PER_PLATFORM = 1
    MaxCodes = 4
    MaxTokens = 3
    MaxCounts = 2
SPECIFICATION Spec
SYMMETRY RequestsAlike
CHECK_DEADLOCK FALSE
PROPERTIES
    GoodKept

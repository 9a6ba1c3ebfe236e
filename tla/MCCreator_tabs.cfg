\* One order to a page, one change of the catalogue, three requests for a page, one
\* failure; two submissions, three events around them, three pages opened;
\* three things done by hand in the profile; two requests to withdraw.
CONSTANTS
    food = food
    games = games
    tiktok = tiktok
    vk = vk
    Order = {1, 2, 3}
    Category = {food, games}
    VideoPlatform = {tiktok, vk}
    CategoryOf <- MCCategoryOf
    PlatformsOf <- MCPlatformsOf
    PAGE_SIZE = 1
    All = All
    MaxChanges = 1
    MaxLoads = 3
    MaxFaults = 1
    Pool = 3
    minViews = 1
    Views = {1, 3}
    MAX_IN_REVIEW = 1
    None = None
    MaxRows = 2
    MaxEvents = 3
    MaxVisits = 3
    Client = {"web", "mini"}
    MAX_LINKS = 2
    MAX_SOCIAL_LINKS = 2
    Links = {"Tube", "tok", "site"}
    Wallets = {"none", "w2", "bad"}
    StartLinks <- MCStartLinks
    MaxHand = 3
    MaxLost = 1
    Sub = {1, 2}
    Earns <- MCEarns
    CENTS = 2
    MIN_PAYOUT = 1
    MaxPayouts = 2
    MaxMoves = 2
    MaxSlips = 1
SPECIFICATION Spec
CHECK_DEADLOCK FALSE
INVARIANTS
    OneFilter
    NothingSkipped
    AgreedAsShown
    QuietShowsStored
    OffersWhatIsLeft

\* Three orders, two forms; two ticks past the first deadline, two events around
\* the card and two requests of it; one decision, two ratings; one answer lost.
CONSTANTS
    Client = {"web", "mini"}
    MIN_EXAMPLES = 2
    MAX_EXAMPLES = 3
    MIN_BUDGET = 3
    MAX_BUDGET = 4
    MAX_VIEWS = 3
    MAX_DURATION = 3
    MAX_ACTIVE_ORDERS = 1
    Videos <- MCVideos
    Numbers = {0, 1, 4}
    MaxOrders = 3
    MaxForms = 2
    MaxTyped = 1
    MaxMoves = 1
    MaxFaults = 1
    Creator = {ann, bob}
    None = None
    DAY = 2
    Days = {1}
    MaxTime = 2
    MaxSlots = 2
    MaxEvents = 2
    MaxPresses = 2
    Video = {1, 2}
    PayoutOf <- MCPayoutOf
    budget = 53
    fee = 20
    Stars = {4, 5}
    FEW = 1
    MaxDecisions = 1
    MaxSent = 2
    MaxLost = 1
SPECIFICATION Spec
SYMMETRY Alike
CHECK_DEADLOCK FALSE
INVARIANTS
    SavedAsShown
    RoundTrip
    TwiceOnlyAfterLoss
    ToldWhatBecame
    ReminderTrue
    RatingsTrue
    ReportConsistent

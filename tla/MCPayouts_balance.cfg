CONSTANTS
    s1 = s1
    s2 = s2
    Sub = {s1, s2}
    Earns <- TwoVideos
    Payout = {p1, p2, p3}
    Amounts = {1, 2}
    Request = {r1, r2}
    NoCall = NoCall

SPECIFICATION PayoutsSpec
CHECK_DEADLOCK FALSE
INVARIANTS
    OverdrawnOnlyInWindow
PROPERTIES
    RequestAnswered

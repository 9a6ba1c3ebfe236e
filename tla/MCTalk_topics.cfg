\* Two users, two messages at once and in all, two groups in turn with two
\* topics each; one message a minute from a user and one to the group.
CONSTANTS
    User = {u1, u2}
    None = None
    Req = {r1, r2}
    USER_PER_MINUTE = 1
    USER_PER_HOUR = 2
    GROUP_PER_MINUTE = 1
    MaxGroup = 2
    MaxThread = 2
    MaxMessages = 2
SPECIFICATION Spec
SYMMETRY RequestsAlike
CHECK_DEADLOCK FALSE
INVARIANTS
    AnswersReach

\* Two messages of one user, the second with a row read before the first wrote its
\* topic.  QuestionsOpen in place of QuestionsAnswerable: a message between the two
\* steps of /close.  Refuted.
CONSTANTS
    User = {u1, u2}
    None = None
    Req = {r1, r2}
    USER_PER_MINUTE = 1
    USER_PER_HOUR = 2
    GROUP_PER_MINUTE = 1
    MaxGroup = 2
    MaxThread = 2
    MaxMessages = 2
SPECIFICATION Spec
SYMMETRY RequestsAlike
CHECK_DEADLOCK FALSE
INVARIANTS
    QuestionsAnswerable

CONSTANTS
    ann = ann
    ben = ben
    s1 = s1
    s2 = s2
    s3 = s3
    User = {ann, ben}
    Order = {1, 2}
    Sub = {s1, s2, s3}
    OwnerOf <- MCOwnerOf
    OrderOf <- MCOrderOf
    CreatorOf <- MCCreatorOf
    Tx = {t1, t2}
    StartOrder = {"NEW", "OPEN", "PENDING_MODERATION", "EDIT_REJECTED"}
    StartSub = {"NONE", "IN_PROGRESS", "SUBMITTED"}
    MaxCalls = 2
SPECIFICATION Spec
CHECK_DEADLOCK FALSE
INVARIANTS
    BannedLeavesNothing
    DeadlockNeedsBan

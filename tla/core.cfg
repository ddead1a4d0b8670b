SPECIFICATION Spec
CONSTANTS
    Ticks <- SmallTicks
    MaxMsgs = 3
    MaxLate = 1
    Unset = Unset
    Retires = Unset
    RequestKinds = {"MESSAGE", "OTHER"}
    Statuses = {"1xx", "2xx", "3xx", "4xx", "other"}
    ShortCodeActions = {"REPLY", "INTERNAL_ERROR", "QUIT_SMQUEUE", "DONE", "AWAIT_REGISTER", "REGISTER", "RESTART_PROCESSING"}
    FreshTags = TRUE
    SerialResponses = FALSE
CHECK_DEADLOCK FALSE
INVARIANTS TypeOK ListComplete SendsWithinLimit DroppedAfterAllSends
PROPERTIES LeavesWhenDone ResendSpaced OrderKept

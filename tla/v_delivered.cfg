SPECIFICATION Spec
CONSTANTS
    Ticks <- SmallTicks
    MaxMsgs = 3
    MaxLate = 1
    Unset = Unset
    Retires = Unset
    RequestKinds = {"MESSAGE"}
    Statuses = {"2xx"}
    ShortCodeActions = {}
    FreshTags = TRUE
    SerialResponses = FALSE
CHECK_DEADLOCK FALSE
INVARIANTS DeliveredIsGone

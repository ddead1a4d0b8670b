SPECIFICATION Spec
CONSTANTS
    Ticks <- CoarseTicks
    MaxMsgs = 4
    MaxLate = 0
    Unset = Unset
    Retires = Unset
    RequestKinds = {"MESSAGE"}
    Statuses = {"2xx", "3xx", "4xx"}
    ShortCodeActions = {}
    FreshTags = TRUE
    SerialResponses = TRUE
CHECK_DEADLOCK FALSE
INVARIANTS DeliveredIsGone
PROPERTIES Forwards

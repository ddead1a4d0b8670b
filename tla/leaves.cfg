SPECIFICATION FairSpec
CONSTANTS
    Ticks <- CoarseTicks
    MaxMsgs = 3
    MaxLate = 0
    Unset = Unset
    Retires = 1
    RequestKinds = {"MESSAGE"}
    Statuses = {"1xx", "2xx", "4xx", "6xx"}
    ShortCodeActions = {"RETRY_AFTER_DELAY", "REGISTER"}
    FreshTags = TRUE
    SerialResponses = TRUE
CHECK_DEADLOCK FALSE
PROPERTIES EveryMessageLeaves RegistrationGoesOn

SPECIFICATION RestartSpec
CONSTANTS
    Ticks <- CoarseTicks
    MaxMsgs = 2
    MaxLate = 0
    Unset = Unset
    Retires = Unset
    RequestKinds = {"MESSAGE"}
    Statuses = {"2xx"}
    ShortCodeActions = {"QUIT_SMQUEUE"}
    FreshTags = TRUE
    SerialResponses = TRUE
    MaxStarts = 2
    TimesFit = FALSE
CHECK_DEADLOCK FALSE
PROPERTIES StartsServing

SPECIFICATION PersistenceSpec
CONSTANTS
    Ticks <- CoarseTicks
    MaxMsgs = 2
    MaxLate = 0
    Unset = Unset
    Retires = Unset
    RequestKinds = {"MESSAGE"}
    Statuses = {"2xx"}
    ShortCodeActions = {"QUIT_SMQUEUE"}
    FreshTags = TRUE
    SerialResponses = TRUE
    MaxStarts = 2
    TimesFit = TRUE
    Users = {u1, u2}
    Addresses = {"local", "remote"}
    Local = "local"
    Absent = Absent
    u1 = u1
    u2 = u2
    MaxRows = 3
CHECK_DEADLOCK FALSE
INVARIANTS ReloadedInOrder
PROPERTIES SurvivesRestart StartsServing SyncKeepsAddresses SyncCatchesUp

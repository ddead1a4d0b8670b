SPECIFICATION ShortMsgSpec
CONSTANTS
    Text = Text
    Empty = Empty
    Garbled = Garbled
    NoForm = NoForm
    NoTPDU = NoTPDU
    MaxRounds = 3
CHECK_DEADLOCK FALSE
PROPERTIES SavedSurvives

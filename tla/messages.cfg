SPECIFICATION MessagesSpec
CONSTANTS
    Text = Text
    Empty = Empty
    Garbled = Garbled
    NoForm = NoForm
    NoTPDU = NoTPDU
    MaxRounds = 3
    Messages <- SomeMessages
    Failed = Failed
    NoFrame = NoFrame
    Unread = Unread
    Arrivals <- SomeArrivals
    RelayContents = {"VND_3GPP_SMS"}
    Randoms = {1, 5}
    MaxMessages = 2
    MaxCallIds = 3
    MaxRegisters = 2
CHECK_DEADLOCK FALSE
INVARIANTS TextArrives RelayGetsItsType BounceQuotesText SubmitIsParsed DeliverArrives ValidStaysValid AnswerFindsItsMessage
PROPERTIES SentIsLatest

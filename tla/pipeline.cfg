SPECIFICATION PipelineSpec
CONSTANTS
    MaxReceived = 3
    MainTurns = 1
    Kinds = {"good", "rejected", "untagged", "unparsable"}
    Passive <- BothFamilies
    Hosts <- SomeHosts
    Datagrams = {"message", "long", "empty", "error"}
    MaxPending = 2
INVARIANTS InOrder SentOnceOrTold
PROPERTIES ShutsDown ReceivedIsHandled EverySocketHeard

SPECIFICATION LibSpec
CONSTANTS
    Keys = {k1, k2}
    k1 = k1
    k2 = k2
    v1 = v1
    v2 = v2
    Schema = {k1}
    Static = {k1}
    Values = {v1, v2}
    Valid = {v1, v2}
    Default <- DefaultValues
    NoRecord = NoRecord
    Undefined = Undefined
    Period = 2
    KeySamples <- SomeKeys
    ValueSamples <- SomeValues
    Words = {"a", "b"}
    Wide = TRUE
    Unread = Unread
    MaxBits = 9
    MaxField = 4
    Generators <- SomeGenerators
    Maps <- SomeMaps
    Vecs = {"u", "v", "w"}
    MaxSize = 2
    MaxBlocks = 3
    Null = Null
    Gone = Gone
INVARIANTS StaleIsYoung CacheAgrees DirtyTells AcceptsAsDescribed VectorsReadBack OneOwner
CHECK_DEADLOCK FALSE

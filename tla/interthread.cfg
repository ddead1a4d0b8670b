SPECIFICATION MCSpec
CONSTANTS
    r1 = r1
    r2 = r2
    r3 = r3
    w = w
    NoThread = NoThread
    NoHolder = NoThread
    Mutexes <- SmallMutexes
    Args <- SmallArgs
    Owned <- SmallOwned
    Threads = {r1, r2, r3, w}
    Holders = {r2, r3, w}
    Kinds = {"queue", "either", "withWait", "map", "priority", "semaphore"}
    Does <- SmallDoes
    Lows = {0, 1}
    MaxWrites = 3
CHECK_DEADLOCK FALSE
INVARIANTS NoLostWakeup NoCircularWait
PROPERTIES ReaderWakes FallIsTold TimedReadReturns

SPECIFICATION LiveSpec
CONSTANTS
    k1 = k1
    k2 = k2
    w1 = w1
    w2 = w2
    EventThread = et
    Keys = {k1}
    Workers = {w1}
    Route <- OneKeyOneWorker
    Deleters = {}
    Readers = {k1}
    Faults = {}
    FiniteTimeout = TRUE
    MaxOpens = 1
    MaxMessages = 1
PROPERTY ExpiredSessionDisposed
CHECK_DEADLOCK FALSE

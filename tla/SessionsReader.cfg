SPECIFICATION LiveSpec
CONSTANTS
    k1 = k1
    k2 = k2
    w1 = w1
    w2 = w2
    EventThread = et
    Keys = {k1}
    Workers = {w1}
    Route <- OneKeyOneWorker
    Deleters = {k1}
    Readers = {k1}
    Faults = {}
    FiniteTimeout = FALSE
    MaxOpens = 2
    MaxMessages = 4
PROPERTY ResettingIsTransient
PROPERTY DeleteAnswered
CHECK_DEADLOCK FALSE

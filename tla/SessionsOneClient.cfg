SPECIFICATION LiveSpec
CONSTANTS
    k1 = k1
    k2 = k2
    w1 = w1
    w2 = w2
    EventThread = et
    Keys = {k1}
    Workers = {w1, w2}
    Route <- OneKeyTwoWorkers
    Deleters = {k1}
    Readers = {}
    Faults = {}
    FiniteTimeout = TRUE
    MaxOpens = 2
    MaxMessages = 3
INVARIANT HeartbeatPending
PROPERTY SilentSessionEnds
PROPERTY DeleteAnswered
CHECK_DEADLOCK FALSE

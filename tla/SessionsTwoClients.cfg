SPECIFICATION Spec
CONSTANTS
    k1 = k1
    k2 = k2
    w1 = w1
    w2 = w2
    EventThread = et
    Keys = {k1, k2}
    Workers = {w1, w2}
    Route <- EachItsOwn
    Deleters = {k1, k2}
    Readers = {k1}
    Faults = {"send", "message"}
    FiniteTimeout = TRUE
    MaxOpens = 1
    MaxMessages = 2
INVARIANT CloserOwnsSession
INVARIANT SessionHasClient
INVARIANT DeletedHasCloser
INVARIANT TypeOK
INVARIANT CancelHandshake
INVARIANT WaiterOwnsSession
INVARIANT DisposedHasNoLoans
INVARIANT ClientHasOwner
PROPERTY ClientLife
CHECK_DEADLOCK FALSE

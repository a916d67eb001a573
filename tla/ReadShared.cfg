SPECIFICATION Spec
CONSTANTS
    s1 = s1
    s2 = s2
    Sessions = {s1, s2}
    Streams = {rel}
    Reliable = {rel}
    Unknown = unknown
    Limits = {0, 1}
    Timed = {}
    StartPoint = "LAST_FORWARDED"
    Faults = {"send", "message"}
    MaxSn = 3
    MaxReads = 2
INVARIANT TypeOK
INVARIANT NoSampleLost
INVARIANT RequestsAllocated
INVARIANT LoansForwarded
PROPERTY DeliveredInOrder
SYMMETRY EitherSession
CHECK_DEADLOCK FALSE

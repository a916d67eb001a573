SPECIFICATION LiveSpec
CONSTANTS
    s1 = s1
    s2 = s2
    Sessions = {s1, s2}
    Streams = {be}
    Reliable = {}
    Unknown = unknown
    Limits = {0}
    Timed = {s1}
    StartPoint = "FIRST_CACHED"
    Faults = {}
    MaxSn = 2
    MaxReads = 2
INVARIANT SampleNoticed
PROPERTY SampleForwarded
PROPERTY CompleteReadEnds
CHECK_DEADLOCK FALSE

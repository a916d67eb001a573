SPECIFICATION Spec
CONSTANTS
    udp = udp
    serial = serial
    u1 = u1
    s1 = s1
    Threads = {udp, serial}
    Locators = {u1, s1}
    Home <- OneAndOne
    Keys = {k1, k2}
    None = none
    AutoMapping = TRUE
    Faults = {"init", "thread", "buffer", "wakeup", "send"}
    Transports <- UdpFirst
    Serial = {serial}
    Polling = {serial}
    MaxFailures = 1
SYMMETRY KeySymmetry
INVARIANT TypeOK
INVARIANT UniqueLocator
INVARIANT RoutesToLatest
INVARIANT JoinedThreadEnded
CHECK_DEADLOCK FALSE

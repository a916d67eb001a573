SPECIFICATION LiveSpec
CONSTANTS
    udp = udp
    serial = serial
    u1 = u1
    s1 = s1
    Threads = {udp, serial}
    Locators = {u1, s1}
    Home <- OneAndOne
    Keys = {k1}
    None = none
    AutoMapping = FALSE
    Faults = {}
    Transports <- UdpFirst
    Serial = {serial}
    Polling = {serial}
    MaxFailures = 0
PROPERTY MessageHandled
CHECK_DEADLOCK FALSE

SPECIFICATION Spec
CONSTANTS
    Resource <- Names
    Kind <- KindOf
    Parent <- ParentOf
    TopicOf <- WithTopic
    Session = {s1}
    Buffer = {b1, b2, b3}
    Id <- Names
    IdKind <- KindOf
    AutoAttach = FALSE
    AutoId <- OwnId
    Loaded = {}
    None = None
    MaxFailures = 0
    MaxGiven = 4
INVARIANT EntryAttached
CHECK_DEADLOCK FALSE

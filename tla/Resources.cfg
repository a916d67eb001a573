SPECIFICATION Spec
CONSTANTS
    Resource <- Names
    Kind <- KindOf
    Parent <- ParentOf
    TopicOf <- WithTopic
    Session = {s1, s2}
    Buffer = {b1, b2, b3}
    Id <- Names
    IdKind <- KindOf
    AutoAttach = TRUE
    AutoId <- OwnId
    Loaded = {"p", "b"}
    None = None
    MaxFailures = 1
    MaxGiven = 4
INVARIANT TypeOK
INVARIANT AttachmentCounted
INVARIANT PendingDeleted
INVARIANT WriteReaches
PROPERTY DeletedOnRequest
CHECK_DEADLOCK FALSE
SYMMETRY Symmetry

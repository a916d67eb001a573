SPECIFICATION LiveSpec
CONSTANTS
    Requests = {r1, r2}
    None = None
    Faults = {"send", "alloc", "reader"}
INVARIANT ReplyHasBuffer
INVARIANT PoolSound
INVARIANT OnlyReadsLeak
INVARIANT AnswersTrue
PROPERTY ReliableAnswered

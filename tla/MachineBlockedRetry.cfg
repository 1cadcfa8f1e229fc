CONSTANTS
    WordBits = 6
    ByteBits = 2
    PcBits = 4
    IndexBits = 2
    Programs <- MCBlockedPrograms
    Messages <- MCMessages
    TimeBounds <- MCTimeBounds
    StepCounts = {1, 4}
    MaxMessages = 2
    MaxStack = 4

SPECIFICATION Spec

PROPERTIES
    BlockedRetryIsIdempotent

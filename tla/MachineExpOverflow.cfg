CONSTANTS
    WordBits = 6
    ByteBits = 2
    PcBits = 4
    IndexBits = 2
    Programs <- MCExpPrograms
    Messages <- MCMessages
    TimeBounds <- MCTimeBounds
    StepCounts = {1, 4}
    MaxMessages = 2
    MaxStack = 4

SPECIFICATION Spec

INVARIANTS
    TokensConserved

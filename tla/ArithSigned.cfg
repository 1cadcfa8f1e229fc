CONSTANTS
    WordBits = 6
    ByteBits = 2
    PcBits = 4
    Ops = {"SDIV", "SMOD", "SLT", "SGT"}

SPECIFICATION Spec
CHECK_DEADLOCK FALSE

INVARIANTS
    SignedOpsMatchReference

CONSTANTS
    WordBits = 6
    ByteBits = 2
    PcBits = 4
    Ops = {"BYTE", "SIGNEXTEND"}

SPECIFICATION Spec
CHECK_DEADLOCK FALSE

INVARIANTS
    OperandOrderMatchesSpec

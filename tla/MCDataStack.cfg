CONSTANTS
    Values = {a, b}
    MaxDepth = 4
    HashOf <- MCHashOf
    EmptyTupleHash <- MCEmptyTupleHash

SPECIFICATION Spec

INVARIANTS
    TypeOK
    HashCacheConsistent
    QueryResultsCorrect

PROPERTIES
    RefinesAbstractStack

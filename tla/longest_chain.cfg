SPECIFICATION Spec
CONSTANT MaxBlocks = 5
INVARIANTS
    TypeOK
    ReturnsDeepest
    SomeChainLives
PROPERTY Terminates
CHECK_DEADLOCK FALSE

SPECIFICATION Spec
CONSTANTS
    h1 = h1
    h2 = h2
    Handler <- MCHandler
INVARIANTS
    TypeOK
    ExitStatusTells
    NothingLeftOpen
PROPERTY Ends
CHECK_DEADLOCK FALSE

CONSTANTS
    c1 = c1
    c2 = c2
    c3 = c3
    Closer = closer
    Clients <- ThreeClients
    Limits <- SeveralLimits
SPECIFICATION Spec
INVARIANTS TypeOK Exclusive Accounting WaitersExpected
PROPERTY QueriesEnd
CHECK_DEADLOCK FALSE

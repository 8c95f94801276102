CONSTANTS
    c1 = c1
    c2 = c2
    c3 = c3
    Closer = closer
    Clients <- TwoClients
    Limits <- FromNothing
SPECIFICATION FailSpec
INVARIANT BorrowInRange
CHECK_DEADLOCK FALSE

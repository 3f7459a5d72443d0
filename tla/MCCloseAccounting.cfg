SPECIFICATION Spec
CONSTANTS
    loop = loop
    dashboard = dashboard
    Callers <- MCCallers
    UserCallers <- MCUserCallers
    MaxMishaps = 2
INVARIANTS TypeOK OpenTradeIsKept BookedOnce RowOrClose
CHECK_DEADLOCK FALSE

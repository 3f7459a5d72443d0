SPECIFICATION Spec
CONSTANTS
    loop = loop
    dashboard = dashboard
    Callers <- MCCallers
    UserCallers <- MCUserCallers
    MaxMishaps = 0
PROPERTY VerifiedCloseIsBooked
CHECK_DEADLOCK FALSE

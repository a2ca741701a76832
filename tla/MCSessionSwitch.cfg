CONSTANTS
    c1 = c1
    c2 = c2
    Clients <- MCClients
    MaxPrompts = 2
    MaxSessions = 2
    MaxAsks = 2
    Switching = TRUE
    Racing = TRUE
SPECIFICATION Spec
INVARIANT TurnOwnsSession
CHECK_DEADLOCK FALSE

CONSTANTS
    c1 = c1
    c2 = c2
    Clients <- MCClients
    MaxPrompts = 2
    MaxSessions = 3
    MaxAsks = 1
    Switching = TRUE
    Racing = FALSE
SPECIFICATION Spec
INVARIANTS
    TypeOK
    IdleIsIdle
    TurnOwnsSession
    TurnsAreStored
    ScopesOfThisSession
PROPERTIES
    ClosedRunsAreQuiet
    BusyEnds
CHECK_DEADLOCK FALSE

CONSTANTS
    Server = server
    Client = client
    Device = {server, client}
    MaxScore = 1
    MaxPresses = 2
    MaxLosses = 1
SPECIFICATION MCSpec
CHECK_DEADLOCK FALSE
INVARIANTS
    ScoresReachOpponent
PROPERTIES
    ImplementsGame
    ImplementsSession

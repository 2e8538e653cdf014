CONSTANTS
    Server = server
    Client = client
    Device = {server, client}
    MaxScore = 1
    MaxCalls = 1
    MaxLosses = 0
SPECIFICATION MCSpec
CHECK_DEADLOCK FALSE
INVARIANTS
    NoFault

CONSTANTS
    Server = server
    Client = client
    Device = {server, client}
    MaxScore = 1
    MaxCalls = 3
    MaxLosses = 0
SPECIFICATION FairMCSpec
CHECK_DEADLOCK FALSE
PROPERTIES
    SendsGetThrough

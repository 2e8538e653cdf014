CONSTANTS
    Server = server
    Client = client
    Device = {server, client}
    MaxScore = 1
    MaxCalls = 3
    MaxLosses = 1
SPECIFICATION FairMCSpec
CHECK_DEADLOCK FALSE
INVARIANTS
    SessionTypeOK
    BusyIsBacked
    QuietMeansAgreed
    ChainIsRead
PROPERTIES
    SessionForms

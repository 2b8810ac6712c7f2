SPECIFICATION FairSpec
CONSTANTS
    Clients = {c1, c2}
    NoClient = NoClient
    MaxOut = 2
    MaxControl = 1
    MaxInput = 1
    MaxRequests = 1
CHECK_DEADLOCK FALSE
PROPERTIES
    DisconnectReleasesControl

CONSTANTS
    j1 = j1
    j2 = j2
    inbox = inbox
    tool = tool
    Jobs = {j1}
    Required = {j1}
    Clients = {tool}
    Inbox = inbox
    MaxActive = 1
    MaxReceipts = 1
    MaxFaults = 2
    MaxRequests = 3
SPECIFICATION FairSpec
INVARIANTS ResultKept OverIsOver
PROPERTIES CommandStops WaitReturns DeliveryWaits
CHECK_DEADLOCK FALSE

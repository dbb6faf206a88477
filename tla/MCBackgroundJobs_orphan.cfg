CONSTANTS
    j1 = j1
    j2 = j2
    inbox = inbox
    tool = tool
    Jobs = {j1}
    Required = {j1}
    Clients = {tool}
    Inbox = inbox
    MaxActive = 1
    MaxReceipts = 1
    MaxFaults = 1
    MaxRequests = 2
SPECIFICATION Spec
INVARIANTS NothingOutlivesItsWorker
CHECK_DEADLOCK FALSE

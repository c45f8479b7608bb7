CONSTANTS
    c1 = c1
    Callers = {c1}
    Used <- ListServices
    Slots = 1
    MaxCalls = 1
    MaxRequests = 2
    MaxConnects = 1
SPECIFICATION FairSpec
PROPERTIES CallReturns OwnerReturns
CHECK_DEADLOCK FALSE

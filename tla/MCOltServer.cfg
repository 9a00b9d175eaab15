SPECIFICATION MCSpec
CONSTANTS
    MaxEnable = 2
    MaxEpoch = 2
    MaxCall = 1
    Devices = {d1, d2}
    Capacity = 1
    MaxEvents = 2
    Clients = {c1, c2}
INVARIANTS
    
    
    PublishedInOrder
    Settles
PROPERTIES
    EnableIndicates
    RebootCompletes
CHECK_DEADLOCK FALSE

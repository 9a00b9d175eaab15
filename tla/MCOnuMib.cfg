SPECIFICATION MCSpec
CONSTANTS
    o1 = o1
    o2 = o2
    Onu <- MCOnu
    Gem = {"g1"}
    Entity = {"t1"}
    Alloc = {"a1"}
    NoOnu = NoOnu
    NoAlloc = NoAlloc
    maxOmciMsgCounter = 3
    OmciResponseRate = 2
    Modulus = 3
    MaxAdded = 1
    MaxInvalid = 1
    Unis = {0, 1, 2, 3, 4}
    Pots = {0, 1, 2}
    UnknownAttributes = {TRUE, FALSE}
    UnknownMe = {TRUE, FALSE}
SYMMETRY MCSymmetry
INVARIANTS
    GemPortsUnique
    TablesExact
    
    
    UploadComplete

SPECIFICATION MCSpec
CONSTANTS
    Catalog <- MCCatalog
    GroupsUsed <- MCGroups
    Vlans = {0, 7}
    MaxEnables = 2
    MaxStimuli = 5
    Inputs <- MCInputs
    SmallByte = 4
    Parts = {"packets", "provisioning"}
INVARIANTS
    
    
    Leased
    
    ViewsAgree
    PoolsSuffice
CHECK_DEADLOCK FALSE

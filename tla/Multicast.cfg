SPECIFICATION MCSpec
CONSTANTS
    Catalog <- MCCatalog
    GroupsUsed <- MCGroups
    Vlans = {0, 7}
    MaxEnables = 2
    MaxStimuli = 5
    Inputs <- MCInputs
    SmallByte = 4
    Parts = {"packets"}
INVARIANT MulticastToMembers
CHECK_DEADLOCK FALSE

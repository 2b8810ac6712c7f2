SPECIFICATION FairSpec
CONSTANTS
    MaxOps = 3
    MaxSaves = 2
    MaxFaults = 1
CHECK_DEADLOCK FALSE
INVARIANTS
    SecretsFollowRows
    SidebarOwed
PROPERTIES
    SidebarSettles

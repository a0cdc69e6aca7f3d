SPECIFICATION FairSpec
CONSTANTS
    p1 = p1
    p2 = p2
    None = None
    Process <- OldAndNew
    Id <- Ids
    MaxFaults = 1
CHECK_DEADLOCK FALSE
 
PROPERTIES SelfHeals

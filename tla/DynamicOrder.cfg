CONSTANTS
    NumRegs = 3
    Values = 2
    MulSteps = 2
    Configs <- MCConfigs
SPECIFICATION FairSpec
INVARIANTS
    RobConsistent
PROPERTIES
    RetiresInOrder
    Progress

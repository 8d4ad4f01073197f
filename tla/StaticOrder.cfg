CONSTANTS
    NumRegs = 3
    Values = 2
    NumPcs = 3
    Vector = 0
    MulSteps = 2
    BusWait = 1
    Configs <- MCConfigs
SPECIFICATION Spec
INVARIANTS
    PipeInOrder
    StallsEnd
PROPERTIES
    OperandsForwarded
    StoresInOrder
    

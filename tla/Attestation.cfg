CONSTANTS
    Enclaves = {"u", "h", "s"}
    TrapData <- MCTrapData
    Identity <- MCIdentity
    Ports = {"proteus", "morello"}
    LoadOrder <- MCLoadOrder
    MaxTraps = 2
    WindowTraps = FALSE
    MainCalls = {"u"}
    HandlerCalls = {"h"}
    Nonces = {1, 2}
    StackSlots = 4
    MaxUses = 2
SPECIFICATION FairSpec
INVARIANTS
    
    ResultIsReading
    
PROPERTIES
    
    InvocationsReturn
CHECK_DEADLOCK FALSE

CONSTANTS
    NumEntries = 3
    NumIds = 4
    IdValues = 16
    NumTags = 1
    Digest <- MCDigest
    None = None
    Otypes = 24
    s1 = s1
    s2 = s2
    Section = {s1, s2}
    Base <- MCBase
    Length <- MCLength
    Data <- MCData
    Space = 32
    NumRegs = 2
    NumScrs = 1
    Operands <- AnyOperands
    Views <- NoView
    Untagged = {2, 10, 23}
    Asked = {0, 2, 5, 6, 7, 10}
    Buffers <- MCBuffers
    HashWords = 2
    Interrupts = TRUE
    Nop = Nop
SPECIFICATION Spec
INVARIANTS
    StoreConsistent
    Measured
    
PROPERTIES
    RefinesTCB

CONSTANTS
    NumEntries = 2
    NumIds = 3
    IdValues = 12
    NumTags = 3
    Digest <- MCDigest
    None = None
    Otypes = 16
    s1 = s1
    s2 = s2
    Section = {s1, s2}
    Base <- MCBase
    Length <- MCLength
    Data <- MCData
    Space = 32
    NumRegs = 4
    NumScrs = 2
    Operands <- TwoOperands
    Views <- SparseViews
    Untagged = {15}
    Asked = {2, 7}
    Buffers <- MCBuffers
    HashWords = 2
    Interrupts = FALSE
    Nop = Nop
SPECIFICATION Spec
INVARIANTS
    SweepSound
    
PROPERTIES
    EInitCodeFailsWhenFull
    Terminates

CONSTANTS
    NumEntries = 1
    NumIds = 3
    IdValues = 8
    NumTags = 3
    Digest <- MCDigest
    None = None
    Otypes = 16
    s1 = s1
    s2 = s2
    Section = {s1, s2}
    Base <- MCBase
    Length <- MCLength
    Data <- MCData
    Space = 32
    NumRegs = 2
    NumScrs = 1
    Operands <- AnyOperands
    Views <- DenseViews
    Untagged = {15}
    Asked = {}
    Buffers <- MCBuffers
    HashWords = 2
    Interrupts = FALSE
    Nop = Nop
SPECIFICATION Spec
INVARIANTS
    SweepSound

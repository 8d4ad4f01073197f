CONSTANTS
    TableSize = 1
    OtypeWidth = 4
    Reserved = 8
    ZeroHash = ZeroHash
    None = None
    Hash <- MCHash
    Reg = {c1, c2}
    C31 = c2
    Scr = {}
    Granules = 2
    Word = {w1, w2}
    HashWord = w1
    PermSets <- MCPermSets
    BootCaps <- WholeExecutable
    Asked = {0, 2}
    HashSize = 1
    MinLength = 1
    Null = Null
    c1 = c1
    c2 = c2
    w1 = w1
    w2 = w2
SPECIFICATION Spec
INVARIANTS
    Measured
    KeyConfined
PROPERTIES
    RefinesTCB

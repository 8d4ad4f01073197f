CONSTANTS
    TableSize = 1
    OtypeWidth = 3
    Reserved = 4
    ZeroHash = ZeroHash
    None = None
    Hash <- MCHash
    Reg = {c1, c2}
    C31 = c2
    Scr = {"DDC"}
    Granules = 2
    Word = {w1}
    HashWord = w1
    PermSets <- MCPermSets
    BootCaps <- WholeData
    Asked = {0, 2}
    HashSize = 1
    MinLength = 1
    Null = Null
    c1 = c1
    c2 = c2
    w1 = w1
SPECIFICATION Spec
INVARIANTS
    Exclusive

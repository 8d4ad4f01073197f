CONSTANTS
    MAX_ENTRIES = 2
    numEnclaveIds = 1
    Hash <- MCHash
    ZeroHash = ZeroHash
    Other = {"c2"}
    C29 = "c2"
    BootCaps <- TwoSections
    Scr = {"CELR_EL2"}
    Granules = 2
    Word = {w1}
    HashWord = w1
    HashSize = 1
    AddressSpace = 8
    PermSets <- OnePermSet
    Untagged <- MCUntagged
    Asked = {6}
    Null = Null
    w1 = w1
SPECIFICATION Spec
INVARIANTS
    StoreInOrder
    Exclusive
    Measured
    KeyConfined
PROPERTIES
    RefinesTCB

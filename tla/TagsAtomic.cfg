CONSTANTS
    CapWords = 3
    Granules = 3
    InMemory = {0, 1}
    Value = {0, 1}
    DataAddresses = {2, 3, 6}
    Caps <- MCCaps
    None = None
SPECIFICATION Spec
PROPERTIES
    RefinesAtomic
    Answered

SPECIFICATION Spec
CONSTANTS
    c1 = c1
    c2 = c2
    b1 = b1
    b2 = b2
    b3 = b3
    Clients = {c1, c2}
    Blocks = {b1, b2, b3}
    Sizes = {0, 1}
    BlockLimits = {2}
    ByteLimits = {}
    MaxRecency = 6
PROPERTIES
    GetRefreshesEntry

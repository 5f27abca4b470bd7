SPECIFICATION FairSpec
CONSTANTS
    w1 = w1
    r1 = r1
    Writers = {w1}
    Readers = {r1}
    Listers = {r1}
    Blocks = {1, 2}
    RowCount <- OneTwo
    TxMax = 2
    MaxAttempts = 2
INVARIANTS
    EnumerationOrdered
PROPERTIES
    CallsReturn
    ContractSpec

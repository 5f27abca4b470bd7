SPECIFICATION Spec
CONSTANTS
    w1 = w1
    w2 = w2
    r1 = r1
    Writers = {w1, w2}
    Readers = {r1}
    Listers = {}
    Blocks = {1}
    RowCount <- Three
    TxMax = 1
    MaxAttempts = 2
INVARIANTS
    TypeOK
    CommitPoint
    NoTornRead
PROPERTIES
    ContractSpec

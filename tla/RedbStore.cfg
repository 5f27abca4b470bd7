SPECIFICATION Spec
CONSTANTS
    Tasks = {t1, t2}
    Blocks = {b1, b2, b3}
    None = None
INVARIANTS
    TypeOK
    PromisesKept
    FlagCovers
    BatchAtomic
PROPERTIES
    NeverReplaced
    CallsReturn

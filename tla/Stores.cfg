SPECIFICATION Spec
CONSTANTS
    b1 = b1
    b2 = b2
    b3 = b3
    c1 = c1
    c2 = c2
    w1 = w1
    w2 = w2
    s1 = s1
SYMMETRY Symmetry
INVARIANTS
    CachesBounded
    CodecExact
    EnumerationSound
    Replicated
PROPERTIES
    EvictsLeastRecent
    NeverOverwritten
    ContractSpec

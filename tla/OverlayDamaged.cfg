SPECIFICATION OverlaySpec
CONSTANTS
    b1 = b1
    b2 = b2
    b3 = b3
    c1 = c1
    c2 = c2
    w1 = w1
    w2 = w2
    s1 = s1
INVARIANT ValidCopyFound
CHECK_DEADLOCK FALSE

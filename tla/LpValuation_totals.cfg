SPECIFICATION PartSpec
CONSTANTS
    None = None
    o1 = o1
    a1 = a1
    w1 = w1
    w2 = w2
    e1 = e1
    e2 = e2
    e3 = e3
    m1 = m1
    m2 = m2
    p1 = p1
    Parts = {"valuation"}
INVARIANT TotalsFollow
CHECK_DEADLOCK FALSE

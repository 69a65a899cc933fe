CONSTANTS
    s1 = s1
    s2 = s2
    r1 = r1
    r2 = r2
    i0 = i0
    i1 = i1
    i2 = i2
    i3 = i3
    m1 = m1
    m2 = m2
    m3 = m3
    m4 = m4
    Senders = {s1, s2}
    Receivers = {r1, r2}
    Worlds <- OnlyMixed
    Capacity = 3
    None = None
SPECIFICATION Spec
INVARIANTS
    NoLockCycle
CHECK_DEADLOCK FALSE

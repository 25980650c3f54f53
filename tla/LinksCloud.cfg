SPECIFICATION Spec
CONSTANTS
    Conns = {c1}
    Addr = {a}
    Patient = {c1}
    Cap = 1
    None = None
INVARIANT NoPanic
CHECK_DEADLOCK FALSE

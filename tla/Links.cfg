SPECIFICATION Spec
CONSTANTS
    Conns = {c1, c2}
    Addr = {a}
    Patient = {c1, c2}
    Cap = 1
    None = None
INVARIANTS
    WritesRegistered
PROPERTIES
    HandlersReturn
    ClosedForgotten
CHECK_DEADLOCK FALSE

SPECIFICATION Spec
CONSTANTS
    Conns = {c1, c2}
    Addr = {a}
    Patient = {c1}
    Cap = 1
    None = None
PROPERTY HandlersReturn
CHECK_DEADLOCK FALSE

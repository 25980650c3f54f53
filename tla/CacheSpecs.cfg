SPECIFICATION Spec
CONSTANTS
    Devs = {d1, d2}
    Prods = {p1}
    Home = home
    MaxVersion = 2
INVARIANTS
    SpecsFixed  \* in its place: AlwaysKnows, or NeverStaleAtAll
CHECK_DEADLOCK FALSE

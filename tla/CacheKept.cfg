SPECIFICATION Spec
CONSTANTS
    Devs = {d1, d2}
    Prods = {}
    Home = home
    MaxVersion = 2
INVARIANTS
    NeverStale
    StartsKnowing
CHECK_DEADLOCK FALSE

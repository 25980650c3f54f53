SPECIFICATION Spec
CONSTANTS
    c1 = c1
    c2 = c2
    c3 = c3
    a1 = a1
    a2 = a2
    Cloud = Cloud
    Mqtt = Mqtt
    None = None
    Conns <- ThreeConns
    Addr = {a1, a2}
    Methods = {"get_lib"}
    Local = {"local.status"}
    Ids = {100}
    Masks <- AllMasks
    MqttMasks <- AllMasks
    MaxCall = 1
    MaxMark = 6
    MaxKey = 1
    May = {"hangup", "sweep", "prevent", "answer", "rewrite", "replace"}
INVARIANTS
    ConnsServed
    Linked
SYMMETRY Symmetry
CHECK_DEADLOCK FALSE

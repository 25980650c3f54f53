SPECIFICATION Spec
CONSTANTS
    c1 = c1
    c2 = c2
    c3 = c3
    a1 = a1
    a2 = a2
    Cloud = Cloud
    Mqtt = Mqtt
    None = None
    Conns <- TwoConns
    Addr = {a1, a2}
    Methods = {"get_lib"}
    Local = {"local.status"}
    Ids = {1}
    Masks <- AllMasks
    MqttMasks = {{}}
    MaxCall = 2
    MaxMark = 6
    MaxKey = 2
    May = {}
INVARIANTS
    AllAnswersGoHome
SYMMETRY Symmetry
CHECK_DEADLOCK FALSE

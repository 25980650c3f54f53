SPECIFICATION Spec
CONSTANTS
    Ids = {1, 9}
    Addrs = {2, 32}
    MaxMark = 3
INVARIANT TypeOK
PROPERTIES
    CloakroomSpec
    MarksLeave

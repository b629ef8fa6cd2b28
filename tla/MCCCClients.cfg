SPECIFICATION Spec
CONSTANTS
    MaxClient = 2
    BufCap = 2
    Conn = {c1, c2, c3}
    NoSd = nosd
    HostName <- Hosts
    ModuleName <- Modules
    BadName = "Unknown"
    Invalid = "invalid"
    Script <- Scripts
INVARIANTS
    TypeOK
    OnePlace
    RouteIsLive
    RegisteredFirst
    AnswersInOrder
PROPERTIES
    HonestKept
SYMMETRY Symmetry

SPECIFICATION Spec
CONSTANTS
    MaxClient = 1
    BufCap = 2
    Conn = {c1, c2}
    NoSd = nosd
    HostName <- Hosts
    ModuleName <- Modules
    BadName = "Unknown"
    Invalid = "invalid"
    Script <- Scripts
INVARIANTS
    OwnIdentity

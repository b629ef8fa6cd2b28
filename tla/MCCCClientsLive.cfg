SPECIFICATION Spec
CONSTANTS
    MaxClient = 3
    BufCap = 2
    Conn = {c1, c2, c3}
    NoSd = nosd
    HostName <- Hosts
    ModuleName <- Modules
    BadName = "Unknown"
    Invalid = "invalid"
    Script <- ShortScript
PROPERTIES
    Served

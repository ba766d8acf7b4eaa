CONSTANTS
    Threads = {a, b}
    NoThread = NoThread
    Ports = {usb0, usb1}
    NoPort = NoPort
    FirstPort = usb0
    Settings = {baud}
    Values = {default, fast, refused}
    Default = default
    Supported = {default, fast}
    ReadSize = 2
    WriteSize = 2
    Timeout = 1
    Eols = {2}
    OutSize = 1
    MaxFiles = 2
    Programs = {{"set", "setPort"}, {"read", "readline", "setPort", "flushInput"}, {"read", "write", "setPort", "flush", "flushOutput"}}
    MaxIn = 2
    MaxCalls = 3
    MaxPlugs = 1
SPECIFICATION Spec
INVARIANT TypeOK ReadyHolds InForce
PROPERTY StreamsKept CallsReturn
CHECK_DEADLOCK FALSE

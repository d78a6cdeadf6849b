CONSTANTS
    PortModulus = 16
    Conn = {c1}
    Tables <- SomeTables
    Host <- SomeHost
    FreePorts <- SomePorts
    Datagrams <- SomeDatagrams
SPECIFICATION Spec
INVARIANTS AnnouncedWhenListening
CHECK_DEADLOCK FALSE

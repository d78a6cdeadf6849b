CONSTANTS
    PortModulus = 16
    Conn = {c1, c2}
    Tables <- SomeTables
    Host <- SomeHost
    FreePorts <- SomePorts
    Datagrams <- SomeDatagrams
SPECIFICATION FairSpec
INVARIANTS TypeOK AnswersTrue NothingForgotten
PROPERTIES SearchAnswered AcceptedOrReset SignalEnds
CHECK_DEADLOCK FALSE

SPECIFICATION Spec
CONSTANTS
    c1 = c1
    c2 = c2
    k1 = k1
    k2 = k2
    NoContext = NoContext
    Context <- TwoContexts
    Connection <- Connections
    MaxEngines = 2
    MaxRecordings = 2
    MaxStatements = 3
CHECK_DEADLOCK FALSE
SYMMETRY Symmetry
INVARIANT ListenersComeOff
PROPERTY BlocksRecordTheirStatements OpenBlocksTimeTheirStatements

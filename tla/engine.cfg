SPECIFICATION EngineSpec
CONSTANTS
    t1 = t1
    t2 = t2
    t3 = t3
    NoThread = NoThread
    Thread <- Threads
    MaxEngines = 3
    MaxCalls = 2
CHECK_DEADLOCK FALSE
INVARIANT TypeOK NoEngineIsLost OneCheckout
PROPERTY CallsEnd

SPECIFICATION Spec
CONSTANTS
    t1 = t1
    t2 = t2
    t3 = t3
    NoTask = NoTask
    Task <- Tasks
    Grouped = TRUE
    MaxCalls = 1
    MaxCancels = 2
CHECK_DEADLOCK FALSE
INVARIANT ConnectionsGoBack 
PROPERTY CallsEnd

SPECIFICATION Spec
CONSTANTS
    MaxDepth = 3
    Row = {1}
    TransactionOptions <- NestedOptions
    KeptOps = {"commit"}
CHECK_DEADLOCK FALSE
INVARIANT SavepointsInOrder ApartStaysApart
PROPERTY OutermostOwnsTheCommit

SPECIFICATION Spec
CONSTANTS
    MaxDepth = 2
    Row = {1, 2}
    TransactionOptions <- AllOptions
    KeptOps = {"add", "query", "commit", "rollback"}
CHECK_DEADLOCK FALSE
PROPERTY KeptWorkIsHeld UndoneWorkIsGone ListedFailureKeepsTheRest

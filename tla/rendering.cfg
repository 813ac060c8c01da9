SPECIFICATION Spec
CONSTANTS
    Sources <- MCSources
    Conditions <- MCConditions
    Atoms <- MCAtoms
    Passed <- MCPassed
    Dialects = {"postgresql", "sqlite"}
    RootOf <- MCRootOf
    SqlMacros <- MCSqlMacros
    FileMacros <- MCFileMacros
CHECK_DEADLOCK FALSE
INVARIANT CallsAreBalanced CallsAreOneCondition OnlyTakenBranchesRun StatementsReadTheirValues WhatIsAskedForIsEnough

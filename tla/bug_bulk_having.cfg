SPECIFICATION Spec
CONSTANTS
    Id = {1, 2, 3}
    Value = {1, 2}
    TeamOf <- MCTeamOf
    Admitted = {1}
    Lower <- MCLower
    Offered <- MCOffered
    Fold <- MCFold
    Criteria <- MCCriteria
    Sorts <- MCSorts
    Limits = {1, 2}
    MaxCalls = 2
    Initial <- MCInitial
    BulkQueries <- MCBulkQueries
    MaxDepth = 2
    MaxWrites = 2
INVARIANT BulkRefusesWhatItDrops

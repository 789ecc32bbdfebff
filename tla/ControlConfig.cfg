SPECIFICATION FairSpec
CONSTANTS
    User = {"u", "v"}
    Budgets <- Budget
    Starts = {"custom", "owned"}
    MaxRollbacks = 2
INVARIANTS ImageGuardsTheCore
PROPERTIES OwnedCoreReturns RepairIsActivated
CHECK_DEADLOCK FALSE

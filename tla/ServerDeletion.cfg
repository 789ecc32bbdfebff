SPECIFICATION Spec
CONSTANTS
    Server = {1, 2}
    Machine = {"m1", "m2"}
    First <- Helpers1
    MaxTokens = 2
    Deleted = 1
    Inventory <- Inventories
INVARIANTS NoSelectionIsEmptied LeftoversAreAnnounced DeletedIsRetired AuthorizedIsDurable
PROPERTIES OnlyPlannedNodesGo DeletionEnds
CHECK_DEADLOCK FALSE

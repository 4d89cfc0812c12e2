SPECIFICATION Spec
CONSTANTS
    Needs = {"unknown", "informational"}
    PurchaseStatuses = {"not_checked"}
PROPERTIES
    HandlingKeepsStage

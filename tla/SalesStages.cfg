SPECIFICATION Spec
CONSTANTS
    Needs = {"unknown", "informational", "external", "mixed", "sales"}
    PurchaseStatuses = {"not_checked", "deposit_confirmed"}
INVARIANTS
    TypeOK
PROPERTIES
    NoCloseUnderObjection
    ClosingSellsTheFit
    LateStagesHeld
    ObjectionNeverVanishes

CONSTANTS
    Informational = {"answer_customer_questions"}
    Persuading = {}
    External = {"schedule_appointment", "unknown_external_action"}
    Counts = {3}
    Recognized = {"answer_customer_questions", "schedule_appointment"}
    Mentionable = {"hibrido", "ventas"}
    Slots = {"business_type"}
    MaxAspects = 1
SPECIFICATION MCSpec
INVARIANTS NothingInvented NeverAsksKnown
PROPERTY ImplementsStages
